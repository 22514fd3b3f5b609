------------------------- MODULE ActivityDetector -------------------------
(* The activity detector of activity.rs: what it finds out about one channel
   of a frozen epoch, and the decision it leads to.  It is a pure algorithm:
   a left fold of feed_sample over the channel's samples between prepare_state
   and finish_state.

   Amplitudes are natural numbers, with -120 dBFS at the value Floor; 6 dB is
   a factor of two and 12 dB a factor of four, so a channel whose gate opens
   at amplitude t (even) closes it at t / 2 and takes a peak of 4t for a
   transient.
   A root mean square is compared by its square times the count, which is what
   the floating-point comparison decides.                                  *)
EXTENDS Integers, Sequences

CONSTANTS
    WindowMs,     \* length of an analysis window: 20 in the code
    HopMs,        \* distance between the starts of two windows: 10
    SustainedMs,  \* how long the gate stays open before a channel is active: 100
    PrerollMs     \* what is kept ahead of the first evidence: 2000

NonFinite == -1         \* a sample that is NaN or infinite
Floor == 2              \* dbfs(0) is -120
NoThreshold == 0        \* no threshold configured, or one that is not finite
NoFrame == -1           \* Option::None of a frame

CeilDiv(a, b) == (a + b - 1) \div b
AtLeastOne(n) == IF n < 1 THEN 1 ELSE n
Earlier(a, b) == IF a = NoFrame \/ b < a THEN b ELSE a

WindowGeometry(rate) ==
    [window    |-> AtLeastOne(CeilDiv(rate * WindowMs, 1000)),
     hop       |-> AtLeastOne(CeilDiv(rate * HopMs, 1000)),
     sustained |-> AtLeastOne(CeilDiv(rate * SustainedMs, 1000))]

Accumulator(start) == [start |-> start, sum |-> 0, peak |-> 0, count |-> 0]

\* The level of an empty window is the floor, not minus infinity.
RmsReaches(acc, level) ==
    IF acc.sum = 0 THEN Floor >= level ELSE acc.sum >= level * level * acc.count
PeakReaches(acc, level) ==
    (IF acc.peak = 0 THEN Floor ELSE acc.peak) >= level

(* prepare_state: a windowed channel that has no threshold is ambiguous from
   the first frame on. *)
PrepareState(detector, g, threshold, start) ==
    LET blind == detector = "windowed" /\ threshold = NoThreshold
    IN  [acc       |-> << Accumulator(0),
                          Accumulator(IF detector = "windowed" THEN g.hop ELSE 0) >>,
         gate      |-> NoFrame,
         result    |-> IF blind THEN "ambiguous" ELSE "inactive",
         nonFinite |-> FALSE,
         nonzero   |-> FALSE,
         evidence  |-> IF blind THEN start ELSE NoFrame]

(* evaluate_window: a window at the closing level or with a transient is
   evidence; a transient is activity at once and leaves the gate alone; the
   gate opens at the opening level, closes below the closing one, and is
   activity once it has been open for the sustained time. *)
EvaluateWindow(st, acc, start, g, threshold) ==
    LET first     == start + acc.start
        end       == first + acc.count
        closed    == ~RmsReaches(acc, threshold \div 2)
        opens     == RmsReaches(acc, threshold)
        transient == PeakReaches(acc, 4 * threshold)
        noted     == IF closed /\ ~transient THEN st
                     ELSE [st EXCEPT !.evidence = Earlier(@, first),
                                     !.result = IF @ = "inactive" THEN "ambiguous" ELSE @]
        since     == IF st.gate # NoFrame THEN st.gate ELSE first
        isOpen    == IF st.gate # NoFrame THEN ~closed ELSE opens
    IN  IF acc.count = 0 THEN st
        ELSE IF transient THEN [noted EXCEPT !.result = "active"]
        ELSE [noted EXCEPT !.gate = IF isOpen THEN since ELSE NoFrame,
                           !.result = IF isOpen /\ end - since >= g.sustained
                                      THEN "active" ELSE @]

\* One accumulator takes one sample; a full window is evaluated and moves on.
FeedWindow(st, i, sample, frame, start, g, threshold) ==
    LET acc  == st.acc[i]
        fed  == [acc EXCEPT !.count = @ + 1,
                            !.sum = IF sample = NonFinite THEN @ ELSE @ + sample * sample,
                            !.peak = IF sample = NonFinite \/ sample < @ THEN @ ELSE sample]
    IN  IF frame < acc.start \/ frame >= acc.start + g.window THEN st
        ELSE IF fed.count < g.window THEN [st EXCEPT !.acc[i] = fed]
        ELSE EvaluateWindow([st EXCEPT !.acc[i] = Accumulator(acc.start + 2 * g.hop)],
                            fed, start, g, threshold)

FeedSample(st, detector, sample, frame, start, g, threshold) ==
    LET loud   == sample # NonFinite /\ sample # 0
        marked == [st EXCEPT
            !.nonFinite = @ \/ sample = NonFinite,
            !.nonzero = @ \/ loud,
            !.result = IF loud /\ detector = "exact-zero" THEN "active" ELSE @,
            !.evidence = IF loud /\ detector = "exact-zero" /\ @ = NoFrame
                         THEN start + frame ELSE @]
    IN  IF detector # "windowed" \/ threshold = NoThreshold THEN marked
        ELSE FeedWindow(FeedWindow(marked, 1, sample, frame, start, g, threshold),
                        2, sample, frame, start, g, threshold)

\* Mutant: the windows cut short by the end of the recording are forgotten.
FinishStateFullOnly(st, detector, start, g, threshold) ==
    [st EXCEPT !.result = IF st.nonFinite THEN "ambiguous" ELSE @]

(* finish_state: the windows the recording cut short count too, in the order
   of their starts; a channel with a sample that is not a number can never be
   trusted to be silent. *)
FinishState(st, detector, start, g, threshold) ==
    LET order  == IF st.acc[1].start <= st.acc[2].start THEN << 1, 2 >> ELSE << 2, 1 >>
        once   == EvaluateWindow(st, st.acc[order[1]], start, g, threshold)
        both   == EvaluateWindow(once, st.acc[order[2]], start, g, threshold)
        closed == IF detector = "windowed" /\ threshold # NoThreshold THEN both ELSE st
    IN  [closed EXCEPT !.result = IF st.nonFinite THEN "ambiguous" ELSE @]

\* The finished detector state of one channel's samples.
ClassifyChannel(samples, detector, g, threshold, start) ==
    LET fed[n \in 0..Len(samples)] ==
            IF n = 0 THEN PrepareState(detector, g, threshold, start)
            ELSE FeedSample(fed[n - 1], detector, samples[n], n - 1, start, g, threshold)
    IN  FinishState(fed[Len(samples)], detector, start, g, threshold)

Disposition(mode, result) ==
    IF mode = "never" \/ (mode = "auto" /\ result = "inactive") THEN "omit" ELSE "retain"

ChannelDecision(mode, st) ==
    [mode |-> mode, result |-> st.result,
     disposition |-> Disposition(mode, st.result), evidence |-> st.evidence]

EmptyDecision == [valid |-> FALSE, channels |-> << >>, start |-> 0, end |-> 0, epoch |-> 0]

(* FrozenExportDecision::finalize: the dispositions of all channels, and one
   common start, the preroll ahead of the earliest evidence of a channel that
   is kept. *)
Finalize(start, end, rate, epoch, channels, trim, gated) ==
    LET dropAll  == gated \/ \A c \in DOMAIN channels : channels[c].mode = "never"
        evidence == { channels[c].evidence : c \in
                        { d \in DOMAIN channels : /\ ~dropAll
                                                  /\ channels[d].disposition = "retain"
                                                  /\ channels[d].evidence # NoFrame } }
        first    == CHOOSE e \in evidence : \A f \in evidence : e <= f
        crop     == first - (PrerollMs * rate) \div 1000
        trimmed  == IF ~trim \/ evidence = {} \/ crop < start THEN start ELSE crop
    IN  [valid |-> TRUE, start |-> trimmed, end |-> end, epoch |-> epoch,
         channels |-> [c \in DOMAIN channels |->
            [channels[c] EXCEPT !.disposition = IF dropAll THEN "omit" ELSE @]]]

(* classify_frozen_epoch over a recording, a sequence of samples per channel. *)
ClassifyFrozenEpoch(recording, start, rate, epoch, activity) ==
    LET g == WindowGeometry(rate)
        states == [c \in DOMAIN activity.channels |->
                     ClassifyChannel(recording[c], activity.detector, g,
                                     activity.channels[c].threshold, start)]
        silent == \A c \in DOMAIN states : ~states[c].nonFinite /\ ~states[c].nonzero
    IN  Finalize(start, start + Len(recording[1]), rate, epoch,
                 [c \in DOMAIN states |-> ChannelDecision(activity.channels[c].mode, states[c])],
                 activity.trim, activity.gate /\ silent)

=============================================================================
