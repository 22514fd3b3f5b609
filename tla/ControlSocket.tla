---------------------------- MODULE ControlSocket ----------------------------
(* Ownership of the control socket's path: ControlSocketOwner and
   StagingSocketGuard of daemon.rs.  A daemon that starts removes a stale
   socket, binds a new one under a private random name, restricts its mode
   and only then renames it into place; when it ends it unlinks what it put
   there.  Several daemons start, fail, crash and stop against one directory,
   and every system call is a step of its own.

   A socket file is known by its inode number only, and a number is used again
   once its file is gone.  A staging name is random, so nobody else touches
   it: it is kept per daemon.                                               *)
EXTENDS Integers, FiniteSets

CONSTANTS
    Daemons,
    Inodes,      \* inode numbers of the directory's file system
    MaxStarts,   \* bound: starts of daemons, all together
    MaxKills   \* bound: daemons killed, all together

NoInode == 0
Nobody == "nobody"
Dead == "dead"      \* what an earlier life left behind

ASSUME SocketAssumption ==
    /\ 1 \in Inodes /\ NoInode \notin Inodes       \* 1 is the number of a stale file
    /\ Nobody \notin Daemons /\ Dead \notin Daemons

VARIABLES
    inode,    \* inode number -> what the file is (Absent when the number is free)
    public,   \* inode at the control socket path, NoInode when there is no entry
    private,  \* daemon -> inode at its staging path
    own,      \* daemon -> the inode its listener is bound to, while it listens
    doing,    \* daemon -> what it does next
    identity, \* daemon -> identity it read from the path
    probed,   \* daemon -> the file its probe found dead
    fatal,    \* daemon -> the stop flag, raised by a fatal error
    woken,    \* daemon -> accept has something to return
    raced,    \* history: a file was unlinked that was not the one checked
    starts, kills

socketVars == << inode, public, private, own, doing, identity, probed, fatal, woken, raced, starts, kills >>

Absent == [kind |-> "absent", by |-> Nobody, start |-> 0, mode |-> "none"]

Free == { i \in Inodes : inode[i].kind = "absent" }
FileAt(i) == IF i = NoInode THEN Absent ELSE inode[i]

\* A stream listener is bound to the file as long as its daemon runs.
Live(i) == \E d \in Daemons : own[d] = i

(* SocketIdentity::matches compares device and inode number of a socket. *)
Matches(i, id) == i # NoInode /\ i = id /\ inode[i].kind = "socket"

\* Unlinking an entry: the number is free again unless a listener holds it.
Unlinked(i, held) == IF i \in held THEN inode ELSE [inode EXCEPT ![i] = Absent]
Held == { own[d] : d \in Daemons } \ {NoInode}

SocketInit ==
    /\ \E stale \in {"absent", "socket", "dgram", "file"} :
          /\ inode = [i \in Inodes |-> IF i = 1 /\ stale # "absent"
                                       THEN [kind |-> stale, by |-> Dead, start |-> 0, mode |-> "0600"]
                                       ELSE Absent]
          /\ public = IF stale = "absent" THEN NoInode ELSE 1
    /\ private = [d \in Daemons |-> NoInode]
    /\ own = [d \in Daemons |-> NoInode]
    /\ doing = [d \in Daemons |-> "off"]
    /\ identity = [d \in Daemons |-> NoInode]
    /\ probed = [d \in Daemons |-> Absent]
    /\ fatal = [d \in Daemons |-> FALSE]
    /\ woken = [d \in Daemons |-> FALSE]
    /\ raced = FALSE /\ starts = 0 /\ kills = 0

Proceed(d, label) == doing' = [doing EXCEPT ![d] = label]

-----------------------------------------------------------------------------
(* remove_stale_control_socket *)

Start(d) ==
    /\ doing[d] = "off" /\ starts < MaxStarts
    /\ starts' = starts + 1
    /\ identity' = [identity EXCEPT ![d] = NoInode]
    /\ fatal' = [fatal EXCEPT ![d] = FALSE]
    /\ woken' = [woken EXCEPT ![d] = FALSE]
    /\ Proceed(d, "stat")
    /\ UNCHANGED << inode, public, private, own, probed, raced, kills >>

Stat(d) ==
    /\ doing[d] = "stat"
    /\ IF public = NoInode THEN Proceed(d, "bind") /\ UNCHANGED identity
       ELSE IF FileAt(public).kind = "file" THEN Proceed(d, "drop") /\ UNCHANGED identity
       ELSE Proceed(d, "probe") /\ identity' = [identity EXCEPT ![d] = public]
    /\ UNCHANGED << inode, public, private, own, probed, fatal, woken, raced, starts, kills >>

\* Mutant: every answer but success means that the socket is stale.
ProbeAny(d) ==
    /\ doing[d] = "probe"
    /\ IF public = NoInode \/ FileAt(public).kind = "dgram"
       THEN Proceed(d, "drop") /\ UNCHANGED probed
       ELSE Proceed(d, "recheck") /\ probed' = [probed EXCEPT ![d] = FileAt(public)]
    /\ UNCHANGED << inode, public, private, own, identity, fatal, woken, raced, starts, kills >>

\* Connecting a datagram socket: a live stream listener answers EPROTOTYPE, a
\* live datagram socket accepts, and a dead socket or a plain file refuses.
Probe(d) ==
    /\ doing[d] = "probe"
    /\ IF public = NoInode \/ FileAt(public).kind = "dgram" \/ Live(public)
       THEN Proceed(d, "drop") /\ UNCHANGED probed
       ELSE Proceed(d, "recheck") /\ probed' = [probed EXCEPT ![d] = FileAt(public)]
    /\ UNCHANGED << inode, public, private, own, identity, fatal, woken, raced, starts, kills >>

Recheck(d) ==
    /\ doing[d] = "recheck"
    /\ Proceed(d, IF public = NoInode THEN "bind"
               ELSE IF Matches(public, identity[d]) THEN "unlink" ELSE "drop")
    /\ UNCHANGED << inode, public, private, own, identity, probed, fatal, woken, raced, starts, kills >>

\* remove_file takes whatever is at the path by now.
Unlink(d) ==
    /\ doing[d] = "unlink"
    /\ IF public = NoInode THEN Proceed(d, "drop") /\ UNCHANGED << inode, public, raced >>
       ELSE /\ Proceed(d, "bind")
            /\ raced' = (raced \/ FileAt(public) # probed[d])
            /\ inode' = Unlinked(public, Held)
            /\ public' = NoInode
    /\ UNCHANGED << private, own, identity, probed, fatal, woken, starts, kills >>

-----------------------------------------------------------------------------
(* bind_with_io *)

Bind(d) ==
    /\ doing[d] = "bind"
    /\ \/ Proceed(d, "drop") /\ UNCHANGED << inode, private, own >>
       \/ \E i \in Free :
            /\ inode' = [inode EXCEPT ![i] =
                  [kind |-> "socket", by |-> d, start |-> starts, mode |-> "umask"]]
            /\ private' = [private EXCEPT ![d] = i]
            /\ own' = [own EXCEPT ![d] = i]
            /\ Proceed(d, "pin")
    /\ UNCHANGED << public, identity, probed, fatal, woken, raced, starts, kills >>

\* The identity is read, the file pinned and compared; each may fail.
Pin(d) ==
    /\ doing[d] = "pin"
    /\ \/ Proceed(d, "drop") /\ UNCHANGED identity
       \/ Proceed(d, "chmod") /\ identity' = [identity EXCEPT ![d] = private[d]]
    /\ UNCHANGED << inode, public, private, own, probed, fatal, woken, raced, starts, kills >>

Chmod(d) ==
    /\ doing[d] = "chmod"
    /\ \/ Proceed(d, "drop") /\ UNCHANGED inode
       \/ Proceed(d, "publish") /\ inode' = [inode EXCEPT ![identity[d]].mode = "0600"]
    /\ UNCHANGED << public, private, own, identity, probed, fatal, woken, raced, starts, kills >>

\* renameat2 with RENAME_NOREPLACE, then the owner's path is the public one.
RenameIntoPlace(d) ==
    /\ doing[d] = "publish"
    /\ IF public # NoInode THEN Proceed(d, "drop") /\ UNCHANGED << public, private >>
       ELSE /\ public' = private[d]
            /\ private' = [private EXCEPT ![d] = NoInode]
            /\ Proceed(d, "setup")
    /\ UNCHANGED << inode, own, identity, probed, fatal, woken, raced, starts, kills >>

\* The rest of the bootstrap runs under the guard: it succeeds, or the owner
\* is dropped.
Setup(d) ==
    /\ doing[d] = "setup"
    /\ Proceed(d, "serve") \/ Proceed(d, "cleanup")
    /\ UNCHANGED << inode, public, private, own, identity, probed, fatal, woken, raced, starts, kills >>

-----------------------------------------------------------------------------
(* The running daemon and its end *)

\* Mutant: the flag alone.
SignalFatalSilent(d) ==
    /\ doing[d] = "serve" /\ ~fatal[d]
    /\ fatal' = [fatal EXCEPT ![d] = TRUE]
    /\ UNCHANGED << inode, public, private, own, doing, identity, probed, woken, raced, starts, kills >>

(* signal_fatal: the flag, then a connection to the path to make accept
   return.  The connection reaches whoever is at the path. *)
SignalFatal(d) ==
    /\ doing[d] = "serve" /\ ~fatal[d]
    /\ fatal' = [fatal EXCEPT ![d] = TRUE]
    /\ woken' = [e \in Daemons |-> woken[e] \/ (own[e] # NoInode /\ own[e] = public)]
    /\ UNCHANGED << inode, public, private, own, doing, identity, probed, raced, starts, kills >>

\* A client's stop request, read from an accepted connection.
StopRequest(d) ==
    /\ doing[d] = "serve" /\ public = own[d]
    /\ Proceed(d, "cleanup")
    /\ UNCHANGED << inode, public, private, own, identity, probed, fatal, woken, raced, starts, kills >>

\* accept returns; the loop ends when the flag is up.
Accept(d) ==
    /\ doing[d] = "serve" /\ woken[d]
    /\ woken' = [woken EXCEPT ![d] = FALSE]
    /\ IF fatal[d] THEN Proceed(d, "cleanup") ELSE UNCHANGED doing
    /\ UNCHANGED << inode, public, private, own, identity, probed, fatal, raced, starts, kills >>

(* cleanup_socket_path on the public path: look, then unlink. *)
Cleanup(d) ==
    /\ doing[d] = "cleanup"
    /\ Proceed(d, IF Matches(public, identity[d]) THEN "remove" ELSE "drop")
    /\ UNCHANGED << inode, public, private, own, identity, probed, fatal, woken, raced, starts, kills >>

RemovePublic(d) ==
    /\ doing[d] = "remove"
    /\ Proceed(d, "drop")
    /\ IF public = NoInode THEN UNCHANGED << inode, public, raced >>
       ELSE /\ raced' = (raced \/ public # own[d])
            /\ inode' = Unlinked(public, Held)
            /\ public' = NoInode
    /\ UNCHANGED << private, own, identity, probed, fatal, woken, starts, kills >>

\* Whatever is still at the staging path is removed, and the listener closed.
Drop(d) ==
    /\ doing[d] = "drop"
    /\ inode' = [i \in Inodes |-> IF i # NoInode /\ i \in {own[d], private[d]} /\ i # public
                                  THEN Absent ELSE inode[i]]
    /\ private' = [private EXCEPT ![d] = NoInode]
    /\ own' = [own EXCEPT ![d] = NoInode]
    /\ Proceed(d, "off")
    /\ UNCHANGED << public, identity, probed, fatal, woken, raced, starts, kills >>

\* The process is killed: its files stay, its listener does not.
Kill(d) ==
    /\ doing[d] # "off" /\ kills < MaxKills
    /\ kills' = kills + 1
    /\ Proceed(d, "off")
    /\ own' = [own EXCEPT ![d] = NoInode]
    /\ inode' = [i \in Inodes |-> IF own[d] = i /\ public # i /\ private[d] # i
                                  THEN Absent
                                  ELSE IF own[d] = i THEN [inode[i] EXCEPT !.by = Dead]
                                  ELSE inode[i]]
    /\ private' = [private EXCEPT ![d] = NoInode]
    /\ UNCHANGED << public, identity, probed, fatal, woken, raced, starts >>

Step(d) ==
    \/ Stat(d) \/ Probe(d) \/ Recheck(d) \/ Unlink(d)
    \/ Bind(d) \/ Pin(d) \/ Chmod(d) \/ RenameIntoPlace(d) \/ Setup(d)
    \/ Accept(d) \/ Cleanup(d) \/ RemovePublic(d) \/ Drop(d)

SocketNext ==
    \E d \in Daemons :
        Step(d) \/ Start(d) \/ SignalFatal(d) \/ StopRequest(d) \/ Kill(d)

\* A process that can go on does.
SocketSpec == SocketInit /\ [][SocketNext]_socketVars /\ \A d \in Daemons : WF_socketVars(Step(d))

-----------------------------------------------------------------------------
(* Properties *)

(* A control socket is never reachable with the mode the process's umask gave
   it: at the public path it has been restricted already, whatever step the
   daemon, a crash or another daemon's start came before (bind_with_io). *)
PublishedPrivate ==
    public # NoInode /\ FileAt(public).by \in Daemons => FileAt(public).mode = "0600"

(* Two daemons never both take the path: one that serves is the one that is
   reached there.  The checks of remove_stale_control_socket leave one gap,
   from the second look at the path to the unlink (and, with a reused inode
   number, from the probe on); nothing else can displace a live listener. *)
NeverDisplaced ==
    ~raced => \A d \in Daemons : doing[d] = "serve" => public = own[d]

(* A daemon that ends, at whatever step of its start, leaves no file behind,
   neither the public nor the private one; only a killed process does
   (StagingSocketGuard and ControlSocketOwner's Drop). *)
NothingLeftBehind ==
    \A i \in Inodes : inode[i].by \in Daemons => own[inode[i].by] = i

(* A socket at the public path has been restricted, a daemon that serves is
   the one reached there unless the gap between recheck and unlink was hit,
   and a daemon that ends at whatever step leaves no file behind.           *)
SocketSound == PublishedPrivate /\ NeverDisplaced /\ NothingLeftBehind

(* A fatal error ends the daemon although its listener waits in accept: the
   wake-up connection reaches its own listener unless its path was taken
   (signal_fatal, nonblocking_control_wake). *)
FatalEnds ==
    \A d \in Daemons : fatal[d] ~> (doing[d] = "off" \/ raced)
=============================================================================
