------------------------ MODULE ControlSocket_proofs ------------------------
(***************************************************************************)
(* Any number of daemons start, fail, end and are killed against one       *)
(* control socket path, with inode numbers used again: what is published   *)
(* there is restricted, what serves is reached, what ends leaves nothing.  *)
(***************************************************************************)
EXTENDS ControlSocket, TLAPS

Owned == {"setup", "serve", "cleanup", "remove"}
Unborn == {"off", "stat", "probe", "recheck", "unlink", "bind"}
Labels == Owned \cup Unborn \cup {"pin", "chmod", "publish", "drop"}
Files == [kind : {"absent", "socket", "dgram", "file"}, by : Daemons \cup {Nobody, Dead}, start : Nat,
          mode : {"none", "umask", "0600"}]
Names == Inodes \cup {NoInode}

SocketTypes ==
    /\ inode \in [Inodes -> Files] /\ public \in Names
    /\ private \in [Daemons -> Names] /\ own \in [Daemons -> Names]
    /\ doing \in [Daemons -> Labels] /\ identity \in [Daemons -> Names]
    /\ probed \in [Daemons -> Files] /\ starts \in Nat

\* A file that a running daemon has made is the one its listener is bound to, and the
\* other way round.
Listeners ==
    /\ \A i \in Inodes : inode[i].by \in Daemons => own[inode[i].by] = i
    /\ \A d \in Daemons : own[d] # NoInode => inode[own[d]].by = d /\ inode[own[d]].kind = "socket"
    /\ \A i \in Inodes : inode[i].kind = "absent" => inode[i].by = Nobody

\* What a daemon holds at each stage of its start and of its end.
Stages ==
    \A d \in Daemons :
        /\ doing[d] \in Unborn => own[d] = NoInode /\ private[d] = NoInode
        /\ doing[d] \in {"pin", "chmod", "publish"} => own[d] # NoInode /\ private[d] = own[d]
        /\ doing[d] \in Owned => own[d] # NoInode /\ private[d] = NoInode
        /\ doing[d] \in {"chmod", "publish"} \cup Owned => identity[d] = own[d]
        /\ doing[d] \in {"publish"} => inode[own[d]].mode = "0600"
        /\ private[d] \in {NoInode, own[d]}
        /\ doing[d] \in {"recheck", "unlink"} => probed[d].by \notin Daemons

\* Who is at the public path.
Place ==
    /\ public # NoInode => inode[public].kind # "absent"
    /\ public # NoInode /\ inode[public].by \in Daemons => inode[public].mode = "0600"
    /\ \A d \in Daemons : own[d] # NoInode /\ doing[d] \notin Owned => public # own[d]
    /\ ~raced => \A d \in Daemons : doing[d] \in Owned => public = own[d]

SocketInv == SocketTypes /\ Listeners /\ Stages /\ Place

-----------------------------------------------------------------------------
(* Every step keeps it: one lemma per conjunct, one step per system call.  *)

\* A number that is free.
LEMMA AbsentIs ==
    Absent \in Files /\ Absent.kind = "absent" /\ Absent.by = Nobody /\ Absent.by \notin Daemons
BY SocketAssumption DEF Absent, Files

\* The types.
LEMMA TypesKept ==
    ASSUME SocketInv, NEW d \in Daemons, Step(d) \/ Start(d) \/ SignalFatal(d) \/ StopRequest(d) \/ Kill(d)
    PROVE  SocketTypes'
<1>t. SocketTypes
  BY DEF SocketInv
<1>1. CASE Stat(d)
  BY <1>1, <1>t, SocketAssumption DEF Stat, FileAt, Proceed, SocketTypes, Labels, Owned, Unborn, Names, NoInode
<1>2. CASE Probe(d)
  <2>1. FileAt(public) \in Files
    BY <1>t, AbsentIs DEF FileAt, SocketTypes, Names
  <2> QED BY <1>2, <1>t, <2>1 DEF Probe, Proceed, SocketTypes, Labels, Owned, Unborn
<1>3. CASE Recheck(d)
  BY <1>3, <1>t, SocketAssumption DEF Recheck, Matches, Proceed, SocketTypes, Labels, Owned, Unborn, Names, NoInode
<1>4. CASE Unlink(d)
  BY <1>4, <1>t, SocketAssumption, AbsentIs DEF Unlink, FileAt, Unlinked, Held, Proceed, SocketTypes, Labels, Owned, Unborn, Names, NoInode
<1>5. CASE Bind(d)
  <2>1. [kind |-> "socket", by |-> d, start |-> starts, mode |-> "umask"] \in Files
    BY <1>t DEF SocketTypes, Files
  <2> QED BY <1>5, <1>t, <2>1 DEF Bind, Free, Proceed, SocketTypes, Labels, Owned, Unborn, Names
<1>6. CASE Pin(d)
  BY <1>6, <1>t, SocketAssumption DEF Pin, Proceed, SocketTypes, Labels, Owned, Unborn, Names, NoInode
<1>7. CASE Chmod(d)
  <2>1. identity[d] \in Inodes /\ identity[d] = own[d]
    BY <1>7, <1>t DEF Chmod, SocketInv, Stages, SocketTypes, Names
  <2>2. [inode[identity[d]] EXCEPT !.mode = "0600"] \in Files
    BY <1>t, <2>1 DEF SocketTypes, Files
  <2>3. [inode EXCEPT ![identity[d]].mode = "0600"] \in [Inodes -> Files]
    BY <1>t, <2>1, <2>2 DEF SocketTypes
  <2> QED BY <1>7, <1>t, <2>3 DEF Chmod, Proceed, SocketTypes, Labels, Owned, Unborn, Names
<1>8. CASE RenameIntoPlace(d)
  BY <1>8, <1>t, SocketAssumption DEF RenameIntoPlace, Proceed, SocketTypes, Labels, Owned, Unborn, Names, NoInode
<1>9. CASE Setup(d)
  BY <1>9, <1>t, SocketAssumption DEF Setup, Proceed, SocketTypes, Labels, Owned, Unborn, Names, NoInode
<1>10. CASE Accept(d)
  BY <1>10, <1>t, SocketAssumption DEF Accept, Proceed, SocketTypes, Labels, Owned, Unborn, Names, NoInode
<1>11. CASE Cleanup(d)
  BY <1>11, <1>t, SocketAssumption DEF Cleanup, Matches, Proceed, SocketTypes, Labels, Owned, Unborn, Names, NoInode
<1>12. CASE RemovePublic(d)
  BY <1>12, <1>t, SocketAssumption, AbsentIs DEF RemovePublic, Unlinked, Held, Proceed, SocketTypes, Labels, Owned, Unborn, Names, NoInode
<1>13. CASE Drop(d)
  BY <1>13, <1>t, SocketAssumption, AbsentIs DEF Drop, Proceed, SocketTypes, Labels, Owned, Unborn, Names, NoInode
<1>14. CASE Start(d)
  BY <1>14, <1>t, SocketAssumption DEF Start, Proceed, SocketTypes, Labels, Owned, Unborn, Names, NoInode
<1>15. CASE SignalFatal(d)
  BY <1>15, <1>t, SocketAssumption DEF SignalFatal, Proceed, SocketTypes, Labels, Owned, Unborn, Names, NoInode
<1>16. CASE StopRequest(d)
  BY <1>16, <1>t, SocketAssumption DEF StopRequest, Proceed, SocketTypes, Labels, Owned, Unborn, Names, NoInode
<1>17. CASE Kill(d)
  <2>1. \A i \in Inodes : [inode[i] EXCEPT !.by = Dead] \in Files
    BY <1>t DEF SocketTypes, Files
  <2> QED BY <1>17, <1>t, <2>1, AbsentIs DEF Kill, Proceed, SocketTypes, Labels, Owned, Unborn, Names
<1> QED BY <1>1, <1>2, <1>3, <1>4, <1>5, <1>6, <1>7, <1>8, <1>9, <1>10, <1>11, <1>12, <1>13, <1>14, <1>15, <1>16, <1>17 DEF Step

\* fchmod changes the mode of the daemon's own file, if anything.
LEMMA ChmodEffect ==
    ASSUME SocketInv, NEW d \in Daemons, Chmod(d)
    PROVE  /\ own[d] \in Inodes /\ doing[d] = "chmod"
           /\ \A i \in Inodes : inode'[i].by = inode[i].by /\ inode'[i].kind = inode[i].kind
                                /\ (inode'[i].mode = inode[i].mode \/ inode'[i].mode = "0600")
           /\ doing' = [doing EXCEPT ![d] = "drop"] \/ (doing' = [doing EXCEPT ![d] = "publish"] /\ inode'[own[d]].mode = "0600")
           /\ UNCHANGED << public, private, own, identity, probed, raced >>
<1>1. own[d] \in Inodes /\ identity[d] = own[d] /\ inode \in [Inodes -> Files]
  BY DEF Chmod, SocketInv, Stages, SocketTypes, Names
<1>2. CASE UNCHANGED inode /\ Proceed(d, "drop")
  BY <1>1, <1>2 DEF Chmod, Proceed
<1>3. CASE Proceed(d, "publish") /\ inode' = [inode EXCEPT ![identity[d]].mode = "0600"]
  <2>1. \A i \in Inodes : inode'[i] = IF i = own[d] THEN [inode[i] EXCEPT !.mode = "0600"] ELSE inode[i]
    BY <1>1, <1>3
  <2>2. \A i \in Inodes : inode[i] \in Files
    BY <1>1
  <2>3. inode'[own[d]].mode = "0600" /\ \A i \in Inodes : inode'[i].by = inode[i].by /\ inode'[i].kind = inode[i].kind
                                /\ (inode'[i].mode = inode[i].mode \/ inode'[i].mode = "0600")
    BY ZenonT(30), <1>1, <2>1, <2>2 DEF Files
  <2> QED BY <1>1, <1>3, <2>3 DEF Chmod, Proceed
<1> QED BY <1>2, <1>3 DEF Chmod

\* Files and listeners.
LEMMA ListenersKept ==
    ASSUME SocketInv, NEW d \in Daemons, Step(d) \/ Start(d) \/ SignalFatal(d) \/ StopRequest(d) \/ Kill(d)
    PROVE  Listeners'
<1>t. SocketTypes /\ Listeners /\ Stages /\ Place
  BY DEF SocketInv
<1>1. CASE Stat(d)
  BY <1>1, <1>t, SocketAssumption DEF Stat, FileAt, Proceed, SocketTypes, Listeners, Stages, Place, Labels, Owned, Unborn, Names, NoInode
<1>2. CASE Probe(d)
  BY <1>2, <1>t, SocketAssumption, AbsentIs DEF Probe, FileAt, Live, Proceed, SocketTypes, Listeners, Stages, Place, Labels, Owned, Unborn, Names, NoInode
<1>3. CASE Recheck(d)
  BY <1>3, <1>t, SocketAssumption DEF Recheck, Matches, Proceed, SocketTypes, Listeners, Stages, Place, Labels, Owned, Unborn, Names, NoInode
<1>4. CASE Unlink(d)
  BY <1>4, <1>t, SocketAssumption, AbsentIs DEF Unlink, FileAt, Unlinked, Held, Proceed, SocketTypes, Listeners, Stages, Place, Labels, Owned, Unborn, Names, NoInode
<1>5. CASE Bind(d)
  BY <1>5, <1>t, SocketAssumption DEF Bind, Free, Proceed, SocketTypes, Listeners, Stages, Place, Labels, Owned, Unborn, Names, NoInode
<1>6. CASE Pin(d)
  BY <1>6, <1>t, SocketAssumption DEF Pin, Proceed, SocketTypes, Listeners, Stages, Place, Labels, Owned, Unborn, Names, NoInode
<1>7. CASE Chmod(d)
  BY <1>7, <1>t, ChmodEffect DEF SocketTypes, Listeners, Stages, Place, Labels, Owned, Unborn, Names, NoInode
<1>8. CASE RenameIntoPlace(d)
  BY <1>8, <1>t, SocketAssumption DEF RenameIntoPlace, Proceed, SocketTypes, Listeners, Stages, Place, Labels, Owned, Unborn, Names, NoInode
<1>9. CASE Setup(d)
  BY <1>9, <1>t, SocketAssumption DEF Setup, Proceed, SocketTypes, Listeners, Stages, Place, Labels, Owned, Unborn, Names, NoInode
<1>10. CASE Accept(d)
  BY <1>10, <1>t, SocketAssumption DEF Accept, Proceed, SocketTypes, Listeners, Stages, Place, Labels, Owned, Unborn, Names, NoInode
<1>11. CASE Cleanup(d)
  BY <1>11, <1>t, SocketAssumption DEF Cleanup, Matches, Proceed, SocketTypes, Listeners, Stages, Place, Labels, Owned, Unborn, Names, NoInode
<1>12. CASE RemovePublic(d)
  BY <1>12, <1>t, SocketAssumption, AbsentIs DEF RemovePublic, Unlinked, Held, Proceed, SocketTypes, Listeners, Stages, Place, Labels, Owned, Unborn, Names, NoInode
<1>13. CASE Drop(d)
  BY <1>13, <1>t, SocketAssumption, AbsentIs DEF Drop, Proceed, SocketTypes, Listeners, Stages, Place, Labels, Owned, Unborn, Names, NoInode
<1>14. CASE Start(d)
  BY <1>14, <1>t, SocketAssumption DEF Start, Proceed, SocketTypes, Listeners, Stages, Place, Labels, Owned, Unborn, Names, NoInode
<1>15. CASE SignalFatal(d)
  BY <1>15, <1>t, SocketAssumption DEF SignalFatal, Proceed, SocketTypes, Listeners, Stages, Place, Labels, Owned, Unborn, Names, NoInode
<1>16. CASE StopRequest(d)
  BY <1>16, <1>t, SocketAssumption DEF StopRequest, Proceed, SocketTypes, Listeners, Stages, Place, Labels, Owned, Unborn, Names, NoInode
<1>17. CASE Kill(d)
  BY <1>17, <1>t, SocketAssumption, AbsentIs DEF Kill, Proceed, SocketTypes, Listeners, Stages, Place, Labels, Owned, Unborn, Names, NoInode
<1> QED BY <1>1, <1>2, <1>3, <1>4, <1>5, <1>6, <1>7, <1>8, <1>9, <1>10, <1>11, <1>12, <1>13, <1>14, <1>15, <1>16, <1>17 DEF Step

\* What a daemon holds.
LEMMA StagesKept ==
    ASSUME SocketInv, NEW d \in Daemons, Step(d) \/ Start(d) \/ SignalFatal(d) \/ StopRequest(d) \/ Kill(d)
    PROVE  Stages'
<1>t. SocketTypes /\ Listeners /\ Stages /\ Place
  BY DEF SocketInv
<1>1. CASE Stat(d)
  BY <1>1, <1>t, SocketAssumption DEF Stat, FileAt, Proceed, SocketTypes, Listeners, Stages, Place, Labels, Owned, Unborn, Names, NoInode
<1>2. CASE Probe(d)
  BY <1>2, <1>t, SocketAssumption, AbsentIs DEF Probe, FileAt, Live, Proceed, SocketTypes, Listeners, Stages, Place, Labels, Owned, Unborn, Names, NoInode
<1>3. CASE Recheck(d)
  BY <1>3, <1>t, SocketAssumption DEF Recheck, Matches, Proceed, SocketTypes, Listeners, Stages, Place, Labels, Owned, Unborn, Names, NoInode
<1>4. CASE Unlink(d)
  BY <1>4, <1>t, SocketAssumption, AbsentIs DEF Unlink, FileAt, Unlinked, Held, Proceed, SocketTypes, Listeners, Stages, Place, Labels, Owned, Unborn, Names, NoInode
<1>5. CASE Bind(d)
  BY <1>5, <1>t, SocketAssumption DEF Bind, Free, Proceed, SocketTypes, Listeners, Stages, Place, Labels, Owned, Unborn, Names, NoInode
<1>6. CASE Pin(d)
  BY <1>6, <1>t, SocketAssumption DEF Pin, Proceed, SocketTypes, Listeners, Stages, Place, Labels, Owned, Unborn, Names, NoInode
<1>7. CASE Chmod(d)
  BY <1>7, <1>t, ChmodEffect DEF SocketTypes, Listeners, Stages, Place, Labels, Owned, Unborn, Names, NoInode
<1>8. CASE RenameIntoPlace(d)
  BY <1>8, <1>t, SocketAssumption DEF RenameIntoPlace, Proceed, SocketTypes, Listeners, Stages, Place, Labels, Owned, Unborn, Names, NoInode
<1>9. CASE Setup(d)
  BY <1>9, <1>t, SocketAssumption DEF Setup, Proceed, SocketTypes, Listeners, Stages, Place, Labels, Owned, Unborn, Names, NoInode
<1>10. CASE Accept(d)
  BY <1>10, <1>t, SocketAssumption DEF Accept, Proceed, SocketTypes, Listeners, Stages, Place, Labels, Owned, Unborn, Names, NoInode
<1>11. CASE Cleanup(d)
  BY <1>11, <1>t, SocketAssumption DEF Cleanup, Matches, Proceed, SocketTypes, Listeners, Stages, Place, Labels, Owned, Unborn, Names, NoInode
<1>12. CASE RemovePublic(d)
  BY <1>12, <1>t, SocketAssumption, AbsentIs DEF RemovePublic, Unlinked, Held, Proceed, SocketTypes, Listeners, Stages, Place, Labels, Owned, Unborn, Names, NoInode
<1>13. CASE Drop(d)
  BY <1>13, <1>t, SocketAssumption, AbsentIs DEF Drop, Proceed, SocketTypes, Listeners, Stages, Place, Labels, Owned, Unborn, Names, NoInode
<1>14. CASE Start(d)
  BY <1>14, <1>t, SocketAssumption DEF Start, Proceed, SocketTypes, Listeners, Stages, Place, Labels, Owned, Unborn, Names, NoInode
<1>15. CASE SignalFatal(d)
  BY <1>15, <1>t, SocketAssumption DEF SignalFatal, Proceed, SocketTypes, Listeners, Stages, Place, Labels, Owned, Unborn, Names, NoInode
<1>16. CASE StopRequest(d)
  BY <1>16, <1>t, SocketAssumption DEF StopRequest, Proceed, SocketTypes, Listeners, Stages, Place, Labels, Owned, Unborn, Names, NoInode
<1>17. CASE Kill(d)
  BY <1>17, <1>t, SocketAssumption, AbsentIs DEF Kill, Proceed, SocketTypes, Listeners, Stages, Place, Labels, Owned, Unborn, Names, NoInode
<1> QED BY <1>1, <1>2, <1>3, <1>4, <1>5, <1>6, <1>7, <1>8, <1>9, <1>10, <1>11, <1>12, <1>13, <1>14, <1>15, <1>16, <1>17 DEF Step

\* The public path.
LEMMA PlaceKept ==
    ASSUME SocketInv, NEW d \in Daemons, Step(d) \/ Start(d) \/ SignalFatal(d) \/ StopRequest(d) \/ Kill(d)
    PROVE  Place'
<1>t. SocketTypes /\ Listeners /\ Stages /\ Place
  BY DEF SocketInv
<1>1. CASE Stat(d)
  BY <1>1, <1>t, SocketAssumption DEF Stat, FileAt, Proceed, SocketTypes, Listeners, Stages, Place, Labels, Owned, Unborn, Names, NoInode
<1>2. CASE Probe(d)
  BY <1>2, <1>t, SocketAssumption, AbsentIs DEF Probe, FileAt, Live, Proceed, SocketTypes, Listeners, Stages, Place, Labels, Owned, Unborn, Names, NoInode
<1>3. CASE Recheck(d)
  BY <1>3, <1>t, SocketAssumption DEF Recheck, Matches, Proceed, SocketTypes, Listeners, Stages, Place, Labels, Owned, Unborn, Names, NoInode
<1>4. CASE Unlink(d)
  <2>1. CASE public = NoInode
    BY <1>4, <1>t, <2>1 DEF Unlink, Proceed, SocketTypes, Stages, Place, Owned, Unborn
  <2>2. CASE public # NoInode
    <3>1. /\ public' = NoInode /\ UNCHANGED own /\ (raced' <=> raced \/ FileAt(public) # probed[d])
          /\ \E to \in {"bind", "drop"} : doing' = [doing EXCEPT ![d] = to]
      BY <1>4, <2>2 DEF Unlink, Proceed
    <3>2. ASSUME ~raced', NEW e \in Daemons, doing'[e] \in Owned PROVE public' = own'[e]
      <4>1. e # d /\ doing[e] \in Owned /\ ~raced
        BY <1>t, <3>1, <3>2 DEF SocketTypes, Owned
      <4>2. public = own[e] /\ inode[public].by = e
        BY <1>t, <2>2, <4>1 DEF Place, Listeners
      <4> QED BY <1>4, <1>t, <2>2, <3>1, <3>2, <4>1, <4>2 DEF Unlink, FileAt, Stages
    <3>3. \A e \in Daemons : own'[e] # NoInode => public' # own'[e]
      BY <3>1
    <3> QED BY <3>1, <3>2, <3>3 DEF Place
  <2> QED BY <2>1, <2>2
<1>5. CASE Bind(d)
  BY <1>5, <1>t, SocketAssumption DEF Bind, Free, Proceed, SocketTypes, Listeners, Stages, Place, Labels, Owned, Unborn, Names, NoInode
<1>6. CASE Pin(d)
  BY <1>6, <1>t, SocketAssumption DEF Pin, Proceed, SocketTypes, Listeners, Stages, Place, Labels, Owned, Unborn, Names, NoInode
<1>7. CASE Chmod(d)
  BY <1>7, <1>t, ChmodEffect DEF SocketTypes, Listeners, Stages, Place, Labels, Owned, Unborn, Names, NoInode
<1>8. CASE RenameIntoPlace(d)
  BY <1>8, <1>t, SocketAssumption DEF RenameIntoPlace, Proceed, SocketTypes, Listeners, Stages, Place, Labels, Owned, Unborn, Names, NoInode
<1>9. CASE Setup(d)
  BY <1>9, <1>t, SocketAssumption DEF Setup, Proceed, SocketTypes, Listeners, Stages, Place, Labels, Owned, Unborn, Names, NoInode
<1>10. CASE Accept(d)
  BY <1>10, <1>t, SocketAssumption DEF Accept, Proceed, SocketTypes, Listeners, Stages, Place, Labels, Owned, Unborn, Names, NoInode
<1>11. CASE Cleanup(d)
  BY <1>11, <1>t, SocketAssumption DEF Cleanup, Matches, Proceed, SocketTypes, Listeners, Stages, Place, Labels, Owned, Unborn, Names, NoInode
<1>12. CASE RemovePublic(d)
  <2>1. CASE public = NoInode
    BY <1>12, <1>t, <2>1 DEF RemovePublic, Proceed, SocketTypes, Stages, Place, Owned, Unborn
  <2>2. CASE public # NoInode
    <3>1. /\ public' = NoInode /\ UNCHANGED own /\ (raced' <=> raced \/ public # own[d])
          /\ \E to \in {"bind", "drop"} : doing' = [doing EXCEPT ![d] = to]
      BY <1>12, <2>2 DEF RemovePublic, Proceed
    <3>2. ASSUME ~raced', NEW e \in Daemons, doing'[e] \in Owned PROVE public' = own'[e]
      <4>1. e # d /\ doing[e] \in Owned /\ ~raced
        BY <1>t, <3>1, <3>2 DEF SocketTypes, Owned
      <4>2. public = own[e] /\ inode[public].by = e
        BY <1>t, <2>2, <4>1 DEF Place, Listeners
      <4> QED BY <1>12, <1>t, <2>2, <3>1, <3>2, <4>1, <4>2 DEF RemovePublic, Listeners
    <3>3. \A e \in Daemons : own'[e] # NoInode => public' # own'[e]
      BY <3>1
    <3> QED BY <3>1, <3>2, <3>3 DEF Place
  <2> QED BY <2>1, <2>2
<1>13. CASE Drop(d)
  BY <1>13, <1>t, SocketAssumption, AbsentIs DEF Drop, Proceed, SocketTypes, Listeners, Stages, Place, Labels, Owned, Unborn, Names, NoInode
<1>14. CASE Start(d)
  BY <1>14, <1>t, SocketAssumption DEF Start, Proceed, SocketTypes, Listeners, Stages, Place, Labels, Owned, Unborn, Names, NoInode
<1>15. CASE SignalFatal(d)
  BY <1>15, <1>t, SocketAssumption DEF SignalFatal, Proceed, SocketTypes, Listeners, Stages, Place, Labels, Owned, Unborn, Names, NoInode
<1>16. CASE StopRequest(d)
  BY <1>16, <1>t, SocketAssumption DEF StopRequest, Proceed, SocketTypes, Listeners, Stages, Place, Labels, Owned, Unborn, Names, NoInode
<1>17. CASE Kill(d)
  BY <1>17, <1>t, SocketAssumption, AbsentIs DEF Kill, Proceed, SocketTypes, Listeners, Stages, Place, Labels, Owned, Unborn, Names, NoInode
<1> QED BY <1>1, <1>2, <1>3, <1>4, <1>5, <1>6, <1>7, <1>8, <1>9, <1>10, <1>11, <1>12, <1>13, <1>14, <1>15, <1>16, <1>17 DEF Step

\* Initially.
LEMMA SocketStarts == SocketInit => SocketInv
BY SocketAssumption, AbsentIs DEF SocketInit, SocketInv, SocketTypes, Listeners, Stages, Place, Labels, Owned, Unborn, Names, NoInode, Files

-----------------------------------------------------------------------------
(* The theorems                                                            *)

\* The inductive invariant of the control socket's path (ControlSocketOwner and
\* StagingSocketGuard of daemon.rs).
THEOREM SocketInvariant == SocketSpec => []SocketInv
<1>1. ASSUME SocketInv, [SocketNext]_socketVars PROVE SocketInv'
  <2>1. CASE SocketNext
    BY <1>1, <2>1, TypesKept, ListenersKept, StagesKept, PlaceKept DEF SocketNext, SocketInv
  <2>2. CASE UNCHANGED socketVars
    BY <1>1, <2>2 DEF socketVars, SocketInv, SocketTypes, Listeners, Stages, Place
  <2> QED BY <1>1, <2>1, <2>2
<1> QED BY <1>1, SocketStarts, PTL DEF SocketSpec

\* A control socket is never reachable before its mode is restricted, a daemon that serves
\* is the one that is reached unless a file was unlinked that was not the one checked, and
\* a daemon that ends at any step of its start leaves no file behind.
THEOREM SocketIsSound == SocketSpec => []SocketSound
<1>1. SocketInv => SocketSound
  BY DEF SocketInv, Listeners, Stages, Place, Owned, SocketSound, PublishedPrivate, NeverDisplaced, NothingLeftBehind, FileAt
<1> QED BY <1>1, SocketInvariant, PTL
=============================================================================
