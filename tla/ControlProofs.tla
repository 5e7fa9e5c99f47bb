--------------------------- MODULE ControlProofs ----------------------------
(***************************************************************************)
(* Proofs about the ways in and out of a running tree: the control socket  *)
(* and who owns it (Up), for any number of terminals in one workspace; the *)
(* terminals attached to a child (Session), for any clients, input and     *)
(* output; and a child's lines on their way to the screen (OutputLog), for *)
(* any number of processes.                                                *)
(***************************************************************************)
EXTENDS Up, Session, OutputLog, NaturalLemmas

(***************************************************************************)
(* Up: whose socket it is.                                                 *)
(***************************************************************************)

RunPhases  == {"gone", "loads", "armed", "runs", "stops", "stopped", "leaves"}
SockPhases == {"idle", "looks", "stale", "binds", "bound", "serves", "refused"}

UpTypeOK ==
  /\ run \in [Ups -> RunPhases] /\ sock \in [Ups -> SockPhases]
  /\ file \in Ups \cup {Nobody} /\ listens \subseteq Ups

(* What is told of an `up` is told of one that runs, and only from when    *)
(* the supervisors run does it have a socket.                              *)
Tidy ==
  /\ \A x \in Ups : run[x] \in {"gone", "loads", "armed"} =>
       sock[x] = "idle" /\ x \notin rivals \cup robbed \cup turned
  /\ \A x \in Ups : x \in listens <=> sock[x] \in {"bound", "serves"}

(* No two open their socket at once but as rivals.                         *)
OneOpens == \A x, y \in Opening : x # y => x \in rivals /\ y \in rivals

(* Whom nothing has got in the way of, and what it has of the path: the    *)
(* file it saw is still stale, or gone, until it is its own.               *)
Fair(x) == x \in Live /\ x \notin rivals \cup robbed /\ run[x] # "leaves"

Undisturbed(x) ==
  /\ sock[x] = "stale" => file # Nobody
  /\ sock[x] = "binds" => file = Nobody
  /\ sock[x] \in {"bound", "serves"} =>
       file = x /\ \A y \in Live : sock[y] # "stale"
  /\ sock[x] = "refused" => x \in turned

UpIInv == UpTypeOK /\ Tidy /\ OneOpens /\ \A x \in Ups : Fair(x) => Undisturbed(x)

LEMMA UpInitHolds == UpInit => UpIInv
BY DEF UpInit, UpIInv, UpTypeOK, Tidy, OneOpens, Opening, Fair, Live, RunPhases, SockPhases

(* What x's end leaves behind is the file at the path, for whoever is      *)
(* there, and nothing of x.                                                *)
LEMMA VanishesStep ==
  ASSUME UpIInv, NEW x \in Live, Vanishes(x), UNCHANGED file
  PROVE  UpIInv'
<1> USE DEF Vanishes, To, Live
<1>1. UpTypeOK'
  BY DEF UpIInv, UpTypeOK, RunPhases, SockPhases
<1>2. Tidy'
  BY DEF UpIInv, UpTypeOK, Tidy
<1>3. Opening' \subseteq Opening \ {x}
  BY DEF UpIInv, UpTypeOK, Opening
<1>4. OneOpens'
  BY <1>3 DEF UpIInv, OneOpens
<1>5. ASSUME NEW z \in Ups, Fair(z)' PROVE Undisturbed(z)'
  <2>1. z # x /\ Fair(z) /\ run'[z] = run[z] /\ sock'[z] = sock[z]
    BY <1>5 DEF UpIInv, UpTypeOK, Fair
  <2>2. \A y \in Live' : y \in Live /\ sock'[y] = sock[y]
    BY DEF UpIInv, UpTypeOK
  <2>3. z \in turned => z \in turned'
    BY <2>1
  <2> QED BY <2>1, <2>2, <2>3 DEF UpIInv, Undisturbed
<1> QED
  BY <1>1, <1>2, <1>4, <1>5 DEF UpIInv

(* A step of the command that has nothing to do with the path.             *)
LEMMA RunStep ==
  ASSUME UpIInv, NEW x \in Ups, NEW from \in RunPhases, NEW to \in RunPhases,
         run[x] = from, To(x, to), UNCHANGED <<sockVars, tales>>,
         \/ from \in {"gone", "loads"} /\ to \in {"loads", "armed"}
         \/ from \in {"runs", "stops"} /\ to \in {"stops", "stopped"}
  PROVE  UpIInv'
<1> USE DEF To, sockVars, tales
<1>1. UpTypeOK' /\ Tidy'
  BY DEF UpIInv, UpTypeOK, Tidy
<1>2. \A y \in Ups : y \in Live' <=> y \in Live \/ y = x
  BY DEF UpIInv, UpTypeOK, Live
<1>3. Opening' = Opening
  BY <1>2 DEF UpIInv, UpTypeOK, Tidy, Opening, Live
<1>4. OneOpens'
  BY <1>3 DEF UpIInv, OneOpens
<1>5. ASSUME NEW z \in Ups, Fair(z)' PROVE Undisturbed(z)'
  <2>1. CASE z = x /\ from = "gone"
    BY <2>1 DEF UpIInv, Tidy, Undisturbed
  <2>2. CASE z # x \/ from # "gone"
    <3>1. Fair(z)
      BY <1>5, <2>2 DEF UpIInv, UpTypeOK, Fair, Live
    <3>2. \A y \in Live' : y \in Live \/ sock[y] = "idle"
      BY <1>2 DEF UpIInv, Tidy, Live
    <3> QED BY <3>1, <3>2 DEF UpIInv, Undisturbed
  <2> QED BY <2>1, <2>2
<1> QED
  BY <1>1, <1>4, <1>5 DEF UpIInv

(* Whoever begins to open its socket while others do is their rival.       *)
LEMMA SupervisesStep ==
  ASSUME UpIInv, NEW x \in Ups, Supervises(x)
  PROVE  UpIInv'
<1> USE DEF Supervises, To, SockTo
<1>1. UpTypeOK' /\ Tidy'
  <2>1. UpTypeOK'
    BY DEF UpIInv, UpTypeOK, RunPhases, SockPhases
  <2>2. rivals' \subseteq rivals \cup {x} \cup Opening /\ \A z \in Opening : sock[z] # "idle"
    BY DEF Opening
  <2>3. \A z \in Ups : run'[z] \in {"gone", "loads", "armed"} => z # x /\ run[z] = run'[z]
    BY DEF UpIInv, UpTypeOK
  <2> QED BY <2>1, <2>2, <2>3 DEF UpIInv, UpTypeOK, Tidy
<1>2. Live' = Live /\ x \in Live
  BY DEF UpIInv, UpTypeOK, Live
<1>3. Opening' = Opening \cup {x} /\ x \notin Opening
  BY <1>2 DEF UpIInv, UpTypeOK, Tidy, Opening, Live
<1>4. OneOpens'
  BY <1>3 DEF UpIInv, OneOpens
<1>5. ASSUME NEW z \in Ups, Fair(z)' PROVE Undisturbed(z)'
  <2>1. CASE z = x
    BY <2>1 DEF UpIInv, UpTypeOK, Undisturbed
  <2>2. CASE z # x
    <3>1. Fair(z) /\ sock'[z] = sock[z]
      BY <1>2, <1>5, <2>2 DEF UpIInv, UpTypeOK, Fair
    <3>2. \A y \in Live' : sock'[y] # sock[y] => y = x /\ sock'[y] = "looks"
      BY <1>2 DEF UpIInv, UpTypeOK
    <3> QED BY <1>2, <3>1, <3>2 DEF UpIInv, Undisturbed
  <2> QED BY <2>1, <2>2
<1> QED
  BY <1>1, <1>4, <1>5 DEF UpIInv

(* The file is removed, whoever's it is: who had it, or had seen it stale, *)
(* has been robbed.                                                        *)
LEMMA RemovesStep ==
  ASSUME UpIInv, NEW x \in Ups, RemovesFile(x)
  PROVE  UpIInv'
<1> USE DEF RemovesFile, To
<1>1. UpTypeOK' /\ Tidy'
  <2>1. UpTypeOK'
    BY DEF UpIInv, UpTypeOK, RunPhases
  <2>2. \A y \in Live : Reached = y => sock[y] \in {"bound", "serves"}
    BY UpAssumption DEF UpIInv, UpTypeOK, Tidy, Reached, Live
  <2>3. \A y \in Live : Reached = y \/ sock[y] = "stale" => run[y] \notin {"loads", "armed"}
    BY <2>2 DEF UpIInv, Tidy, Live
  <2>4. \A y \in Ups : run'[y] # run[y] => y = x /\ run'[y] = "leaves"
    BY DEF UpIInv, UpTypeOK
  <2>5. \A y \in Ups : y \in robbed' => y \in robbed \/ run[y] \notin {"gone", "loads", "armed"}
    BY <2>3 DEF Live
  <2> QED BY <2>1, <2>4, <2>5 DEF UpIInv, Tidy
<1>2. Live' = Live
  BY DEF UpIInv, UpTypeOK, Live
<1>3. OneOpens'
  BY <1>2 DEF UpIInv, OneOpens, Opening
<1>4. ASSUME NEW z \in Ups, Fair(z)' PROVE Undisturbed(z)'
  <2>1. z # x /\ Fair(z)
    BY <1>2, <1>4 DEF UpIInv, UpTypeOK, Fair
  <2>2. z \notin robbed' /\ z \in Live \ {x}
    BY <1>2, <1>4, <2>1 DEF Fair
  <2>3. Reached # z /\ sock[z] # "stale"
    BY <2>2
  <2>4. sock[z] \notin {"bound", "serves"}
    BY <2>1, <2>3 DEF UpIInv, Tidy, Undisturbed, Reached
  <2> QED BY <1>2, <2>1, <2>3, <2>4 DEF UpIInv, Undisturbed
<1> QED
  BY <1>1, <1>3, <1>4 DEF UpIInv

-----------------------------------------------------------------------------
(* A step of x's socket task: where x opens its socket unhindered nobody   *)
(* else is opening one.                                                    *)
LEMMA Unrivalled ==
  ASSUME UpIInv, NEW x \in Opening, NEW z \in Ups, Fair(z), z # x
  PROVE  z \notin Opening
BY DEF UpIInv, OneOpens, Fair

LEMMA SocketStep ==
  ASSUME UpIInv, NEW x \in Live, Looks(x) \/ Reclaims(x) \/ Binds(x) \/ Serves(x)
  PROVE  UpIInv'
<1> USE DEF SockTo, runVars, tales
<1>0. /\ x \in Opening /\ Live' = Live /\ UNCHANGED <<run, rivals, robbed>>
      /\ \E s \in SockPhases : sock' = [sock EXCEPT ![x] = s]
      /\ \A z \in Ups : z # x => sock'[z] = sock[z]
      /\ turned \subseteq turned' /\ turned' \subseteq turned \cup {x}
      /\ run[x] \notin {"gone", "loads", "armed"}
  BY DEF UpIInv, UpTypeOK, Tidy, Looks, Reclaims, Binds, Serves, Live, Opening, SockPhases
<1>1. UpTypeOK'
  BY <1>0 DEF UpIInv, UpTypeOK, Looks, Reclaims, Binds, Serves, Live
<1>2. Tidy'
  BY <1>0 DEF UpIInv, UpTypeOK, Tidy, Looks, Reclaims, Binds, Serves, Live
<1>3. OneOpens'
  <2>1. Opening' \subseteq Opening
    BY <1>0 DEF UpIInv, UpTypeOK, Opening
  <2> QED BY <1>0, <2>1 DEF UpIInv, OneOpens
<1>4. ASSUME NEW z \in Ups, z # x, Fair(z)' PROVE Undisturbed(z)'
  <2>1. Fair(z) /\ Undisturbed(z) /\ z \notin Opening /\ sock'[z] = sock[z]
    BY <1>0, <1>4, Unrivalled DEF UpIInv, Fair
  <2>2. sock[z] \notin {"stale", "binds", "bound"}
    BY <1>0, <2>1 DEF Opening, Fair
  <2>3. CASE sock[z] = "serves"
    <3>1. file = z /\ z \in listens /\ file # Nobody /\ sock[x] # "stale"
      BY <2>1, <2>3, UpAssumption DEF UpIInv, Tidy, Undisturbed
    <3>2. file' = file /\ sock'[x] # "stale"
      BY <3>1 DEF UpIInv, UpTypeOK, Looks, Reclaims, Binds, Serves, Reached, Live
    <3> QED BY <1>0, <2>1, <2>2, <2>3, <3>1, <3>2 DEF Undisturbed
  <2>4. CASE sock[z] # "serves"
    BY <1>0, <2>1, <2>2, <2>4 DEF Undisturbed
  <2> QED BY <2>3, <2>4
<1>5. ASSUME Fair(x)' PROVE Undisturbed(x)'
  <2>1. Fair(x) /\ Undisturbed(x) /\ x \notin rivals
    BY <1>0, <1>5 DEF UpIInv, Fair, Live
  <2>2. \A y \in Opening : y = x
    BY <1>0, <2>1 DEF UpIInv, OneOpens
  <2>3. \A y \in Live : y # x => sock'[y] # "stale"
    BY <1>0, <2>2 DEF Opening, Live
  <2>4. x \in Ups /\ sock \in [Ups -> SockPhases] /\ x # Nobody
    BY UpAssumption DEF UpIInv, UpTypeOK, Live
  <2>5. CASE Looks(x)
    <3>1. x \notin listens
      BY <2>5 DEF UpIInv, Tidy, Looks, Live
    <3> QED BY <2>4, <2>5, <3>1 DEF Looks, Reached, Undisturbed
  <2>6. CASE Reclaims(x)
    BY <2>1, <2>4, <2>6 DEF Reclaims, Undisturbed
  <2>7. CASE Binds(x)
    BY <1>0, <2>1, <2>3, <2>4, <2>7 DEF Binds, Undisturbed
  <2>8. CASE Serves(x)
    BY <1>0, <2>1, <2>3, <2>4, <2>8 DEF Serves, Undisturbed
  <2> QED BY <2>5, <2>6, <2>7, <2>8
<1> QED
  BY <1>1, <1>2, <1>3, <1>4, <1>5 DEF UpIInv, Live

-----------------------------------------------------------------------------
LEMMA UpStep == UpIInv /\ [UpNext]_upVars => UpIInv'
<1> SUFFICES ASSUME UpIInv, [UpNext]_upVars PROVE UpIInv'
  OBVIOUS
<1>1. CASE UNCHANGED upVars
  BY <1>1 DEF upVars, runVars, sockVars, tales, UpIInv, UpTypeOK, Tidy, OneOpens, Opening,
              Fair, Undisturbed, Live
<1>2. ASSUME NEW x \in Ups, Begins(x) \/ Arms(x) \/ Stops(x) \/ ShutsDown(x) PROVE UpIInv'
  BY <1>2, RunStep DEF Begins, Arms, Stops, ShutsDown, RunPhases
<1>3. ASSUME NEW x \in Ups, Supervises(x) PROVE UpIInv'
  BY <1>3, SupervisesStep
<1>4. ASSUME NEW x \in Ups, Requested(x) PROVE UpIInv'
  <2>1. CASE Vanishes(x) /\ x \in Live /\ UNCHANGED file
    BY <2>1, VanishesStep
  <2>2. CASE UNCHANGED <<run, sockVars, tales>>
    BY <2>2 DEF sockVars, tales, UpIInv, UpTypeOK, Tidy, OneOpens, Opening, Fair, Undisturbed, Live
  <2> QED BY <1>4, <2>1, <2>2 DEF Requested
<1>5. ASSUME NEW x \in Ups, RemovesFile(x) PROVE UpIInv'
  BY <1>5, RemovesStep
<1>6. ASSUME NEW x \in Ups, Leaves(x) \/ IsKilled(x) PROVE UpIInv'
  BY <1>6, VanishesStep DEF Leaves, IsKilled, Live
<1>7. ASSUME NEW x \in Ups, Looks(x) \/ Reclaims(x) \/ Binds(x) \/ Serves(x) PROVE UpIInv'
  BY <1>7, SocketStep DEF Looks, Reclaims, Binds, Serves
<1> QED
  BY <1>1, <1>2, <1>3, <1>4, <1>5, <1>6, <1>7 DEF UpNext

(* However many are started in one workspace, killed and started again: an *)
(* `up` that opened its socket alone is found at the path, and only one    *)
(* that listens turns it away, or takes its file by ending (reclaim and    *)
(* serve in control.rs).                                                   *)
THEOREM UpsAnswer == UpSpec => []UpAnswers
<1>1. UpIInv => UpAnswers
  <2> SUFFICES ASSUME UpIInv, NEW x \in Live, x \notin rivals \cup robbed, run[x] # "leaves"
               PROVE  /\ sock[x] = "serves" => Reached = x
                      /\ sock[x] = "refused" => x \in turned
    BY DEF UpAnswers
  <2>1. x \in Ups /\ Undisturbed(x)
    BY DEF UpIInv, Fair, Live
  <2> QED BY <2>1 DEF UpIInv, Tidy, Undisturbed, Reached
<1> QED
  BY UpInitHolds, UpStep, <1>1, PTL DEF UpSpec

(***************************************************************************)
(* Session: who holds the terminal.                                        *)
(***************************************************************************)

SessionPhases == {"away", "asked", "claimed", "subscribed", "open", "over", "refused"}

(* One holds the slot, and the slot is taken while it does.                *)
SlotInv ==
  /\ at \in [Clients -> SessionPhases] /\ claimed \in BOOLEAN
  /\ OneTerminal

LEMMA LeaveFrees ==
  ASSUME SlotInv, NEW c \in Clients, Holds(c), Leave(c)
  PROVE  SlotInv'
<1>1. at' = [at EXCEPT ![c] = "over"] /\ claimed' = FALSE
  BY DEF Leave, Enter
<1>2. at' \in [Clients -> SessionPhases]
  BY <1>1 DEF SlotInv, SessionPhases
<1>3. \A d \in Clients : ~Holds(d)'
  BY <1>1 DEF SlotInv, OneTerminal, Holds
<1> QED BY <1>1, <1>2, <1>3 DEF SlotInv, OneTerminal

LEMMA MovesKeep ==
  ASSUME SlotInv, NEW c \in Clients, NEW s \in SessionPhases, Enter(c, s), claimed' = claimed,
         Holds(c) <=> s \in {"claimed", "subscribed", "open"}
  PROVE  SlotInv'
<1>1. at' = [at EXCEPT ![c] = s]
  BY DEF Enter
<1>2. at' \in [Clients -> SessionPhases] /\ \A d \in Clients : Holds(d)' <=> Holds(d)
  BY <1>1 DEF SlotInv, Holds
<1> QED BY <1>2 DEF SlotInv, OneTerminal

LEMMA SlotStep == SlotInv /\ [SessionNext]_sessionVars => SlotInv'
<1> SUFFICES ASSUME SlotInv, [SessionNext]_sessionVars PROVE SlotInv'
  OBVIOUS
<1>1. ASSUME UNCHANGED <<at, claimed>>
      PROVE  SlotInv'
  BY <1>1 DEF SlotInv, OneTerminal, Holds
<1>2. CASE Prints \/ Broadcasts \/ Keeps \/ Exits \/ Respawns \/ UNCHANGED sessionVars
  BY <1>1, <1>2 DEF Prints, Broadcasts, Keeps, Exits, Respawns, sessionVars
<1>3. ASSUME NEW c \in Clients, Dies(c) \/ (\E keys \in KeyReads : Types(c, keys)) \/ Forwards(c)
      PROVE  SlotInv'
  BY <1>1, <1>3 DEF Dies, Types, Forwards
<1>4. ASSUME NEW c \in Clients, Asks(c)
      PROVE  SlotInv'
  BY <1>4, MovesKeep DEF Asks, Holds, SessionPhases
<1>5. ASSUME NEW c \in Clients, Claims(c)
      PROVE  SlotInv'
  <2>1. CASE claimed
    BY <1>5, <2>1, MovesKeep DEF Claims, Holds, SessionPhases
  <2>2. CASE ~claimed
    <3>1. at' = [at EXCEPT ![c] = "claimed"] /\ claimed'
      BY <1>5, <2>2 DEF Claims, Enter
    <3>2. at' \in [Clients -> SessionPhases]
      BY <3>1 DEF SlotInv, SessionPhases
    <3>3. \A d \in Clients : Holds(d)' <=> d = c
      BY <2>2, <3>1 DEF SlotInv, OneTerminal, Holds
    <3> QED BY <1>5, <3>1, <3>2, <3>3 DEF SlotInv, OneTerminal, Claims
  <2> QED BY <2>1, <2>2
<1>6. ASSUME NEW c \in Clients, Subscribes(c) \/ ReplaysBack(c)
      PROVE  SlotInv'
  <2>1. CASE Subscribes(c)
    BY <2>1, MovesKeep DEF Subscribes, Holds, SessionPhases
  <2>2. CASE ReplaysBack(c)
    BY <2>2, MovesKeep DEF ReplaysBack, Holds, SessionPhases
  <2> QED BY <1>6, <2>1, <2>2
<1>7. ASSUME NEW c \in Clients, Takes(c) \/ Misreads(c)
      PROVE  SlotInv'
  <2>1. Holds(c) /\ (Leave(c) \/ UNCHANGED <<at, claimed>>)
    BY <1>7 DEF Takes, Misreads, Holds
  <2> QED BY <1>1, <2>1, LeaveFrees
<1>8. ASSUME NEW c \in Clients, HangsUp(c)
      PROVE  SlotInv'
  BY <1>8, LeaveFrees DEF HangsUp
<1> QED BY <1>2, <1>3, <1>4, <1>5, <1>6, <1>7, <1>8 DEF SessionNext, Attached

(* The slot of a node is taken exactly while one session holds it, however *)
(* sessions end: no two terminals type into one child, and none is turned  *)
(* away by a session that is gone.                                         *)
THEOREM OneTerminalAlways == SessionSpec => []OneTerminal
<1>1. SessionInit => SlotInv
  BY DEF SessionInit, SlotInv, SessionPhases, OneTerminal, Holds
<1>2. SlotInv => OneTerminal
  BY DEF SlotInv
<1> QED BY <1>1, <1>2, SlotStep, PTL DEF SessionSpec

(***************************************************************************)
(* Session: what a client is sent.                                         *)
(***************************************************************************)

(* s is a stretch of what a child printed, up to a chunk.                  *)
Upto(s, top) == s \in Seq(Int) /\ \A i \in 1..Len(s) : s[i] = top - Len(s) + i

(* s is of the chunks after `from`, up to top, in order; and all of them   *)
(* unless some were dropped.                                               *)
Seen(s, from, top, dropped) ==
  /\ s \in Seq(Int) /\ from <= top
  /\ \A i \in 1..Len(s) : from < s[i] /\ s[i] <= top
  /\ \A i, j \in 1..Len(s) : i < j => s[i] < s[j]
  /\ dropped \/ (Upto(s, top) /\ from + Len(s) = top)

LEMMA AppendUpto ==
  ASSUME NEW s, NEW top \in Int, Upto(s, top)
  PROVE  Upto(Append(s, top + 1), top + 1) /\ Len(Append(s, top + 1)) = Len(s) + 1
BY DEF Upto

LEMMA LastUpto ==
  ASSUME NEW s, NEW top \in Int, Upto(s, top), NEW n \in Nat
  PROVE  /\ Upto(LastOnes(s, n), top)
         /\ Len(LastOnes(s, n)) = IF Len(s) > n THEN n ELSE Len(s)
<1>1. CASE Len(s) > n
  <2> DEFINE l == SubSeq(s, Len(s) - n + 1, Len(s))
  <2>1. l \in Seq(Int) /\ Len(l) = n /\ \A i \in 1..n : l[i] = s[Len(s) - n + i]
    BY <1>1 DEF Upto
  <2>2. \A i \in 1..n : l[i] = top - n + i
    BY <1>1, <2>1 DEF Upto
  <2> QED BY <1>1, <2>1, <2>2 DEF LastOnes, Upto
<1>2. CASE ~(Len(s) > n)
  <2>1. SubSeq(s, 1, Len(s)) = s
    BY DEF Upto
  <2> QED BY <1>2, <2>1 DEF LastOnes, Upto
<1> QED BY <1>1, <1>2

LEMMA TailUpto ==
  ASSUME NEW s, NEW top \in Int, Upto(s, top), s # <<>>
  PROVE  Upto(Tail(s), top) /\ Len(Tail(s)) = Len(s) - 1 /\ Head(s) = top - Len(s) + 1
BY DEF Upto

LEMMA EmptyUpto ==
  ASSUME NEW top \in Int
  PROVE  /\ Upto(<<>>, top) /\ Len(<<>>) = 0 /\ top - 0 = top
         /\ \A dropped : Seen(<<>>, top, top, dropped)
BY DEF Upto, Seen

LEMMA AppendSeen ==
  ASSUME NEW s, NEW from \in Int, NEW top \in Int, NEW dropped \in BOOLEAN,
         Seen(s, from, top, dropped)
  PROVE  Seen(Append(s, top + 1), from, top + 1, dropped)
<1> DEFINE a == Append(s, top + 1)
<1>1. /\ s \in Seq(Int) /\ a \in Seq(Int) /\ Len(a) = Len(s) + 1 /\ a[Len(s) + 1] = top + 1
      /\ \A i \in 1..Len(s) : a[i] = s[i]
  BY DEF Seen
<1>2. \A i \in 1..Len(a) : from < a[i] /\ a[i] <= top + 1
  BY <1>1 DEF Seen
<1>3. \A i, j \in 1..Len(a) : i < j => a[i] < a[j]
  BY <1>1 DEF Seen
<1>4. dropped \/ (Upto(a, top + 1) /\ from + Len(a) = top + 1)
  <2>1. dropped \/ (Upto(s, top) /\ from + Len(s) = top)
    BY DEF Seen
  <2>2. Len(s) \in Nat
    BY <1>1
  <2> QED BY <1>1, <2>1, <2>2, AppendUpto
<1>5. from <= top + 1
  BY DEF Seen
<1> QED BY <1>1, <1>2, <1>3, <1>4, <1>5 DEF Seen

LEMMA SeenLater ==
  ASSUME NEW s, NEW from \in Int, NEW top \in Int, NEW dropped, Seen(s, from, top, dropped)
  PROVE  \A more : more => Seen(s, from, top + 1, more)
BY DEF Seen

PumpInv ==
  /\ life \in Nat /\ printed \in Nat /\ running \in BOOLEAN
  /\ pump \in {<<>>, <<"send", printed>>, <<"keep", printed>>}
  /\ ~running => pump = <<>>
  /\ pump # <<>> => printed >= 1
  /\ Upto(back, Backed) /\ Len(back) <= Backed
  /\ of \in [Clients -> Nat] /\ \A c \in Clients : of[c] <= life
  /\ DOMAIN queue = Clients /\ DOMAIN shown = Clients /\ DOMAIN replayed = Clients
  /\ heardAt \in [Clients -> Nat] /\ keptAt \in [Clients -> Nat]
  /\ at \in [Clients -> SessionPhases] /\ lagged \in [Clients -> BOOLEAN]

(* Nothing has been broadcast to c, nor replayed.                          *)
Unrelayed(c) ==
  queue[c] = <<>> /\ shown[c] = <<>> /\ replayed[c] = <<>> /\ ~lagged[c] /\ heardAt[c] = 0

(* What was forwarded to c and what is queued for it are stretches that    *)
(* join, from where it began to listen; one who listens has been sent all  *)
(* that anyone has.                                                        *)
Relayed(c) ==
  \E top \in Int : /\ Upto(queue[c], top) /\ Len(queue[c]) <= Backlog
                   /\ Seen(shown[c], heardAt[c], top - Len(queue[c]), lagged[c])
                   /\ Listening(c) => top = Heard
                   /\ of[c] = life => top <= printed

(* What was replayed to c is a stretch that reaches what was in the        *)
(* scrollback when it began to listen.                                     *)
Replayed(c) ==
  \E top \in Int : /\ Upto(replayed[c], top)
                   /\ replayed[c] # <<>> => keptAt[c] <= top
                   /\ of[c] = life => top <= printed /\ Len(replayed[c]) <= top

Stream(c) ==
  /\ Relayed(c) /\ Replayed(c)
  /\ at[c] \in {"away", "asked", "claimed", "refused"} => Unrelayed(c)
  /\ at[c] = "subscribed" => shown[c] = <<>> /\ replayed[c] = <<>>
  /\ at[c] = "subscribed" /\ of[c] = life => keptAt[c] <= Backed

StreamInv == PumpInv /\ \A c \in Clients : Stream(c)

LEMMA Marks ==
  ASSUME PumpInv
  PROVE  /\ Heard = IF pump = <<"send", printed>> THEN printed - 1 ELSE printed
         /\ Backed = IF pump = <<>> THEN printed ELSE printed - 1
         /\ Heard \in Nat /\ Backed \in Nat /\ Heard <= printed /\ Backed <= printed
<1>1. /\ printed \in Nat /\ (pump # <<>> => printed >= 1)
      /\ pump \in {<<>>, <<"send", printed>>, <<"keep", printed>>}
  BY DEF PumpInv
<1>2. Heard = IF pump = <<"send", printed>> THEN printed - 1 ELSE printed
  BY <1>1 DEF Heard
<1>3. Backed = IF pump = <<>> THEN printed ELSE printed - 1
  BY DEF Backed
<1>4. pump = <<"send", printed>> => pump # <<>>
  OBVIOUS
<1> QED BY <1>1, <1>2, <1>3, <1>4

(* Nothing new for c. *)
LEMMA StreamStays ==
  ASSUME NEW c \in Clients, Stream(c), PumpInv, PumpInv',
         queue'[c] = queue[c], shown'[c] = shown[c], replayed'[c] = replayed[c],
         lagged'[c] = lagged[c], heardAt'[c] = heardAt[c], keptAt'[c] = keptAt[c],
         Listening(c)' => Listening(c) /\ Heard' = Heard,
         (of[c] = life)' => of[c] = life /\ printed <= printed' /\ Backed <= Backed',
         at'[c] = at[c] \/ at'[c] = "over"
                        \/ {at[c], at'[c]} \subseteq {"away", "asked", "claimed", "refused"}
  PROVE  Stream(c)'
<1>1. printed \in Nat /\ printed' \in Nat /\ Backed \in Nat /\ Backed' \in Int /\ keptAt[c] \in Nat
  <2>1. printed \in Nat /\ printed' \in Nat /\ keptAt[c] \in Nat
    BY DEF PumpInv
  <2>2. Backed \in Nat
    BY Marks
  <2>3. Backed' \in Int
    BY <2>1 DEF Backed
  <2> QED BY <2>1, <2>2, <2>3
<1>2. Relayed(c)'
  <2>1. PICK top \in Int : /\ Upto(queue[c], top) /\ Len(queue[c]) <= Backlog
                           /\ Seen(shown[c], heardAt[c], top - Len(queue[c]), lagged[c])
                           /\ Listening(c) => top = Heard
                           /\ of[c] = life => top <= printed
    BY DEF Stream, Relayed
  <2>2. (Listening(c)' => top = Heard') /\ ((of[c] = life)' => top <= printed')
    BY <1>1, <2>1
  <2> QED BY <2>1, <2>2 DEF Relayed
<1>3. Replayed(c)'
  <2>1. PICK top \in Int : /\ Upto(replayed[c], top)
                           /\ replayed[c] # <<>> => keptAt[c] <= top
                           /\ of[c] = life => top <= printed /\ Len(replayed[c]) <= top
    BY DEF Stream, Replayed
  <2>2. (of[c] = life)' => top <= printed'
    BY <1>1, <2>1
  <2> QED BY <2>1, <2>2 DEF Replayed
<1>4. at'[c] \in {"away", "asked", "claimed", "refused"} => Unrelayed(c)'
  BY DEF Stream, Unrelayed
<1>5. at'[c] = "subscribed" => at[c] = "subscribed"
  OBVIOUS
<1>6. at'[c] = "subscribed" => shown'[c] = <<>> /\ replayed'[c] = <<>>
  BY <1>5 DEF Stream
<1>7. at'[c] = "subscribed" /\ (of[c] = life)' => keptAt'[c] <= Backed'
  BY <1>1, <1>5 DEF Stream
<1> QED BY <1>2, <1>3, <1>4, <1>6, <1>7 DEF Stream

(* One who has been told nothing may ask for the child of the moment.      *)
LEMMA UnrelayedStream ==
  ASSUME SessionAssumption, NEW c \in Clients, Unrelayed(c)', PumpInv', ~Listening(c)',
         at'[c] # "subscribed"
  PROVE  Stream(c)'
<1> DEFINE zero == 0
<1>1. /\ zero \in Int /\ zero <= Backlog /\ printed' \in Nat /\ zero <= printed'
      /\ queue'[c] = <<>> /\ shown'[c] = <<>> /\ replayed'[c] = <<>> /\ heardAt'[c] = zero
  BY DEF SessionAssumption, PumpInv, Unrelayed
<1> HIDE DEF zero
<1>2. /\ Upto(<<>>, zero) /\ Len(<<>>) = 0 /\ zero - 0 = zero
      /\ Seen(<<>>, zero, zero, lagged'[c])
  BY <1>1, EmptyUpto
<1>3. 0 <= Backlog /\ 0 <= zero
  BY <1>1 DEF zero
<1>4. Relayed(c)'
  BY <1>1, <1>2, <1>3 DEF Relayed
<1>5. Replayed(c)'
  BY <1>1, <1>2, <1>3 DEF Replayed
<1> QED BY <1>1, <1>4, <1>5 DEF Stream

(***************************************************************************)
(* The child and the reader thread.                                        *)
(***************************************************************************)
LEMMA PrintsStream ==
  ASSUME StreamInv, Prints
  PROVE  StreamInv'
<1>1. /\ pump = <<>> /\ running /\ printed' = printed + 1 /\ pump' = <<"send", printed + 1>>
      /\ UNCHANGED <<life, running, back, at, of, queue, lagged, replayed, shown, heardAt, keptAt>>
  BY DEF Prints, streamVars
<1>2. Heard' = Heard /\ Backed' = Backed /\ printed \in Nat
  BY <1>1 DEF Heard, Backed, StreamInv, PumpInv
<1>3. PumpInv'
  BY <1>1, <1>2 DEF StreamInv, PumpInv
<1>4. ASSUME NEW c \in Clients PROVE Stream(c)'
  <2>1. Backed \in Nat /\ (Listening(c)' => Listening(c))
    BY <1>1, Marks DEF StreamInv, Listening
  <2> QED BY <1>1, <1>2, <1>3, <2>1, StreamStays DEF StreamInv
<1> QED BY <1>3, <1>4 DEF StreamInv

LEMMA KeepsStream ==
  ASSUME SessionAssumption, StreamInv, Keeps
  PROVE  StreamInv'
<1>1. /\ pump = <<"keep", printed>> /\ pump' = <<>>
      /\ back' = LastOnes(Append(back, printed), Scrollback)
      /\ UNCHANGED <<life, running, printed, at, of, queue, lagged, replayed, shown, heardAt, keptAt>>
  BY DEF Keeps, streamVars, StreamInv, PumpInv
<1>2. Heard' = Heard /\ Backed = printed - 1 /\ Backed' = printed /\ printed \in Nat /\ printed >= 1
  BY <1>1 DEF Heard, Backed, StreamInv, PumpInv
<1>3. Upto(back', printed) /\ Len(back') <= printed
  <2>1. Upto(back, printed - 1) /\ Len(back) <= printed - 1 /\ Scrollback \in Nat
    BY <1>2 DEF StreamInv, PumpInv, SessionAssumption
  <2> DEFINE a == Append(back, printed)
  <2>2. Upto(a, printed) /\ Len(a) = Len(back) + 1
    <3>1. (printed - 1) + 1 = printed /\ printed - 1 \in Int
      BY <1>2
    <3> QED BY <2>1, <3>1, AppendUpto
  <2>3. back' = LastOnes(a, Scrollback) /\ Len(back) \in Nat
    BY <1>1, <2>1 DEF Upto
  <2> HIDE DEF a
  <2>4. /\ Upto(back', printed)
        /\ Len(back') = IF Len(a) > Scrollback THEN Scrollback ELSE Len(a)
    BY <1>2, <2>1, <2>2, <2>3, LastUpto
  <2> QED BY <1>2, <2>1, <2>2, <2>3, <2>4
<1>4. PumpInv'
  BY <1>1, <1>2, <1>3 DEF StreamInv, PumpInv
<1>5. ASSUME NEW c \in Clients PROVE Stream(c)'
  <2>1. Backed <= Backed' /\ printed <= printed' /\ (Listening(c)' => Listening(c))
    BY <1>1, <1>2 DEF Listening
  <2> QED BY <1>1, <1>2, <1>4, <2>1, StreamStays DEF StreamInv
<1> QED BY <1>4, <1>5 DEF StreamInv

LEMMA ExitsStream ==
  ASSUME StreamInv, Exits
  PROVE  StreamInv'
<1>1. /\ pump = <<>> /\ running' = FALSE
      /\ UNCHANGED <<life, printed, pump, back, at, of, queue, lagged, replayed, shown, heardAt, keptAt>>
  BY DEF Exits, streamVars
<1>2. Heard' = Heard /\ Backed' = Backed
  BY <1>1 DEF Heard, Backed
<1>3. PumpInv'
  BY <1>1, <1>2 DEF StreamInv, PumpInv
<1>4. ASSUME NEW c \in Clients PROVE Stream(c)'
  <2>1. Backed \in Nat /\ printed \in Nat /\ (Listening(c)' => Listening(c))
    BY <1>1, Marks DEF StreamInv, PumpInv, Listening
  <2>2. Backed <= Backed' /\ printed <= printed'
    BY <1>1, <1>2, <2>1
  <2> QED BY <1>1, <1>2, <1>3, <2>1, <2>2, StreamStays DEF StreamInv
<1> QED BY <1>3, <1>4 DEF StreamInv

(* Nobody listens to a child that has just been started.                   *)
LEMMA RespawnsStream ==
  ASSUME StreamInv, Respawns
  PROVE  StreamInv'
<1>1. /\ pump = <<>> /\ pump' = <<>> /\ running' = TRUE /\ life' = life + 1
      /\ printed' = 0 /\ back' = <<>>
      /\ UNCHANGED <<at, of, queue, lagged, replayed, shown, heardAt, keptAt>>
  BY DEF Respawns, streamVars, StreamInv, PumpInv
<1>2. Backed' = 0
  BY <1>1 DEF Backed
<1>3. PumpInv'
  <2>1. Upto(<<>>, 0) /\ Len(<<>>) <= 0
    BY EmptyUpto
  <2> QED BY <1>1, <1>2, <2>1 DEF StreamInv, PumpInv
<1>4. ASSUME NEW c \in Clients PROVE Stream(c)' /\ ~Listening(c)'
  <2>1. ~(of[c] = life)' /\ ~Listening(c)'
    BY <1>1 DEF StreamInv, PumpInv, Listening
  <2> QED BY <1>1, <1>3, <2>1, StreamStays DEF StreamInv
<1> QED BY <1>3, <1>4 DEF StreamInv

(* A chunk is queued for all who listen, in place of the oldest if need be. *)
LEMMA BroadcastsStream ==
  ASSUME SessionAssumption, StreamInv, Broadcasts
  PROVE  StreamInv'
<1>1. /\ pump = <<"send", printed>> /\ pump' = <<"keep", printed>>
      /\ queue' = [c \in Clients |->
           IF Listening(c) THEN LastOnes(Append(queue[c], printed), Backlog) ELSE queue[c]]
      /\ lagged' = [c \in Clients |-> lagged[c] \/ (Listening(c) /\ Len(queue[c]) = Backlog)]
      /\ UNCHANGED <<life, running, printed, back, at, of, replayed, shown, heardAt, keptAt>>
  BY DEF Broadcasts, StreamInv, PumpInv
<1>2. Heard = printed - 1 /\ Heard' = printed /\ Backed' = Backed /\ printed \in Nat
  BY <1>1 DEF Heard, Backed, StreamInv, PumpInv
<1>3. PumpInv'
  <2>1. lagged' \in [Clients -> BOOLEAN] /\ DOMAIN queue' = Clients
    BY <1>1 DEF StreamInv, PumpInv
  <2> QED BY <1>1, <1>2, <2>1 DEF StreamInv, PumpInv
<1>4. ASSUME NEW c \in Clients PROVE Stream(c)'
  <2>0. Backed \in Nat /\ Backed <= Backed' /\ printed <= printed'
    BY <1>1, <1>2, Marks DEF StreamInv
  <2>1. CASE ~Listening(c)
    <3>1. queue'[c] = queue[c] /\ lagged'[c] = lagged[c] /\ ~Listening(c)'
      BY <1>1, <2>1 DEF StreamInv, PumpInv, Listening
    <3> QED BY <1>1, <1>3, <1>4, <2>0, <3>1, StreamStays DEF StreamInv
  <2>2. CASE Listening(c)
    <3> DEFINE l == Len(queue[c])
               from == heardAt[c]
    <3>1. /\ Upto(queue[c], printed - 1) /\ Seen(shown[c], from, printed - 1 - l, lagged[c])
          /\ l <= Backlog /\ l \in Nat /\ at[c] \in {"subscribed", "open"} /\ from \in Int
      <4>1. Stream(c)
        BY DEF StreamInv
      <4>2. Upto(queue[c], Heard) /\ Seen(shown[c], from, Heard - l, lagged[c]) /\ l <= Backlog
        BY <2>2, <4>1 DEF Stream, Relayed
      <4>3. l \in Nat
        BY <4>2 DEF Upto
      <4>4. at[c] \in {"subscribed", "open"}
        BY <2>2 DEF Listening
      <4>5. from \in Int
        BY DEF StreamInv, PumpInv
      <4> QED BY <1>2, <4>2, <4>3, <4>4, <4>5
    <3>2. Upto(Append(queue[c], printed), printed) /\ Len(Append(queue[c], printed)) = l + 1
      <4>1. (printed - 1) + 1 = printed /\ printed - 1 \in Int
        BY <1>2
      <4> QED BY <3>1, <4>1, AppendUpto
    <3>3. Upto(queue'[c], printed) /\ Len(queue'[c]) = IF l + 1 > Backlog THEN Backlog ELSE l + 1
      <4>1. queue'[c] = LastOnes(Append(queue[c], printed), Backlog)
        BY <1>1, <1>4, <2>2
      <4>2. Backlog \in Nat /\ printed \in Int
        BY <1>2 DEF SessionAssumption
      <4> DEFINE a == Append(queue[c], printed)
      <4>3. Upto(a, printed) /\ Len(a) = l + 1
        BY <3>2
      <4> HIDE DEF l, a
      <4>4. /\ Upto(LastOnes(a, Backlog), printed)
            /\ Len(LastOnes(a, Backlog)) = IF Len(a) > Backlog THEN Backlog ELSE Len(a)
        BY <4>2, <4>3, LastUpto
      <4> QED BY <4>1, <4>3, <4>4 DEF a
    <3>4. shown'[c] = shown[c] /\ at'[c] = at[c] /\ (lagged'[c] <=> lagged[c] \/ l = Backlog)
          /\ Backlog \in Nat /\ lagged'[c] \in BOOLEAN /\ heardAt'[c] = from
      BY <1>1, <1>3, <1>4, <2>2 DEF SessionAssumption, PumpInv
    <3>5. Seen(shown'[c], from, printed - Len(queue'[c]), lagged'[c])
      <4>1. CASE l < Backlog
        <5>1. printed - Len(queue'[c]) = printed - 1 - l /\ (lagged'[c] <=> lagged[c])
          BY <1>2, <3>1, <3>3, <3>4, <4>1
        <5> QED BY <3>1, <3>4, <5>1 DEF Seen
      <4>2. CASE l = Backlog
        <5>1. printed - Len(queue'[c]) = (printed - 1 - l) + 1 /\ lagged'[c]
          BY <1>2, <3>1, <3>3, <3>4, <4>2
        <5>2. printed - 1 - l \in Int
          BY <1>2, <3>1
        <5> HIDE DEF l, from
        <5> QED BY <3>1, <3>4, <5>1, <5>2, SeenLater
      <4> QED BY <3>1, <3>4, <4>1, <4>2
    <3>6. Len(queue'[c]) <= Backlog
      BY <3>1, <3>3, <3>4
    <3>7. Relayed(c)'
      <4>1. printed \in Int /\ printed <= printed' /\ Heard' = printed
        BY <1>1, <1>2
      <4> QED BY <3>3, <3>4, <3>5, <3>6, <4>1 DEF Relayed
    <3>8. Replayed(c)'
      BY <1>1 DEF StreamInv, Stream, Replayed
    <3>9. at'[c] = "subscribed" => shown'[c] = <<>> /\ replayed'[c] = <<>>
      BY <1>1 DEF StreamInv, Stream
    <3>10. at'[c] = "subscribed" /\ of'[c] = life' => keptAt'[c] <= Backed'
      BY <1>1, <1>2 DEF StreamInv, Stream
    <3> QED BY <3>1, <3>4, <3>7, <3>8, <3>9, <3>10 DEF Stream
  <2> QED BY <2>1, <2>2
<1> QED BY <1>3, <1>4 DEF StreamInv

(***************************************************************************)
(* The sessions.                                                           *)
(***************************************************************************)

(* Steps that concern neither what is queued nor what was sent.            *)
Elsewhere(c) ==
  \/ Asks(c) \/ Claims(c) \/ Takes(c) \/ Misreads(c) \/ HangsUp(c) \/ Dies(c)
  \/ \E keys \in KeyReads : Types(c, keys)

LEMMA ElsewhereStream ==
  ASSUME SessionAssumption, StreamInv, NEW c \in Clients, Elsewhere(c)
  PROVE  StreamInv'
<1>1. /\ UNCHANGED <<life, running, printed, pump, back, queue, lagged, replayed, shown, heardAt, keptAt>>
      /\ of' = of \/ (at[c] = "away" /\ of' = [of EXCEPT ![c] = life])
  BY DEF Elsewhere, Asks, Claims, Takes, Misreads, HangsUp, Dies, Types, childVars, streamVars
<1>2. \/ at' = at
      \/ \E s \in {"asked", "refused", "claimed", "over"} :
           /\ at' = [at EXCEPT ![c] = s]
           /\ s # "over" => at[c] \in {"away", "asked"}
           /\ s = "over" => of' = of
  <2>1. CASE Asks(c)
    BY <2>1 DEF Asks, Enter
  <2>2. CASE Claims(c)
    BY <2>2 DEF Claims, Enter
  <2>3. CASE Takes(c) \/ Misreads(c)
    BY <2>3 DEF Takes, Misreads, Leave, Enter
  <2>4. CASE HangsUp(c)
    BY <2>4 DEF HangsUp, Leave, Enter
  <2>5. CASE Dies(c) \/ \E keys \in KeyReads : Types(c, keys)
    BY <2>5 DEF Dies, Types
  <2> QED BY <2>1, <2>2, <2>3, <2>4, <2>5 DEF Elsewhere
<1>3. Heard' = Heard /\ Backed' = Backed
  BY <1>1 DEF Heard, Backed
<1>4. PumpInv'
  <2>1. at' \in [Clients -> SessionPhases]
    BY <1>2 DEF StreamInv, PumpInv, SessionPhases
  <2>2. of' \in [Clients -> Nat] /\ \A d \in Clients : of'[d] <= life
    <3>1. /\ of \in [Clients -> Nat] /\ life \in Nat /\ \A d \in Clients : of[d] <= life
      BY DEF StreamInv, PumpInv
    <3>2. life <= life
      BY <3>1
    <3> QED BY <1>1, <3>1, <3>2
  <2> QED BY <1>1, <1>3, <2>1, <2>2 DEF StreamInv, PumpInv
<1>5. Backed <= Backed' /\ printed <= printed'
  <2>1. Backed \in Nat /\ printed \in Nat
    BY Marks DEF StreamInv, PumpInv
  <2> QED BY <1>1, <1>3, <2>1
<1>6. ASSUME NEW d \in Clients, d # c PROVE Stream(d)'
  <2>1. at'[d] = at[d] /\ of'[d] = of[d]
    BY <1>1, <1>2, <1>6 DEF StreamInv, PumpInv
  <2>2. Listening(d)' => Listening(d)
    BY <1>1, <2>1 DEF Listening
  <2> QED BY <1>1, <1>3, <1>4, <1>5, <2>1, <2>2, StreamStays DEF StreamInv
<1>7. Stream(c)'
  <2>1. CASE at[c] \in {"away", "asked"} /\ at'[c] \in {"away", "asked", "claimed", "refused"}
    <3>1. Unrelayed(c)' /\ ~Listening(c)' /\ at'[c] # "subscribed"
      BY <1>1, <2>1 DEF StreamInv, Stream, Unrelayed, Listening
    <3> QED BY <1>4, <3>1, UnrelayedStream
  <2>2. CASE ~(at[c] \in {"away", "asked"} /\ at'[c] \in {"away", "asked", "claimed", "refused"})
    <3>1. of'[c] = of[c] /\ (at'[c] = at[c] \/ at'[c] = "over")
      BY <1>1, <1>2, <2>2 DEF StreamInv, PumpInv
    <3>2. Listening(c)' => Listening(c)
      BY <1>1, <3>1 DEF Listening
    <3> QED BY <1>1, <1>3, <1>4, <1>5, <3>1, <3>2, StreamStays DEF StreamInv
  <2> QED BY <2>1, <2>2
<1> QED BY <1>4, <1>6, <1>7 DEF StreamInv

(* Who begins to listen has heard what everyone has.                       *)
LEMMA SubscribesStream ==
  ASSUME SessionAssumption, StreamInv, NEW c \in Clients, Subscribes(c)
  PROVE  StreamInv'
<1>1. /\ at[c] = "claimed" /\ at' = [at EXCEPT ![c] = "subscribed"]
      /\ heardAt' = [heardAt EXCEPT ![c] = IF of[c] = life THEN Heard ELSE 0]
      /\ keptAt' = [keptAt EXCEPT ![c] = IF of[c] = life THEN Backed ELSE 0]
      /\ UNCHANGED <<life, running, printed, pump, back, of, queue, lagged, replayed, shown>>
  BY DEF Subscribes, Enter, childVars
<1>2. Heard' = Heard /\ Backed' = Backed
  BY <1>1 DEF Heard, Backed
<1>3. Heard \in Nat /\ Backed \in Nat /\ printed \in Nat /\ Heard <= printed
  BY Marks DEF StreamInv, PumpInv
<1>4. PumpInv'
  <2>1. /\ at' \in [Clients -> SessionPhases]
        /\ heardAt' \in [Clients -> Nat] /\ keptAt' \in [Clients -> Nat]
    BY <1>1, <1>3 DEF StreamInv, PumpInv, SessionPhases
  <2> QED BY <1>1, <1>2, <2>1 DEF StreamInv, PumpInv
<1>5. ASSUME NEW d \in Clients, d # c PROVE Stream(d)'
  <2>1. at'[d] = at[d] /\ heardAt'[d] = heardAt[d] /\ keptAt'[d] = keptAt[d]
    BY <1>1, <1>5 DEF StreamInv, PumpInv
  <2>2. (Listening(d)' => Listening(d)) /\ Backed <= Backed' /\ printed <= printed'
    BY <1>1, <1>2, <1>3, <2>1 DEF Listening
  <2> QED BY <1>1, <1>2, <1>4, <2>1, <2>2, StreamStays DEF StreamInv
<1>6. Stream(c)'
  <2> DEFINE h == IF of[c] = life THEN Heard ELSE 0
  <2>1. /\ queue'[c] = <<>> /\ shown'[c] = <<>> /\ replayed'[c] = <<>> /\ at'[c] = "subscribed"
        /\ heardAt'[c] = h /\ (of'[c] = life' => keptAt'[c] = Backed') /\ h \in Int
        /\ of'[c] = of[c] /\ life' = life
    BY <1>1, <1>2, <1>3 DEF StreamInv, PumpInv, Stream, Unrelayed
  <2>2. (Listening(c)' => h = Heard') /\ ((of[c] = life)' => h <= printed')
    BY <1>1, <1>2, <1>3, <2>1 DEF Listening
  <2> HIDE DEF h
  <2>3. /\ Upto(<<>>, h) /\ Len(<<>>) = 0 /\ h - 0 = h /\ Seen(<<>>, h, h, lagged'[c])
    BY <2>1, EmptyUpto
  <2>4. 0 <= Backlog
    BY DEF SessionAssumption
  <2>5. Relayed(c)'
    BY <2>1, <2>2, <2>3, <2>4 DEF Relayed
  <2>6. Replayed(c)'
    <3> DEFINE zero == 0
    <3>1. zero \in Int /\ zero <= printed' /\ 0 <= zero
      BY <1>1, <1>3
    <3> HIDE DEF zero
    <3>2. Upto(<<>>, zero) /\ Len(<<>>) = 0
      BY <3>1, EmptyUpto
    <3> QED BY <2>1, <3>1, <3>2 DEF Replayed
  <2>7. Backed' <= Backed'
    BY <1>2, <1>3
  <2> QED BY <2>1, <2>5, <2>6, <2>7 DEF Stream
<1> QED BY <1>4, <1>5, <1>6 DEF StreamInv

(* The scrollback has only grown since.                                    *)
LEMMA ReplaysBackStream ==
  ASSUME SessionAssumption, StreamInv, NEW c \in Clients, ReplaysBack(c)
  PROVE  StreamInv'
<1>1. /\ at[c] = "subscribed" /\ at' = [at EXCEPT ![c] = "open"]
      /\ replayed' = [replayed EXCEPT ![c] = IF of[c] = life THEN back ELSE <<>>]
      /\ UNCHANGED <<life, running, printed, pump, back, of, queue, lagged, shown, heardAt, keptAt>>
  BY DEF ReplaysBack, Enter, childVars
<1>2. Heard' = Heard /\ Backed' = Backed
  BY <1>1 DEF Heard, Backed
<1>3. Heard \in Nat /\ Backed \in Nat /\ printed \in Nat /\ Backed <= printed
  BY Marks DEF StreamInv, PumpInv
<1>4. PumpInv'
  <2>1. at' \in [Clients -> SessionPhases] /\ DOMAIN replayed' = Clients
    BY <1>1 DEF StreamInv, PumpInv, SessionPhases
  <2> QED BY <1>1, <1>2, <2>1 DEF StreamInv, PumpInv
<1>5. ASSUME NEW d \in Clients, d # c PROVE Stream(d)'
  <2>1. at'[d] = at[d] /\ replayed'[d] = replayed[d]
    BY <1>1, <1>5 DEF StreamInv, PumpInv
  <2>2. (Listening(d)' => Listening(d)) /\ Backed <= Backed' /\ printed <= printed'
    BY <1>1, <1>2, <1>3, <2>1 DEF Listening
  <2> QED BY <1>1, <1>2, <1>4, <2>1, <2>2, StreamStays DEF StreamInv
<1>6. Stream(c)'
  <2>1. /\ at'[c] = "open" /\ replayed'[c] = IF of[c] = life THEN back ELSE <<>>
        /\ of[c] = life => keptAt[c] <= Backed
    BY <1>1 DEF StreamInv, PumpInv, Stream
  <2>2. Relayed(c)'
    <3>1. Listening(c)' => Listening(c)
      BY <1>1, <2>1 DEF Listening
    <3> QED BY <1>1, <1>2, <3>1 DEF StreamInv, Stream, Relayed
  <2>3. Replayed(c)'
    <3>1. CASE of[c] = life
      <4>1. Upto(back, Backed) /\ Len(back) <= Backed /\ Backed \in Int
        BY <1>3 DEF StreamInv, PumpInv
      <4> QED BY <1>1, <1>3, <2>1, <3>1, <4>1 DEF Replayed
    <3>2. CASE of[c] # life
      <4> DEFINE zero == 0
      <4>1. zero \in Int /\ Upto(<<>>, zero)
        BY EmptyUpto
      <4> QED BY <1>1, <2>1, <3>2, <4>1 DEF Replayed
    <3> QED BY <3>1, <3>2
  <2> QED BY <2>1, <2>2, <2>3 DEF Stream
<1> QED BY <1>4, <1>5, <1>6 DEF StreamInv

LEMMA ForwardsStream ==
  ASSUME SessionAssumption, StreamInv, NEW c \in Clients, Forwards(c)
  PROVE  StreamInv'
<1>1. /\ at[c] = "open" /\ queue[c] # <<>>
      /\ shown' = [shown EXCEPT ![c] = Append(shown[c], Head(queue[c]))]
      /\ queue' = [queue EXCEPT ![c] = Tail(queue[c])]
      /\ UNCHANGED <<life, running, printed, pump, back, at, of, lagged, replayed, heardAt, keptAt>>
  BY DEF Forwards, childVars
<1>2. Heard' = Heard /\ Backed' = Backed
  BY <1>1 DEF Heard, Backed
<1>3. Backed \in Nat /\ printed \in Nat
  BY Marks DEF StreamInv, PumpInv
<1>4. PumpInv'
  <2>1. DOMAIN queue' = Clients /\ DOMAIN shown' = Clients
    BY <1>1 DEF StreamInv, PumpInv
  <2> QED BY <1>1, <1>2, <2>1 DEF StreamInv, PumpInv
<1>5. ASSUME NEW d \in Clients, d # c PROVE Stream(d)'
  <2>1. queue'[d] = queue[d] /\ shown'[d] = shown[d]
    BY <1>1, <1>5 DEF StreamInv, PumpInv
  <2>2. (Listening(d)' => Listening(d)) /\ Backed <= Backed' /\ printed <= printed'
    BY <1>1, <1>2, <1>3, <2>1 DEF Listening
  <2> QED BY <1>1, <1>2, <1>4, <2>1, <2>2, StreamStays DEF StreamInv
<1>6. Stream(c)'
  <2>1. PICK top \in Int : /\ Upto(queue[c], top) /\ Len(queue[c]) <= Backlog
                           /\ Seen(shown[c], heardAt[c], top - Len(queue[c]), lagged[c])
                           /\ Listening(c) => top = Heard
                           /\ of[c] = life => top <= printed
    BY DEF StreamInv, Stream, Relayed
  <2>2. queue'[c] = Tail(queue[c]) /\ shown'[c] = Append(shown[c], Head(queue[c]))
    BY <1>1 DEF StreamInv, PumpInv
  <2>3. /\ Upto(queue'[c], top) /\ Len(queue'[c]) = Len(queue[c]) - 1
        /\ Head(queue[c]) = top - Len(queue[c]) + 1 /\ Len(queue[c]) \in Nat
    <3>1. Upto(Tail(queue[c]), top) /\ Len(Tail(queue[c])) = Len(queue[c]) - 1
          /\ Head(queue[c]) = top - Len(queue[c]) + 1
      BY <1>1, <2>1, TailUpto
    <3>2. Len(queue[c]) \in Nat
      BY <2>1 DEF Upto
    <3> QED BY <2>2, <3>1, <3>2
  <2>4. Seen(shown'[c], heardAt[c], top - Len(queue[c]) + 1, lagged[c])
    <3> DEFINE s == shown[c]
               b == top - Len(queue[c])
               from == heardAt[c]
               drop == lagged[c]
    <3>1. drop \in BOOLEAN /\ b \in Int /\ from \in Int /\ Seen(s, from, b, drop)
      BY <2>1, <2>3 DEF StreamInv, PumpInv
    <3>2. shown'[c] = Append(s, b + 1)
      BY <2>2, <2>3
    <3> HIDE DEF s, b, from, drop
    <3>3. Seen(Append(s, b + 1), from, b + 1, drop)
      BY <3>1, AppendSeen
    <3> QED BY <3>2, <3>3 DEF b, from, drop
  <2>5. Seen(shown'[c], heardAt'[c], top - Len(queue'[c]), lagged'[c])
    <3>1. top - Len(queue[c]) + 1 = top - Len(queue'[c])
      BY <2>1, <2>3
    <3> QED BY <1>1, <2>4, <3>1
  <2>6. Len(queue'[c]) <= Backlog
    BY <2>1, <2>3 DEF SessionAssumption
  <2>7. (Listening(c)' => top = Heard') /\ ((of[c] = life)' => top <= printed')
    BY <1>1, <1>2, <2>1 DEF Listening
  <2>8. Relayed(c)'
    BY <2>1, <2>3, <2>5, <2>6, <2>7 DEF Relayed
  <2>9. Replayed(c)'
    BY <1>1 DEF StreamInv, Stream, Replayed
  <2> QED BY <1>1, <2>8, <2>9 DEF Stream
<1> QED BY <1>4, <1>5, <1>6 DEF StreamInv

LEMMA StreamStep == StreamInv /\ [SessionNext]_sessionVars => StreamInv'
<1> SUFFICES ASSUME StreamInv, [SessionNext]_sessionVars PROVE StreamInv'
  OBVIOUS
<1> USE SessionAssumption
<1>1. CASE Prints \/ Broadcasts \/ Keeps \/ Exits \/ Respawns
  BY <1>1, PrintsStream, BroadcastsStream, KeepsStream, ExitsStream, RespawnsStream
<1>2. ASSUME NEW c \in Clients, Elsewhere(c) \/ Subscribes(c) \/ ReplaysBack(c) \/ Forwards(c)
      PROVE  StreamInv'
  BY <1>2, ElsewhereStream, SubscribesStream, ReplaysBackStream, ForwardsStream
<1>3. CASE UNCHANGED sessionVars
  <2>1. UNCHANGED <<life, running, printed, pump, back, at, of, queue, lagged, replayed, shown,
                    heardAt, keptAt>>
    BY <1>3 DEF sessionVars, childVars, streamVars
  <2>2. Heard' = Heard /\ Backed' = Backed
    BY <2>1 DEF Heard, Backed
  <2>3. PumpInv'
    BY <2>1, <2>2 DEF StreamInv, PumpInv
  <2>4. ASSUME NEW c \in Clients PROVE Stream(c)'
    <3>1. Backed \in Nat /\ printed \in Nat
      BY Marks DEF StreamInv, PumpInv
    <3>2. Backed <= Backed' /\ printed <= printed'
      BY <2>1, <2>2, <3>1
    <3> QED BY <2>1, <2>2, <2>3, <3>2, StreamStays DEF StreamInv, Listening
  <2> QED BY <2>3, <2>4 DEF StreamInv
<1> QED BY <1>1, <1>2, <1>3 DEF SessionNext, Attached, Elsewhere

LEMMA StreamInit == SessionInit => StreamInv
<1> SUFFICES ASSUME SessionInit PROVE StreamInv
  OBVIOUS
<1>1. PumpInv
  <2>1. Backed = 0 /\ Upto(<<>>, 0) /\ Len(<<>>) <= 0
    BY EmptyUpto DEF SessionInit, Backed
  <2> QED BY <2>1 DEF SessionInit, PumpInv, SessionPhases
<1>2. ASSUME NEW c \in Clients PROVE Stream(c)
  <2> DEFINE zero == 0
  <2>1. /\ queue[c] = <<>> /\ shown[c] = <<>> /\ replayed[c] = <<>> /\ ~lagged[c]
        /\ heardAt[c] = zero /\ at[c] = "away" /\ printed = 0
    BY DEF SessionInit
  <2>2. zero \in Int /\ zero <= printed /\ 0 <= zero /\ 0 <= Backlog
    BY <2>1, SessionAssumption DEF SessionAssumption
  <2>3. Unrelayed(c) /\ ~Listening(c)
    BY <2>1 DEF Unrelayed, Listening
  <2> HIDE DEF zero
  <2>4. /\ Upto(<<>>, zero) /\ Len(<<>>) = 0 /\ zero - 0 = zero
        /\ Seen(<<>>, zero, zero, lagged[c])
    BY <2>2, EmptyUpto
  <2>5. Relayed(c)
    BY <2>1, <2>2, <2>3, <2>4 DEF Relayed
  <2>6. Replayed(c)
    BY <2>1, <2>2, <2>4 DEF Replayed
  <2> QED BY <2>1, <2>3, <2>5, <2>6 DEF Stream
<1> QED BY <1>1, <1>2 DEF StreamInv

LEMMA UptoRuns ==
  ASSUME NEW s, NEW top \in Int, Upto(s, top)
  PROVE  /\ Runs(s)
         /\ s # <<>> => s[Len(s)] = top /\ s[1] = top - Len(s) + 1
<1>1. s \in Seq(Int) /\ Len(s) \in Nat /\ \A i \in 1..Len(s) : s[i] = top - Len(s) + i
  BY DEF Upto
<1>2. ASSUME NEW i \in 2..Len(s) PROVE s[i] = s[i-1] + 1
  <2>1. i \in 1..Len(s) /\ i - 1 \in 1..Len(s) /\ i \in Int
    BY <1>1
  <2>2. s[i] = top - Len(s) + i /\ s[i-1] = top - Len(s) + (i - 1)
    BY <1>1, <2>1
  <2> QED BY <1>1, <2>1, <2>2
<1>3. ASSUME s # <<>> PROVE s[Len(s)] = top /\ s[1] = top - Len(s) + 1
  <2> DEFINE n == Len(s)
  <2>1. n \in 1..n /\ 1 \in 1..n /\ n \in Nat
    BY <1>1, <1>3
  <2>2. s[n] = top - n + n /\ s[1] = top - n + 1
    BY <1>1, <2>1
  <2> HIDE DEF n
  <2>3. top - n + n = top
    BY <2>1
  <2> QED BY <2>2, <2>3 DEF n
<1> QED BY <1>2, <1>3 DEF Runs

LEMMA UptoWithin ==
  ASSUME NEW s, NEW top \in Int, Upto(s, top), Len(s) <= top, NEW n \in Nat, top <= n
  PROVE  ToSet(s) \subseteq 1..n
<1>1. s \in Seq(Int) /\ Len(s) \in Nat /\ DOMAIN s = 1..Len(s)
  BY DEF Upto
<1>2. \A i \in 1..Len(s) : s[i] = top - Len(s) + i
  BY DEF Upto
<1>3. ASSUME NEW i \in 1..Len(s) PROVE s[i] \in 1..n
  BY <1>1, <1>2
<1> QED BY <1>1, <1>3 DEF ToSet

(* However its session is interleaved with the reader thread and with the  *)
(* starts of the child, a client is sent a replay that reaches what had    *)
(* been kept when it began to listen, and then every chunk broadcast from  *)
(* then on, in order and once each, unless it lagged (attach: subscribe    *)
(* before the replay).                                                     *)
THEOREM OutputIntactAlways == SessionSpec => []OutputIntact
<1>1. ASSUME StreamInv, NEW c \in Clients
      PROVE  /\ Runs(replayed[c])
             /\ replayed[c] # <<>> => replayed[c][Len(replayed[c])] >= keptAt[c]
             /\ of[c] = life => ToSet(replayed[c]) \subseteq 1..printed
  <2>1. PICK top \in Int : /\ Upto(replayed[c], top)
                           /\ replayed[c] # <<>> => keptAt[c] <= top
                           /\ of[c] = life => top <= printed /\ Len(replayed[c]) <= top
    BY <1>1 DEF StreamInv, Stream, Replayed
  <2> DEFINE s == replayed[c]
  <2>2. keptAt[c] \in Nat /\ printed \in Nat
    BY <1>1 DEF StreamInv, PumpInv
  <2>3. /\ Runs(s)
        /\ s # <<>> => s[Len(s)] = top /\ s[1] = top - Len(s) + 1
    BY <2>1, UptoRuns
  <2>4. of[c] = life => ToSet(s) \subseteq 1..printed
    BY <2>1, <2>2, UptoWithin
  <2> QED BY <2>1, <2>2, <2>3, <2>4
<1>2. ASSUME StreamInv, NEW c \in Clients
      PROVE  /\ \A i, j \in DOMAIN shown[c] : i < j => shown[c][i] < shown[c][j]
             /\ shown[c] # <<>> => shown[c][1] > heardAt[c]
             /\ ~lagged[c] => /\ Runs(shown[c])
                              /\ shown[c] # <<>> => shown[c][1] = heardAt[c] + 1
             /\ of[c] = life => ToSet(shown[c]) \subseteq 1..printed
  <2>1. PICK top \in Int : /\ Upto(queue[c], top)
                           /\ Seen(shown[c], heardAt[c], top - Len(queue[c]), lagged[c])
                           /\ of[c] = life => top <= printed
    BY <1>2 DEF StreamInv, Stream, Relayed
  <2> DEFINE s == shown[c]
             from == heardAt[c]
             b == top - Len(queue[c])
  <2>2. b \in Int /\ b <= top /\ from \in Nat /\ printed \in Nat
    <3>1. Len(queue[c]) \in Nat
      BY <2>1 DEF Upto
    <3> QED BY <1>2, <3>1 DEF StreamInv, PumpInv
  <2>3. Seen(s, from, b, lagged[c]) /\ (of[c] = life => b <= printed)
    BY <2>1, <2>2
  <2> HIDE DEF s, from, b
  <2>4. /\ s \in Seq(Int) /\ DOMAIN s = 1..Len(s)
        /\ \A i \in 1..Len(s) : from < s[i] /\ s[i] <= b
        /\ \A i, j \in 1..Len(s) : i < j => s[i] < s[j]
    BY <2>3 DEF Seen
  <2>5. ASSUME s # <<>> PROVE s[1] > from
    <3>1. 1 \in 1..Len(s) /\ s[1] \in Int
      BY <2>4, <2>5
    <3> QED BY <2>2, <2>4, <3>1
  <2>6. ASSUME ~lagged[c] PROVE Runs(s) /\ (s # <<>> => s[1] = from + 1)
    <3>1. Upto(s, b) /\ from + Len(s) = b
      BY <2>3, <2>6 DEF Seen
    <3>2. Runs(s) /\ (s # <<>> => s[1] = b - Len(s) + 1)
      BY <2>2, <3>1, UptoRuns
    <3> QED BY <2>2, <2>4, <3>1, <3>2
  <2>7. ASSUME of[c] = life PROVE ToSet(s) \subseteq 1..printed
    <3>1. \A i \in 1..Len(s) : s[i] \in 1..printed
      BY <2>2, <2>3, <2>4, <2>7
    <3> QED BY <2>4, <3>1 DEF ToSet
  <2> QED BY <2>4, <2>5, <2>6, <2>7 DEF s, from
<1>3. StreamInv => OutputIntact
  BY <1>1, <1>2 DEF OutputIntact
<1> QED BY <1>3, StreamInit, StreamStep, PTL DEF SessionSpec

(***************************************************************************)
(* Session: what a child reads.                                            *)
(***************************************************************************)

(* Where a lead is pending, key by key. *)
LEMMA ArmedAtUnfolds ==
  ASSUME NEW K, NEW keys \in Seq(K), NEW lead \in BOOLEAN
  PROVE  /\ ArmedAt(keys, lead) \in [0..Len(keys) -> BOOLEAN]
         /\ ArmedAt(keys, lead)[0] = lead
         /\ \A i \in 1..Len(keys) :
              ArmedAt(keys, lead)[i] = (keys[i] = Lead /\ ~ArmedAt(keys, lead)[i-1])
<1> DEFINE n == Len(keys)
           Val(f, i) == IF i = 0 THEN lead ELSE keys[i] = Lead /\ ~f[i-1]
           Solves(f, k) == f \in [0..n -> BOOLEAN] /\ \A i \in 0..n : i < k => f[i] = Val(f, i)
           Unsolved == {k \in Nat : ~ \E f : Solves(f, k)}
<1>0. n \in Nat
  OBVIOUS
<1>1. ASSUME NEW k \in Nat, NEW f, Solves(f, k) PROVE \E g : Solves(g, k + 1)
  <2> DEFINE g == [i \in 0..n |-> IF i = k THEN Val(f, i) ELSE f[i]]
  <2>1. \A i \in 0..n : Val(f, i) \in BOOLEAN
    BY <1>0
  <2>2. g \in [0..n -> BOOLEAN]
    BY <1>0, <1>1, <2>1
  <2>3. \A i \in 0..n : i < k + 1 => g[i] = Val(g, i)
    BY <1>0, <1>1
  <2> QED BY <2>2, <2>3
<1>2. Unsolved = {}
  <2> SUFFICES ASSUME Unsolved # {} PROVE FALSE
    OBVIOUS
  <2>1. PICK k \in Unsolved : \A j \in Unsolved : k <= j
    BY LeastNatural
  <2>2. k # 0
    <3>1. Solves([i \in 0..n |-> TRUE], 0)
      BY <1>0
    <3> QED BY <3>1
  <2>3. k - 1 \in Nat /\ k - 1 \notin Unsolved /\ (k - 1) + 1 = k
    BY <2>1, <2>2
  <2>4. PICK f : Solves(f, k - 1)
    BY <2>3
  <2> HIDE DEF Solves
  <2>5. \E g : Solves(g, k)
    BY <1>1, <2>3, <2>4
  <2> QED BY <2>5
<1>3. PICK f : Solves(f, n + 1)
  BY <1>0, <1>2
<1>4. f = [i \in 0..n |-> IF i = 0 THEN lead ELSE keys[i] = Lead /\ ~f[i-1]]
  BY <1>0, <1>3
<1>5. ArmedAt(keys, lead) = [i \in 0..n |-> IF i = 0 THEN lead
                                           ELSE keys[i] = Lead /\ ~ArmedAt(keys, lead)[i-1]]
  BY <1>4 DEF ArmedAt
<1> HIDE DEF n
<1>6. \A i \in 0..n : ArmedAt(keys, lead)[i] \in BOOLEAN
  BY <1>0, <1>5
<1>7. ArmedAt(keys, lead) \in [0..n -> BOOLEAN]
  BY <1>5, <1>6
<1>8. ArmedAt(keys, lead)[0] = lead /\ \A i \in 1..n :
              ArmedAt(keys, lead)[i] = (keys[i] = Lead /\ ~ArmedAt(keys, lead)[i-1])
  BY <1>0, <1>5
<1> QED BY <1>7, <1>8 DEF n

(* Reading on starts from where the lead is left.                          *)
LEMMA ArmedAtJoins ==
  ASSUME NEW K, NEW t \in Seq(K), NEW k \in Seq(K),
         NEW lead \in BOOLEAN, NEW from \in BOOLEAN, ArmedAt(t, lead)[Len(t)] = from
  PROVE  /\ \A i \in 0..Len(t) : ArmedAt(t \o k, lead)[i] = ArmedAt(t, lead)[i]
         /\ \A i \in 0..Len(k) : ArmedAt(t \o k, lead)[Len(t) + i] = ArmedAt(k, from)[i]
<1> DEFINE a == ArmedAt(t, lead)
           b == ArmedAt(k, from)
           j == ArmedAt(t \o k, lead)
           m == Len(t)
           n == Len(k)
<1>1. /\ m \in Nat /\ n \in Nat /\ t \o k \in Seq(K) /\ Len(t \o k) = m + n
      /\ \A i \in 1..m : (t \o k)[i] = t[i]
      /\ \A i \in 1..n : (t \o k)[m + i] = k[i]
  OBVIOUS
<1>2. a[0] = lead /\ \A i \in 1..m : a[i] = (t[i] = Lead /\ ~a[i-1])
  BY ArmedAtUnfolds
<1>3. b[0] = from /\ \A i \in 1..n : b[i] = (k[i] = Lead /\ ~b[i-1])
  BY ArmedAtUnfolds
<1>4. j[0] = lead /\ \A i \in 1..(m+n) : j[i] = ((t \o k)[i] = Lead /\ ~j[i-1])
  <2> DEFINE u == t \o k
  <2>1. u \in Seq(K) /\ Len(u) = m + n
    BY <1>1
  <2> HIDE DEF u, m, n
  <2>2. /\ ArmedAt(u, lead)[0] = lead
        /\ \A i \in 1..Len(u) : ArmedAt(u, lead)[i] = (u[i] = Lead /\ ~ArmedAt(u, lead)[i-1])
    BY <2>1, ArmedAtUnfolds
  <2> QED BY <2>1, <2>2 DEF u
<1>5. a[m] = from /\ a \in [0..m -> BOOLEAN]
  BY ArmedAtUnfolds
<1> HIDE DEF a, b, j, m, n
<1>6. {i \in 0..m : j[i] # a[i]} = {}
  <2> DEFINE Off == {i \in 0..m : j[i] # a[i]}
  <2> SUFFICES ASSUME Off # {} PROVE FALSE
    OBVIOUS
  <2>1. PICK i \in Off : \A l \in Off : i <= l
    <3>1. Off \in SUBSET Nat
      BY <1>1
    <3> HIDE DEF Off
    <3> QED BY <3>1, LeastNatural
  <2>2. i # 0
    BY <1>2, <1>4, <2>1
  <2>3. i \in 1..m /\ i \in 1..(m+n) /\ i - 1 \in 0..m /\ i - 1 \notin Off
    BY <1>1, <2>1, <2>2
  <2>4. j[i-1] = a[i-1]
    BY <2>3
  <2>5. j[i] = a[i]
    <3>1. (t \o k)[i] = t[i]
      BY <1>1, <2>3
    <3>2. a[i] = (t[i] = Lead /\ ~a[i-1])
      BY <1>2, <2>3
    <3>3. j[i] = ((t \o k)[i] = Lead /\ ~j[i-1])
      BY <1>4, <2>3
    <3> QED BY <2>4, <3>1, <3>2, <3>3
  <2> QED BY <2>1, <2>5
<1>7. {i \in 0..n : j[m + i] # b[i]} = {}
  <2> DEFINE Off == {i \in 0..n : j[m + i] # b[i]}
  <2> SUFFICES ASSUME Off # {} PROVE FALSE
    OBVIOUS
  <2>1. PICK i \in Off : \A l \in Off : i <= l
    <3>1. Off \in SUBSET Nat
      BY <1>1
    <3> HIDE DEF Off
    <3> QED BY <3>1, LeastNatural
  <2>2. i # 0
    <3>1. m \in 0..m /\ m + 0 = m
      BY <1>1
    <3>2. j[m + 0] = a[m]
      BY <1>6, <3>1
    <3>3. a[m] = from
      BY <1>5, <3>1
    <3> QED BY <1>3, <2>1, <3>2, <3>3
  <2>3. /\ i \in 1..n /\ m + i \in 1..(m+n) /\ i - 1 \in 0..n /\ i - 1 \notin Off
        /\ (m + i) - 1 = m + (i - 1)
    BY <1>1, <2>1, <2>2
  <2>4. j[(m + i) - 1] = b[i-1]
    BY <2>3
  <2>5. (t \o k)[m + i] = k[i]
    BY <1>1, <2>3
  <2>6. j[m + i] = (k[i] = Lead /\ ~b[i-1])
    BY <1>4, <2>3, <2>4, <2>5
  <2>7. b[i] = (k[i] = Lead /\ ~b[i-1])
    BY <1>3, <2>3
  <2> QED BY <2>1, <2>6, <2>7
<1> QED BY <1>6, <1>7 DEF a, b, j, m, n

(* With what of the read k is sent, what was sent of t grows into what is  *)
(* meant of both, save for a lead sent before the detach it begins came.   *)
Grows(K, t, k, lead, no) ==
  /\ Split(k, lead).send \in Seq(K)
  /\ Split(k, lead).leaves \in BOOLEAN
  /\ ~Split(k, lead).leaves =>
       /\ DetachesAt(t \o k, no) = {}
       /\ ArmedAt(t \o k, no)[Len(t \o k)] = ArmedAt(k, lead)[Len(k)]
       /\ t \o Split(k, lead).send = t \o k
  /\ Split(k, lead).leaves =>
       \E m \in Seq(K) :
         /\ SubSeq(t \o k, 1, Min(DetachesAt(t \o k, no)) - 2) = m
         /\ DetachesAt(t \o k, no) # {}
         /\ \/ t \o Split(k, lead).send = m
            \/ lead /\ \E i \in 1..Len(m) + 1 : t \o Split(k, lead).send = InsertAt(m, i, Lead)

(* So it does: `no` and `lead` are the lead pending before t and before k. *)
LEMMA SplitGrows ==
  ASSUME NEW K, Lead \in K, NEW t \in Seq(K), NEW k \in Seq(K), NEW no \in BOOLEAN, ~no,
         NEW lead \in BOOLEAN, ArmedAt(t, no)[Len(t)] = lead, DetachesAt(t, no) = {}
  PROVE  Grows(K, t, k, lead, no)
<1> SUFFICES /\ Split(k, lead).send \in Seq(K)
             /\ Split(k, lead).leaves \in BOOLEAN
             /\ ~Split(k, lead).leaves =>
                  /\ DetachesAt(t \o k, no) = {}
                  /\ ArmedAt(t \o k, no)[Len(t \o k)] = ArmedAt(k, lead)[Len(k)]
                  /\ t \o Split(k, lead).send = t \o k
             /\ Split(k, lead).leaves =>
                  \E m \in Seq(K) :
                    /\ SubSeq(t \o k, 1, Min(DetachesAt(t \o k, no)) - 2) = m
                    /\ DetachesAt(t \o k, no) # {}
                    /\ \/ t \o Split(k, lead).send = m
                       \/ lead /\ \E i \in 1..Len(m) + 1 : t \o Split(k, lead).send = InsertAt(m, i, Lead)
  BY DEF Grows
<1>j. /\ \A i \in 0..Len(t) : ArmedAt(t \o k, no)[i] = ArmedAt(t, no)[i]
      /\ \A i \in 0..Len(k) : ArmedAt(t \o k, no)[Len(t) + i] = ArmedAt(k, lead)[i]
  BY ArmedAtJoins
<1> DEFINE m == Len(t)
           n == Len(k)
           a == ArmedAt(k, lead)
           b == ArmedAt(t, no)
           j == ArmedAt(t \o k, no)
           D == DetachesAt(k, lead)
           E == DetachesAt(t \o k, no)
<1>1. /\ m \in Nat /\ n \in Nat /\ t \o k \in Seq(K) /\ Len(t \o k) = m + n
      /\ \A i \in 1..m : (t \o k)[i] = t[i]
      /\ \A i \in 1..n : (t \o k)[m + i] = k[i]
      /\ DOMAIN t = 1..m /\ DOMAIN k = 1..n /\ DOMAIN (t \o k) = 1..(m + n)
  OBVIOUS
<1>2. /\ \A i \in 0..m : j[i] = b[i]
      /\ \A i \in 0..n : j[m + i] = a[i]
  BY <1>j
<1>3. b[0] = no /\ b[m] = lead /\ \A i \in 1..m : b[i] = (t[i] = Lead /\ ~b[i-1])
  BY ArmedAtUnfolds
<1>4. D = {i \in 1..n : k[i] = DetachKey /\ a[i-1]}
  BY <1>1 DEF DetachesAt
<1>5. E = {i \in 1..(m+n) : (t \o k)[i] = DetachKey /\ j[i-1]}
  BY <1>1 DEF DetachesAt
<1>6. \A i \in 1..m : ~(t[i] = DetachKey /\ b[i-1])
  BY <1>1 DEF DetachesAt
<1>7. a[0] = lead
  BY ArmedAtUnfolds
<1>8. Split(k, lead) = IF D = {} THEN [send |-> k, leaves |-> FALSE]
                       ELSE [send |-> (IF lead /\ Min(D) > 1 THEN <<Lead>> ELSE <<>>)
                                        \o SubSeq(k, 1, Min(D) - 2), leaves |-> TRUE]
  BY DEF Split
<1>10. ArmedAt(t \o k, no)[Len(t \o k)] = j[m + n] /\ ArmedAt(k, lead)[Len(k)] = a[n]
  BY <1>1
<1>11. DetachesAt(t \o k, no) = E
  OBVIOUS
<1> HIDE DEF m, n, a, b, j, D, E
<1>12. j[m + n] = a[n]
  BY <1>1, <1>2
<1>13. \A i \in E : i - m \in D
  <2> SUFFICES ASSUME NEW i \in E PROVE i - m \in D
    OBVIOUS
  <2>1. i \in 1..(m + n) /\ (t \o k)[i] = DetachKey /\ j[i-1]
    BY <1>5
  <2>2. ~(i <= m)
    <3> SUFFICES ASSUME i <= m PROVE FALSE
      OBVIOUS
    <3>1. i \in 1..m /\ i - 1 \in 0..m
      BY <1>1, <2>1
    <3> QED BY <1>1, <1>2, <1>6, <2>1, <3>1
  <2>3. i - m \in 1..n /\ m + (i - m) = i /\ (i - m) - 1 \in 0..n
        /\ m + ((i - m) - 1) = i - 1
    BY <1>1, <2>1, <2>2
  <2>4. k[i - m] = DetachKey /\ a[(i - m) - 1]
    BY <1>1, <1>2, <2>1, <2>3
  <2> QED BY <1>4, <2>3, <2>4
<1>14. \A i \in D : m + i \in E
  <2> SUFFICES ASSUME NEW i \in D PROVE m + i \in E
    OBVIOUS
  <2>1. i \in 1..n /\ k[i] = DetachKey /\ a[i-1]
    BY <1>4
  <2>2. m + i \in 1..(m + n) /\ i - 1 \in 0..n /\ (m + i) - 1 = m + (i - 1)
    BY <1>1, <2>1
  <2>3. (t \o k)[m + i] = DetachKey /\ j[(m + i) - 1]
    BY <1>1, <1>2, <2>1, <2>2
  <2> QED BY <1>5, <2>2, <2>3
<1>15. CASE D = {}
  <2>1. E = {}
    BY <1>13, <1>15
  <2>2. Split(k, lead) = [send |-> k, leaves |-> FALSE]
    BY <1>8, <1>15
  <2>3. Split(k, lead).send = k /\ Split(k, lead).leaves = FALSE
    BY <2>2
  <2>4. DetachesAt(t \o k, no) = {}
    BY <1>11, <2>1
  <2>5. ArmedAt(t \o k, no)[Len(t \o k)] = ArmedAt(k, lead)[Len(k)]
    BY <1>10, <1>12
  <2> QED BY <2>3, <2>4, <2>5
<1>16. CASE D # {}
  <2>1. D \in SUBSET Nat /\ E \in SUBSET Nat
    BY <1>1, <1>4, <1>5
  <2>2. E # {}
    BY <1>14, <1>16
  <2> DEFINE f == Min(D)
             g == Min(E)
  <2>3. f \in D /\ g \in E /\ (\A i \in D : f <= i) /\ (\A i \in E : g <= i)
    BY <1>16, <2>1, <2>2, MinIsLeast
  <2>4. Split(k, lead) = [send |-> (IF lead /\ f > 1 THEN <<Lead>> ELSE <<>>) \o SubSeq(k, 1, f - 2),
                          leaves |-> TRUE]
    BY <1>8, <1>16
  <2>5. Min(DetachesAt(t \o k, no)) = g
    BY <1>11
  <2> HIDE DEF f, g
  <2>6. f \in 1..n /\ g \in Nat /\ f \in Nat /\ a[f-1]
    BY <1>4, <2>1, <2>3
  <2>7. g <= m + f /\ f <= g - m
    BY <1>13, <1>14, <2>3
  <2>8. g = m + f
    BY <1>1, <2>6, <2>7
  <2> DEFINE send == (IF lead /\ f > 1 THEN <<Lead>> ELSE <<>>) \o SubSeq(k, 1, f - 2)
             meant == SubSeq(t \o k, 1, g - 2)
  <2>9. Split(k, lead) = [send |-> send, leaves |-> TRUE]
    BY <2>4
  <2>10. /\ send \in Seq(K) /\ meant \in Seq(K)
         /\ \/ t \o send = meant
            \/ lead /\ \E i \in 1..Len(meant) + 1 : t \o send = InsertAt(meant, i, Lead)
    <3>1. CASE f = 1
      <4>1. lead /\ m # 0
        <5>1. f - 1 = 0
          BY <3>1
        <5> QED BY <1>3, <1>7, <2>6, <5>1
      <4>2. m \in 1..m /\ m - 1 \in Nat /\ t[m] = Lead /\ g - 2 = m - 1 /\ ~(f > 1)
        <5>1. m \in 1..m /\ m - 1 \in Nat
          BY <1>1, <4>1
        <5>2. t[m] = Lead
          BY <1>3, <4>1, <5>1
        <5>3. g - 2 = m - 1 /\ ~(f > 1)
          BY <1>1, <2>8, <3>1
        <5> QED BY <5>1, <5>2, <5>3
      <4>3. SubSeq(k, 1, f - 2) = <<>> /\ send = <<>> /\ t \o send = t
        <5>1. f - 2 = 0 - 1
          BY <3>1
        <5>2. SubSeq(k, 1, 0 - 1) = <<>> /\ <<>> \o <<>> = <<>> /\ t \o <<>> = t
          OBVIOUS
        <5>3. send = <<>> \o SubSeq(k, 1, f - 2)
          BY <4>2
        <5> QED BY <5>1, <5>2, <5>3
      <4> DEFINE q == m - 1
                 s == SubSeq(t, 1, q)
      <4>4. q \in Nat /\ q + 1 = Len(t) /\ t[q + 1] = Lead
        BY <4>2 DEF m
      <4> HIDE DEF q
      <4>5. meant = s /\ s \in Seq(K) /\ Len(s) = q /\ Len(meant) = q
        <5>1. meant = SubSeq(t \o k, 1, q)
          BY <4>2 DEF q
        <5>2. SubSeq(t \o k, 1, q) = SubSeq(t, 1, q)
          BY <4>4
        <5>3. s \in Seq(K) /\ Len(s) = q
          BY <4>4
        <5>4. meant = s
          BY <5>1, <5>2
        <5> QED BY <5>3, <5>4
      <4>6. t = InsertAt(s, q + 1, Lead)
        <5>1. SubSeq(s, 1, (q + 1) - 1) = s /\ SubSeq(s, q + 1, Len(s)) = <<>>
          BY <4>4, <4>5
        <5>2. t = s \o <<Lead>>
          BY <4>4
        <5>3. s \o <<Lead>> \o <<>> = s \o <<Lead>>
          BY <4>5
        <5> QED BY <5>1, <5>2, <5>3 DEF InsertAt
      <4> HIDE DEF send, meant, s
      <4>7. q + 1 \in 1..Len(meant) + 1
        BY <4>4, <4>5
      <4>8. <<>> \in Seq(K)
        OBVIOUS
      <4> QED BY <4>1, <4>3, <4>5, <4>6, <4>7, <4>8
    <3>2. CASE f # 1
      <4> DEFINE e == f - 2
                 s == SubSeq(k, 1, e)
      <4>1. e \in Nat /\ e <= Len(k) /\ g - 2 = Len(t) + e /\ f > 1
        BY <1>1, <2>6, <2>8, <3>2 DEF m, n
      <4> HIDE DEF e
      <4>2. s \in Seq(K) /\ SubSeq(k, 1, f - 2) = s
        BY <4>1 DEF e
      <4>3. meant = t \o s /\ meant \in Seq(K)
        <5>1. SubSeq(t \o k, 1, Len(t) + e) = t \o SubSeq(k, 1, e)
          BY <4>1
        <5> QED BY <4>1, <4>2, <5>1
      <4> HIDE DEF meant, s
      <4>4. CASE ~lead
        <5>1. send = <<>> \o s /\ <<>> \o s = s
          BY <4>2, <4>4
        <5> QED BY <4>2, <4>3, <5>1
      <4>5. CASE lead
        <5>1. send = <<Lead>> \o s
          BY <4>1, <4>2, <4>5
        <5> HIDE DEF send
        <5>2. send \in Seq(K)
          BY <4>2, <5>1
        <5> DEFINE i == Len(t) + 1
        <5>3. i \in 1..Len(meant) + 1 /\ i - 1 = Len(t) /\ Len(t) \in Nat
          BY <4>2, <4>3
        <5>4. SubSeq(meant, 1, Len(t)) = t /\ SubSeq(meant, Len(t) + 1, Len(meant)) = s
          BY <4>2, <4>3
        <5>5. InsertAt(meant, i, Lead) = t \o <<Lead>> \o s
          BY <5>3, <5>4 DEF InsertAt
        <5>6. t \o (<<Lead>> \o s) = t \o <<Lead>> \o s
          BY <4>2
        <5> HIDE DEF i
        <5> QED BY <4>3, <4>5, <5>1, <5>2, <5>3, <5>5, <5>6
      <4> QED BY <4>4, <4>5
    <3> QED BY <3>1, <3>2
  <2> HIDE DEF send, meant
  <2>11. Split(k, lead).send = send /\ Split(k, lead).leaves = TRUE
    BY <2>9
  <2>12. SubSeq(t \o k, 1, Min(DetachesAt(t \o k, no)) - 2) = meant
    BY <2>5 DEF meant
  <2>13. DetachesAt(t \o k, no) # {}
    BY <1>11, <2>2
  <2> QED BY <2>10, <2>11, <2>12, <2>13
<1> QED BY <1>15, <1>16

(* What has not been written to the child is on its way in whole frames:   *)
(* pieces w carry m from the position `from` on.                           *)
Frames(w, m, from) ==
  \E f \in 0..Len(w) : \E cut \in [1..f + 1 -> 0..Len(m)] :
    /\ Len(w) = 3 * f /\ cut[1] = from /\ cut[f + 1] = Len(m)
    /\ \A i \in 1..f : /\ cut[i] <= cut[i + 1]
                       /\ w[3 * i - 2][1] = 1 /\ w[3 * i - 1][1] = 2
                       /\ w[3 * i] = <<3, SubSeq(m, cut[i] + 1, cut[i + 1])>>

Keys == {Lead} \cup UNION {ToSet(keys) : keys \in KeyReads}
Pieces == {<<1, "stdin">>} \cup ({2} \X Nat) \cup ({3} \X Seq(Keys))

(* What was typed and what was sent: the same until the client leaves, and *)
(* then what was meant for the child, or a lead more.                      *)
Sending(keys, out, lead, bent, left) ==
  /\ keys \in Seq(Keys) /\ out \in Seq(Keys) /\ lead \in BOOLEAN
  /\ ~left => /\ out = keys /\ DetachesAt(keys, FALSE) = {}
              /\ ArmedAt(keys, FALSE)[Len(keys)] = lead
  /\ Meant(keys) \in Seq(Keys)
  /\ \/ out = Meant(keys)
     \/ bent /\ \E i \in 1..Len(Meant(keys)) + 1 : out = InsertAt(Meant(keys), i, Lead)

(* What was sent, what of it has been written to the child, and between    *)
(* the two the pieces read_frame has taken and those that come.            *)
Flowing(phase, out, written, taken, coming) ==
  /\ phase \in SessionPhases
  /\ out \in Seq(Keys) /\ written \in Seq(Keys)
  /\ taken \in Seq(Pieces) /\ coming \in Seq(Pieces)
  /\ Len(written) <= Len(out) /\ written = SubSeq(out, 1, Len(written))
  /\ phase \notin {"open", "over"} =>
       out = <<>> /\ written = <<>> /\ taken = <<>> /\ coming = <<>>
  /\ phase = "open" => Len(taken) < 3 /\ Frames(taken \o coming, out, Len(written))

Flow(c) ==
  /\ Sending(typed[c], sent[c], armed[c], carried[c], gone[c])
  /\ torn[c] \/ Flowing(at[c], sent[c], fed[c], got[c], wire[c])

FlowInv ==
  /\ DOMAIN at = Clients /\ DOMAIN typed = Clients /\ DOMAIN sent = Clients
  /\ DOMAIN armed = Clients /\ DOMAIN carried = Clients /\ DOMAIN gone = Clients
  /\ DOMAIN wire = Clients /\ DOMAIN got = Clients /\ DOMAIN torn = Clients
  /\ DOMAIN fed = Clients
  /\ \A c \in Clients : Flow(c)

LEMMA NoFrames == ASSUME NEW K, NEW m \in Seq(K) PROVE Frames(<<>>, m, Len(m))
<1>1. Len(m) \in Nat
  OBVIOUS
<1> DEFINE n == Len(m)
           cut == [i \in 1..1 |-> n]
<1>2. cut \in [1..0 + 1 -> 0..n] /\ cut[1] = n /\ cut[0 + 1] = n /\ n = Len(m)
  BY <1>1
<1>3. 0 \in 0..Len(<<>>) /\ Len(<<>>) = 3 * 0 /\ 1..0 = {}
  OBVIOUS
<1> HIDE DEF cut, n
<1> QED BY <1>2, <1>3 DEF Frames

(* A piece that has arrived begins a frame: the frame's three pieces are   *)
(* there, and what follows them carries on where its body ends.            *)
LEMMA FirstFrame ==
  ASSUME NEW P, NEW w \in Seq(P), NEW m, NEW l \in Nat, Len(m) = l, NEW from \in Nat,
         Frames(w, m, from), w # <<>>
  PROVE  /\ Len(w) >= 3 /\ w[1][1] = 1 /\ w[2][1] = 2
         /\ \E to \in from..l :
              /\ w[3] = <<3, SubSeq(m, from + 1, to)>>
              /\ \A v \in Seq(P) :
                   (Len(v) = Len(w) - 3 /\ \A i \in 1..Len(v) : v[i] = w[i + 3])
                     => Frames(v, m, to)
<1>1. PICK f \in 0..Len(w) : \E cut \in [1..f + 1 -> 0..l] :
        /\ Len(w) = 3 * f /\ cut[1] = from /\ cut[f + 1] = l
        /\ \A i \in 1..f : /\ cut[i] <= cut[i + 1]
                           /\ w[3 * i - 2][1] = 1 /\ w[3 * i - 1][1] = 2
                           /\ w[3 * i] = <<3, SubSeq(m, cut[i] + 1, cut[i + 1])>>
  BY DEF Frames
<1>2. PICK cut \in [1..f + 1 -> 0..l] :
        /\ Len(w) = 3 * f /\ cut[1] = from /\ cut[f + 1] = l
        /\ \A i \in 1..f : /\ cut[i] <= cut[i + 1]
                           /\ w[3 * i - 2][1] = 1 /\ w[3 * i - 1][1] = 2
                           /\ w[3 * i] = <<3, SubSeq(m, cut[i] + 1, cut[i + 1])>>
  BY <1>1
<1>3. f \in Nat /\ f # 0 /\ Len(w) \in Nat
  BY <1>2
<1>4. /\ 1 \in 1..f /\ 3 * 1 - 2 = 1 /\ 3 * 1 - 1 = 2 /\ 3 * 1 = 3 /\ 1 + 1 = 2
      /\ 2 \in 1..f + 1 /\ Len(w) >= 3
  BY <1>2, <1>3
<1>5. w[1][1] = 1 /\ w[2][1] = 2 /\ from <= cut[2] /\ w[3] = <<3, SubSeq(m, from + 1, cut[2])>>
  BY <1>2, <1>4
<1>6. cut[2] \in from..l
  BY <1>2, <1>4, <1>5
<1>7. ASSUME NEW v \in Seq(P), Len(v) = Len(w) - 3, \A i \in 1..Len(v) : v[i] = w[i + 3]
      PROVE  Frames(v, m, cut[2])
  <2> DEFINE e == f - 1
             rest == [i \in 1..e + 1 |-> cut[i + 1]]
  <2>1. e \in Nat /\ e + 1 = f /\ Len(v) = 3 * e /\ e \in 0..Len(v)
    BY <1>2, <1>3, <1>7
  <2> HIDE DEF e
  <2>2. rest \in [1..e + 1 -> 0..Len(m)] /\ rest[1] = cut[2] /\ rest[e + 1] = Len(m)
    <3>1. \A i \in 1..e + 1 : cut[i + 1] \in 0..l
      BY <1>2, <2>1
    <3>2. 1 \in 1..e + 1 /\ e + 1 \in 1..e + 1 /\ cut[e + 1 + 1] = l /\ cut[1 + 1] = cut[2]
      BY <1>2, <2>1
    <3> QED BY <3>1, <3>2
  <2>3. ASSUME NEW i \in 1..e
        PROVE  /\ rest[i] <= rest[i + 1]
               /\ v[3 * i - 2][1] = 1 /\ v[3 * i - 1][1] = 2
               /\ v[3 * i] = <<3, SubSeq(m, rest[i] + 1, rest[i + 1])>>
    <3> DEFINE k == i + 1
    <3>1. k \in 1..f /\ rest[i] = cut[k] /\ rest[i + 1] = cut[k + 1]
      BY <2>1
    <3>2. /\ 3 * i - 2 \in 1..Len(v) /\ 3 * i - 1 \in 1..Len(v) /\ 3 * i \in 1..Len(v)
          /\ (3 * i - 2) + 3 = 3 * k - 2 /\ (3 * i - 1) + 3 = 3 * k - 1 /\ 3 * i + 3 = 3 * k
      BY <2>1
    <3>3. /\ v[3 * i - 2] = w[3 * k - 2] /\ v[3 * i - 1] = w[3 * k - 1]
          /\ v[3 * i] = w[3 * k]
      <4> HIDE DEF k
      <4> QED BY <1>7, <3>2
    <3> HIDE DEF k, rest
    <3>4. /\ cut[k] <= cut[k + 1]
          /\ w[3 * k - 2][1] = 1 /\ w[3 * k - 1][1] = 2
          /\ w[3 * k] = <<3, SubSeq(m, cut[k] + 1, cut[k + 1])>>
      BY <1>2, <3>1
    <3>5. v[3 * i] = <<3, SubSeq(m, rest[i] + 1, rest[i + 1])>>
      BY <3>1, <3>3, <3>4
    <3>6. v[3 * i - 2][1] = 1 /\ v[3 * i - 1][1] = 2
      BY <3>3, <3>4
    <3> QED BY <3>1, <3>4, <3>5, <3>6
  <2> HIDE DEF rest
  <2>4. \A i \in 1..e : /\ rest[i] <= rest[i + 1]
                        /\ v[3 * i - 2][1] = 1 /\ v[3 * i - 1][1] = 2
                        /\ v[3 * i] = <<3, SubSeq(m, rest[i] + 1, rest[i + 1])>>
    BY <2>3
  <2>5. \E c \in [1..e + 1 -> 0..Len(m)] :
          /\ Len(v) = 3 * e /\ c[1] = cut[2] /\ c[e + 1] = Len(m)
          /\ \A i \in 1..e : /\ c[i] <= c[i + 1]
                             /\ v[3 * i - 2][1] = 1 /\ v[3 * i - 1][1] = 2
                             /\ v[3 * i] = <<3, SubSeq(m, c[i] + 1, c[i + 1])>>
    BY <2>1, <2>2, <2>4
  <2> QED BY <2>1, <2>5 DEF Frames
<1> QED BY <1>4, <1>5, <1>6, <1>7

(* What of a read is sent joins the frames that are on their way.          *)
LEMMA MoreFrames ==
  ASSUME NEW K, NEW m \in Seq(K), NEW s \in Seq(K), NEW P, NEW w \in Seq(P),
         NEW from \in Nat, Frames(w, m, from), w \o Frame(s) \in Seq(P)
  PROVE  Frames(w \o Frame(s), m \o s, from)
<1> DEFINE l == Len(m)
           n == Len(s)
           x == m \o s
<1>1. l \in Nat /\ n \in Nat /\ x \in Seq(K) /\ Len(x) = l + n
  OBVIOUS
<1>2. CASE s = <<>>
  <2>1. w \o Frame(s) = w /\ m \o s = m
    BY <1>2 DEF Frame
  <2> QED BY <2>1
<1>3. CASE s # <<>>
  <2> DEFINE v == w \o Frame(s)
             q == Len(w)
  <2>1. /\ q \in Nat /\ Len(v) = q + 3
        /\ \A i \in 1..q : v[i] = w[i]
        /\ v[q + 1] = <<1, "stdin">> /\ v[q + 2] = <<2, n>> /\ v[q + 3] = <<3, s>>
    BY <1>1, <1>3 DEF Frame
  <2>2. PICK f \in 0..q : \E cut \in [1..f + 1 -> 0..l] :
          /\ q = 3 * f /\ cut[1] = from /\ cut[f + 1] = l
          /\ \A i \in 1..f : /\ cut[i] <= cut[i + 1]
                             /\ w[3 * i - 2][1] = 1 /\ w[3 * i - 1][1] = 2
                             /\ w[3 * i] = <<3, SubSeq(m, cut[i] + 1, cut[i + 1])>>
    BY DEF Frames
  <2>3. PICK cut \in [1..f + 1 -> 0..l] :
          /\ q = 3 * f /\ cut[1] = from /\ cut[f + 1] = l
          /\ \A i \in 1..f : /\ cut[i] <= cut[i + 1]
                             /\ w[3 * i - 2][1] = 1 /\ w[3 * i - 1][1] = 2
                             /\ w[3 * i] = <<3, SubSeq(m, cut[i] + 1, cut[i + 1])>>
    BY <2>2
  <2> DEFINE e == f + 1
             more == [i \in 1..e + 1 |-> IF i <= e THEN cut[i] ELSE l + n]
  <2>4. /\ f \in Nat /\ e \in Nat /\ q + 3 = 3 * e /\ e \in 0..(q + 3)
        /\ q + 1 = 3 * e - 2 /\ q + 2 = 3 * e - 1
    BY <2>1, <2>3
  <2>5. x = m \o s /\ v = w \o Frame(s) /\ cut \in [1..e -> 0..l] /\ cut[e] = l
    BY <2>3
  <2>6. SubSeq(x, l + 1, l + n) = s
    BY <1>1
  <2>7. ASSUME NEW i \in 1..f PROVE SubSeq(x, cut[i] + 1, cut[i + 1]) = SubSeq(m, cut[i] + 1, cut[i + 1])
    <3>1. cut[i] \in 0..l /\ cut[i + 1] \in 0..l
      BY <2>3, <2>4
    <3> DEFINE y == cut[i]
               z == cut[i + 1]
    <3>2. y \in Nat /\ z \in Nat /\ z <= Len(m)
      BY <1>1, <3>1
    <3> HIDE DEF y, z
    <3>3. SubSeq(m \o s, y + 1, z) = SubSeq(m, y + 1, z)
      BY <3>2
    <3> QED BY <3>3 DEF y, z
  <2> HIDE DEF x, v, q, e, l, n
  <2>8. more \in [1..e + 1 -> 0..Len(x)] /\ more[e + 1] = Len(x)
    <3>1. \A i \in 1..e + 1 : i <= e => cut[i] \in 0..l
      BY <2>4, <2>5, SMTT(30)
    <3>2. \A i \in 1..e + 1 : more[i] \in 0..(l + n)
      BY <1>1, <3>1
    <3>3. more[e + 1] = l + n
      BY <2>4
    <3> HIDE DEF more
    <3>4. more \in [1..e + 1 -> 0..(l + n)]
      BY <3>2 DEF more
    <3> QED BY <1>1, <3>3, <3>4
  <2>9. more[1] = from
    BY <2>3, <2>4, <2>5 DEF e
  <2>10. ASSUME NEW i \in 1..e
         PROVE  /\ more[i] <= more[i + 1]
                /\ v[3 * i - 2][1] = 1 /\ v[3 * i - 1][1] = 2
                /\ v[3 * i] = <<3, SubSeq(x, more[i] + 1, more[i + 1])>>
    <3>1. CASE i # e
      <4>1. i \in 1..f /\ i <= e /\ i + 1 <= e /\ i \in 1..e + 1 /\ i + 1 \in 1..e + 1
        BY <2>4, <3>1 DEF e
      <4>2. more[i] = cut[i] /\ more[i + 1] = cut[i + 1]
        BY <4>1
      <4>3. 3 * i - 2 \in 1..q /\ 3 * i - 1 \in 1..q /\ 3 * i \in 1..q
        BY <2>3, <2>4, <4>1
      <4>4. /\ v[3 * i - 2] = w[3 * i - 2] /\ v[3 * i - 1] = w[3 * i - 1]
            /\ v[3 * i] = w[3 * i]
        BY <2>1, <4>3
      <4> HIDE DEF more
      <4>5. /\ cut[i] <= cut[i + 1]
            /\ w[3 * i - 2][1] = 1 /\ w[3 * i - 1][1] = 2
            /\ w[3 * i] = <<3, SubSeq(m, cut[i] + 1, cut[i + 1])>>
        BY <2>3, <4>1
      <4>6. v[3 * i] = <<3, SubSeq(x, more[i] + 1, more[i + 1])>>
        BY <2>7, <4>1, <4>2, <4>4, <4>5
      <4>7. v[3 * i - 2][1] = 1 /\ v[3 * i - 1][1] = 2
        BY <4>4, <4>5
      <4> QED BY <4>2, <4>5, <4>6, <4>7
    <3>2. CASE i = e
      <4>1. more[i] = l /\ more[i + 1] = l + n
        BY <2>4, <2>5, <3>2
      <4>2. v[3 * i - 2] = <<1, "stdin">> /\ v[3 * i - 1] = <<2, n>> /\ v[3 * i] = <<3, s>>
        BY <2>1, <2>4, <3>2
      <4> HIDE DEF more
      <4> QED BY <1>1, <2>6, <4>1, <4>2
    <3> QED BY <3>1, <3>2
  <2> HIDE DEF more
  <2>11. \A i \in 1..e : /\ more[i] <= more[i + 1]
                         /\ v[3 * i - 2][1] = 1 /\ v[3 * i - 1][1] = 2
                         /\ v[3 * i] = <<3, SubSeq(x, more[i] + 1, more[i + 1])>>
    BY <2>10
  <2>12. Len(v) = 3 * e /\ e \in 0..Len(v)
    BY <2>1, <2>4
  <2>13. \E c \in [1..e + 1 -> 0..Len(x)] :
          /\ Len(v) = 3 * e /\ c[1] = from /\ c[e + 1] = Len(x)
          /\ \A i \in 1..e : /\ c[i] <= c[i + 1]
                             /\ v[3 * i - 2][1] = 1 /\ v[3 * i - 1][1] = 2
                             /\ v[3 * i] = <<3, SubSeq(x, c[i] + 1, c[i + 1])>>
    BY <2>8, <2>9, <2>11, <2>12
  <2>14. Frames(v, x, from)
    BY <2>12, <2>13 DEF Frames
  <2> QED BY <2>14 DEF v, x
<1> QED BY <1>2, <1>3

(* Nothing that c types or that is read of it.                             *)
Aside(c) ==
  /\ typed'[c] = typed[c] /\ sent'[c] = sent[c] /\ armed'[c] = armed[c]
  /\ carried'[c] = carried[c] /\ gone'[c] = gone[c] /\ wire'[c] = wire[c]
  /\ got'[c] = got[c] /\ torn'[c] = torn[c] /\ fed'[c] = fed[c]

LEMMA FlowStays ==
  ASSUME NEW c \in Clients, Flow(c), Aside(c), at'[c] = at[c]
  PROVE  Flow(c)'
BY DEF Flow, Aside

LEMMA KeysStay ==
  ASSUME NEW c \in Clients, Flow(c), typed'[c] = typed[c], sent'[c] = sent[c],
         armed'[c] = armed[c], carried'[c] = carried[c], gone'[c] = gone[c]
  PROVE  Sending(typed[c], sent[c], armed[c], carried[c], gone[c])'
BY DEF Flow

(* A session on its way in has heard nothing.                              *)
LEMMA EnterFlow ==
  ASSUME FlowInv, NEW c \in Clients, NEW s \in SessionPhases, at[c] \notin {"open", "over"},
         Enter(c, s), UNCHANGED <<keyVars, feedVars>>
  PROVE  FlowInv'
<1>1. at' = [at EXCEPT ![c] = s] /\ \A d \in Clients : Aside(d)
  BY DEF Enter, keyVars, feedVars, Aside
<1>2. at'[c] = s /\ DOMAIN at' = Clients /\ \A d \in Clients : d # c => at'[d] = at[d]
  BY <1>1 DEF FlowInv
<1>3. Flow(c)'
  <2>1. Sending(typed[c], sent[c], armed[c], carried[c], gone[c])'
    BY <1>1, KeysStay DEF FlowInv, Aside
  <2>2. CASE torn[c]
    BY <1>1, <2>1, <2>2 DEF Flow, Aside
  <2>3. CASE ~torn[c]
    <3> DEFINE none == <<>>
    <3>1. Flowing(at[c], sent[c], fed[c], got[c], wire[c])
      BY <2>3 DEF FlowInv, Flow
    <3>2. sent[c] = none /\ fed[c] = none /\ got[c] = none /\ wire[c] = none
      BY <3>1 DEF Flowing
    <3>3. /\ none \in Seq(Keys) /\ none \in Seq(Pieces) /\ Len(none) = 0 /\ none \o none = none
          /\ Len(none) <= Len(none) /\ none = SubSeq(none, 1, Len(none)) /\ Len(none) < 3
      OBVIOUS
    <3>4. Frames(none \o none, none, Len(none))
      BY <3>3, NoFrames
    <3>5. Flowing(s, none, none, none, none)
      BY <3>3, <3>4 DEF Flowing
    <3> HIDE DEF none
    <3> QED BY <1>1, <1>2, <2>1, <3>2, <3>5 DEF Flow, Aside
  <2> QED BY <2>2, <2>3
<1>4. \A d \in Clients : d # c => Flow(d)'
  BY <1>1, <1>2, FlowStays DEF FlowInv
<1> QED BY <1>2, <1>3, <1>4 DEF FlowInv, keyVars, feedVars

(* One that is over stays as it was left.                                  *)
LEMMA LeaveFlow ==
  ASSUME FlowInv, NEW c \in Clients, at' = [at EXCEPT ![c] = "over"],
         UNCHANGED <<keyVars, feedVars>>
  PROVE  FlowInv'
<1>1. \A d \in Clients : Aside(d)
  BY DEF keyVars, feedVars, Aside
<1>2. at'[c] = "over" /\ DOMAIN at' = Clients /\ \A d \in Clients : d # c => at'[d] = at[d]
  BY DEF FlowInv
<1>3. Flow(c)'
  <2>1. Sending(typed[c], sent[c], armed[c], carried[c], gone[c])'
    BY <1>1, KeysStay DEF FlowInv, Aside
  <2>2. torn[c] \/ Flowing("over", sent[c], fed[c], got[c], wire[c])
    BY DEF FlowInv, Flow, Flowing, SessionPhases
  <2> QED BY <1>1, <1>2, <2>1, <2>2 DEF Flow, Aside
<1>4. \A d \in Clients : d # c => Flow(d)'
  BY <1>1, <1>2, FlowStays DEF FlowInv
<1> QED BY <1>2, <1>3, <1>4 DEF FlowInv, keyVars, feedVars

(* A client that is gone types nothing more.                               *)
LEMMA DiesFlow ==
  ASSUME FlowInv, NEW c \in Clients, Dies(c)
  PROVE  FlowInv'
<1>1. /\ UNCHANGED <<at, typed, sent, armed, carried, wire, got, torn, fed>>
      /\ gone' = [gone EXCEPT ![c] = TRUE]
  BY DEF Dies, feedVars
<1>2. gone'[c] = TRUE /\ DOMAIN gone' = Clients /\ \A d \in Clients : d # c => gone'[d] = gone[d]
  BY <1>1 DEF FlowInv
<1>3. Flow(c)'
  BY <1>1, <1>2 DEF FlowInv, Flow, Sending
<1>4. \A d \in Clients : d # c => Flow(d)'
  BY <1>1, <1>2, FlowStays DEF FlowInv, Aside
<1> QED BY <1>1, <1>2, <1>3, <1>4 DEF FlowInv

(* A frame that is dropped in its middle tears the stream.                 *)
LEMMA ForwardsFlow ==
  ASSUME FlowInv, NEW c \in Clients, Forwards(c)
  PROVE  FlowInv'
<1>1. /\ UNCHANGED <<at, typed, sent, armed, carried, gone, wire, fed>>
      /\ got' = [got EXCEPT ![c] = <<>>]
      /\ torn' = [torn EXCEPT ![c] = torn[c] \/ got[c] # <<>>]
  BY DEF Forwards, keyVars
<1>2. /\ DOMAIN got' = Clients /\ DOMAIN torn' = Clients /\ got'[c] = <<>>
      /\ torn'[c] = (torn[c] \/ got[c] # <<>>)
      /\ \A d \in Clients : d # c => got'[d] = got[d] /\ torn'[d] = torn[d]
  BY <1>1 DEF FlowInv
<1>3. Flow(c)'
  BY <1>1, <1>2 DEF FlowInv, Flow
<1>4. \A d \in Clients : d # c => Flow(d)'
  BY <1>1, <1>2, FlowStays DEF FlowInv, Aside
<1> QED BY <1>1, <1>2, <1>3, <1>4 DEF FlowInv

(* In a torn stream nothing is claimed.                                    *)
LEMMA MisreadsFlow ==
  ASSUME FlowInv, NEW c \in Clients, Misreads(c)
  PROVE  FlowInv'
<1>1. /\ torn[c] /\ wire' = [wire EXCEPT ![c] = <<>>]
      /\ UNCHANGED <<typed, sent, armed, carried, gone, got, torn>>
      /\ at' = at \/ at' = [at EXCEPT ![c] = "over"]
      /\ fed' = fed \/ fed' = [fed EXCEPT ![c] = Append(fed[c], "garbled")]
  BY DEF Misreads, Leave, Enter
<1>2. /\ DOMAIN at' = Clients /\ DOMAIN fed' = Clients /\ DOMAIN wire' = Clients
      /\ \A d \in Clients : d # c => at'[d] = at[d] /\ fed'[d] = fed[d] /\ wire'[d] = wire[d]
  BY <1>1 DEF FlowInv
<1>3. Flow(c)'
  <2>1. Sending(typed[c], sent[c], armed[c], carried[c], gone[c])'
    BY <1>1, KeysStay DEF FlowInv
  <2> QED BY <1>1, <2>1 DEF Flow
<1>4. \A d \in Clients : d # c => Flow(d)'
  BY <1>1, <1>2, FlowStays DEF FlowInv, Aside
<1> QED BY <1>1, <1>2, <1>3, <1>4 DEF FlowInv

(* A piece moves from the wire to what read_frame has.                     *)
LEMMA PieceMoves ==
  ASSUME NEW P, NEW g \in Seq(P), NEW x \in Seq(P), x # <<>>
  PROVE  /\ Head(x) \in P /\ Tail(x) \in Seq(P) /\ Append(g, Head(x)) \in Seq(P)
         /\ Len(Append(g, Head(x))) = Len(g) + 1
         /\ Append(g, Head(x)) \o Tail(x) = g \o x
         /\ g \o x \in Seq(P) /\ g \o x # <<>> /\ (g \o x)[Len(g) + 1] = Head(x)
         /\ Len(g \o x) = Len(g) + 1 + Len(Tail(x))
         /\ \A i \in 1..Len(Tail(x)) : Tail(x)[i] = (g \o x)[i + (Len(g) + 1)]
<1> DEFINE h == Head(x)
           y == Tail(x)
           a == Append(g, h)
<1>1. h \in P /\ y \in Seq(P) /\ a \in Seq(P) /\ Len(x) = Len(y) + 1 /\ h = x[1]
      /\ \A i \in 1..Len(y) : y[i] = x[i + 1]
  OBVIOUS
<1>2. Len(a) = Len(g) + 1 /\ a[Len(g) + 1] = h /\ \A i \in 1..Len(g) : a[i] = g[i]
  BY <1>1
<1> HIDE DEF h, y, a
<1>3. /\ g \o x \in Seq(P) /\ Len(g \o x) = Len(g) + 1 + Len(y)
      /\ \A i \in 1..Len(g) : (g \o x)[i] = g[i]
      /\ \A i \in 1..Len(x) : (g \o x)[Len(g) + i] = x[i]
  BY <1>1, SMTT(30)
<1>4. /\ a \o y \in Seq(P) /\ Len(a \o y) = Len(g) + 1 + Len(y)
      /\ \A i \in 1..Len(a) : (a \o y)[i] = a[i]
      /\ \A i \in 1..Len(y) : (a \o y)[Len(a) + i] = y[i]
  <2>1. a \in Seq(P) /\ y \in Seq(P)
    BY <1>1
  <2>2. /\ a \o y \in Seq(P) /\ Len(a \o y) = Len(a) + Len(y)
        /\ \A i \in 1..Len(a) : (a \o y)[i] = a[i]
        /\ \A i \in 1..Len(y) : (a \o y)[Len(a) + i] = y[i]
    BY <2>1
  <2> QED BY <1>2, <2>2
<1>5. (g \o x)[Len(g) + 1] = h
  BY <1>1, <1>3
<1>6. \A i \in 1..Len(y) : y[i] = (g \o x)[i + (Len(g) + 1)]
  <2> SUFFICES ASSUME NEW i \in 1..Len(y) PROVE y[i] = (g \o x)[i + (Len(g) + 1)]
    OBVIOUS
  <2>1. i + 1 \in 1..Len(x) /\ Len(g) + (i + 1) = i + (Len(g) + 1)
    BY <1>1
  <2> QED BY <1>1, <1>3, <2>1
<1>7. a \o y = g \o x
  <2>1. ASSUME NEW i \in 1..(Len(g) + 1 + Len(y)) PROVE (a \o y)[i] = (g \o x)[i]
    <3>0. i \in Nat /\ i >= 1 /\ Len(g) \in Nat /\ Len(y) \in Nat
      BY <1>1
    <3>1. CASE i \in 1..Len(g)
      BY <1>2, <1>3, <1>4, <3>1
    <3>2. CASE i = Len(g) + 1
      BY <1>2, <1>4, <1>5, <3>2
    <3>3. CASE i > Len(g) + 1
      <4> DEFINE k == i - (Len(g) + 1)
      <4>1. k \in 1..Len(y) /\ Len(a) + k = i /\ k + (Len(g) + 1) = i
        BY <1>2, <3>0, <3>3
      <4> HIDE DEF k
      <4>2. (a \o y)[Len(a) + k] = y[k] /\ y[k] = (g \o x)[k + (Len(g) + 1)]
        BY <1>4, <1>6, <4>1
      <4> QED BY <4>1, <4>2
    <3>4. i \in 1..Len(g) \/ i = Len(g) + 1 \/ i > Len(g) + 1
      BY <3>0
    <3> QED BY <3>1, <3>2, <3>3, <3>4
  <2> QED BY <1>3, <1>4, <2>1, SMTT(30)
<1>8. g \o x # <<>>
  BY <1>1, <1>3
<1> QED BY <1>1, <1>2, <1>3, <1>5, <1>6, <1>7, <1>8 DEF h, y, a

(* What is written goes on where the last frame ended.                     *)
LEMMA WritesOn ==
  ASSUME NEW K, NEW m \in Seq(K), NEW l \in 0..Len(m), NEW to \in l..Len(m)
  PROVE  /\ SubSeq(m, 1, l) \o SubSeq(m, l + 1, to) = SubSeq(m, 1, to)
         /\ Len(SubSeq(m, 1, to)) = to /\ SubSeq(m, 1, to) \in Seq(K)
<1>1. to \in Nat /\ l \in Nat /\ to <= Len(m)
  OBVIOUS
<1> QED BY <1>1

LEMMA TakesFlow ==
  ASSUME FlowInv, NEW c \in Clients, Takes(c)
  PROVE  FlowInv'
<1> DEFINE w == got[c] \o wire[c]
           m == sent[c]
           l == Len(fed[c])
           piece == Head(wire[c])
           rest == Tail(wire[c])
           frame == Append(got[c], piece)
<1>1. /\ at[c] = "open" /\ ~torn[c] /\ wire[c] # <<>> /\ wire' = [wire EXCEPT ![c] = rest]
      /\ UNCHANGED <<typed, sent, armed, carried, gone, torn>>
  BY DEF Takes
<1>2. /\ got' = [got EXCEPT ![c] = IF Len(frame) = 3 THEN <<>> ELSE frame]
      /\ \/ at' = [at EXCEPT ![c] = "over"] /\ fed' = fed /\ Len(frame) = 3
         \/ /\ at' = at
            /\ fed' = IF Len(frame) = 3 THEN [fed EXCEPT ![c] = @ \o piece[2]] ELSE fed
  BY DEF Takes, Leave, Enter
<1>3. /\ Flowing(at[c], sent[c], fed[c], got[c], wire[c])
      /\ Sending(typed[c], sent[c], armed[c], carried[c], gone[c])'
  BY <1>1, KeysStay DEF FlowInv, Flow
<1>4. /\ m \in Seq(Keys)
      /\ fed[c] \in Seq(Keys) /\ got[c] \in Seq(Pieces) /\ wire[c] \in Seq(Pieces)
      /\ l <= Len(m) /\ fed[c] = SubSeq(m, 1, l) /\ Len(got[c]) < 3 /\ Frames(w, m, l)
  BY <1>1, <1>3 DEF Flowing
<1>5. /\ rest \in Seq(Pieces) /\ frame \in Seq(Pieces)
      /\ Len(frame) = Len(got[c]) + 1 /\ frame \o rest = w
      /\ w \in Seq(Pieces) /\ w # <<>> /\ w[Len(got[c]) + 1] = piece
      /\ Len(w) = Len(got[c]) + 1 + Len(rest)
      /\ \A i \in 1..Len(rest) : rest[i] = w[i + (Len(got[c]) + 1)]
  <2>1. got[c] \in Seq(Pieces) /\ wire[c] \in Seq(Pieces) /\ wire[c] # <<>>
    BY <1>1, <1>4
  <2> DEFINE g == got[c]
             x == wire[c]
  <2> HIDE DEF g, x
  <2>2. g \in Seq(Pieces) /\ x \in Seq(Pieces) /\ x # <<>>
    BY <2>1 DEF g, x
  <2>3. /\ Head(x) \in Pieces /\ Tail(x) \in Seq(Pieces) /\ Append(g, Head(x)) \in Seq(Pieces)
        /\ Len(Append(g, Head(x))) = Len(g) + 1
        /\ Append(g, Head(x)) \o Tail(x) = g \o x
        /\ g \o x \in Seq(Pieces) /\ g \o x # <<>> /\ (g \o x)[Len(g) + 1] = Head(x)
        /\ Len(g \o x) = Len(g) + 1 + Len(Tail(x))
        /\ \A i \in 1..Len(Tail(x)) : Tail(x)[i] = (g \o x)[i + (Len(g) + 1)]
    BY <2>2, PieceMoves
  <2> QED BY <2>3 DEF g, x
<1>6. l \in Nat /\ Len(m) \in Nat /\ Len(got[c]) \in Nat
  BY <1>4
<1> HIDE DEF w, m, l, piece, rest, frame
<1>7. /\ w[1][1] = 1 /\ w[2][1] = 2
      /\ \E to \in l..Len(m) :
           /\ w[3] = <<3, SubSeq(m, l + 1, to)>>
           /\ \A v \in Seq(Pieces) :
                (Len(v) = Len(w) - 3 /\ \A i \in 1..Len(v) : v[i] = w[i + 3]) => Frames(v, m, to)
  BY <1>4, <1>5, <1>6, FirstFrame
<1>8. PICK to \in l..Len(m) :
        /\ w[3] = <<3, SubSeq(m, l + 1, to)>>
        /\ \A v \in Seq(Pieces) :
             (Len(v) = Len(w) - 3 /\ \A i \in 1..Len(v) : v[i] = w[i + 3]) => Frames(v, m, to)
  BY <1>7
<1>10. wire'[c] = rest /\ DOMAIN wire' = Clients /\ \A d \in Clients : d # c => wire'[d] = wire[d]
  BY <1>1 DEF FlowInv
<1>11. /\ DOMAIN got' = Clients /\ \A d \in Clients : d # c => got'[d] = got[d]
       /\ DOMAIN at' = Clients /\ \A d \in Clients : d # c => at'[d] = at[d]
       /\ DOMAIN fed' = Clients /\ \A d \in Clients : d # c => fed'[d] = fed[d]
  BY <1>2 DEF FlowInv
<1>12. \A d \in Clients : d # c => Flow(d)'
  BY <1>1, <1>10, <1>11, FlowStays DEF FlowInv, Aside
<1>13. <<>> \in Seq(Pieces) /\ Len(<<>>) = 0 /\ <<>> \o rest = rest
  BY <1>5
<1>14. Flow(c)'
  <2>1. CASE Len(frame) = 3 /\ at'[c] = "over" /\ got'[c] = <<>> /\ fed'[c] = fed[c]
    <3>1. Flowing("over", m, fed[c], <<>>, rest)
      BY <1>4, <1>5, <1>13 DEF Flowing, SessionPhases, l
    <3> QED BY <1>1, <1>3, <1>10, <2>1, <3>1 DEF Flow, m
  <2>2. CASE Len(frame) # 3 /\ at'[c] = "open" /\ got'[c] = frame /\ fed'[c] = fed[c]
    <3>1. Len(frame) < 3 /\ Frames(frame \o rest, m, l)
      BY <1>4, <1>5, <1>6, <2>2
    <3>2. Flowing("open", m, fed[c], frame, rest)
      BY <1>4, <1>5, <3>1 DEF Flowing, SessionPhases, l
    <3> QED BY <1>1, <1>3, <1>10, <2>2, <3>2 DEF Flow, m
  <2>3. CASE Len(frame) = 3 /\ at'[c] = "open" /\ got'[c] = <<>> /\ fed'[c] = fed[c] \o piece[2]
    <3> DEFINE more == SubSeq(m, 1, to)
    <3>1. Len(got[c]) + 1 = 3 /\ piece = w[3]
      BY <1>5, <2>3
    <3>2. piece[2] = SubSeq(m, l + 1, to)
      <4>1. piece = <<3, SubSeq(m, l + 1, to)>>
        BY <1>8, <3>1
      <4> QED BY <4>1
    <3>3. fed[c] \o piece[2] = more /\ Len(more) = to /\ more \in Seq(Keys)
      BY <1>4, <1>6, <3>2, WritesOn
    <3>4. Frames(rest, m, to)
      <4>1. Len(rest) = Len(w) - 3 /\ \A i \in 1..Len(rest) : rest[i] = w[i + 3]
        BY <1>5, <1>6, <3>1
      <4> QED BY <1>5, <1>8, <4>1
    <3>5. Len(more) <= Len(m) /\ more = SubSeq(m, 1, Len(more)) /\ Frames(<<>> \o rest, m, Len(more))
      BY <1>6, <1>13, <3>3, <3>4
    <3> HIDE DEF more
    <3>6. Flowing("open", m, more, <<>>, rest)
      BY <1>4, <1>5, <1>13, <3>3, <3>5, SMTT(30) DEF Flowing, SessionPhases
    <3> QED BY <1>1, <1>3, <1>10, <2>3, <3>3, <3>6 DEF Flow, m
  <2>4. \/ Len(frame) = 3 /\ at'[c] = "over" /\ got'[c] = <<>> /\ fed'[c] = fed[c]
        \/ Len(frame) # 3 /\ at'[c] = "open" /\ got'[c] = frame /\ fed'[c] = fed[c]
        \/ Len(frame) = 3 /\ at'[c] = "open" /\ got'[c] = <<>> /\ fed'[c] = fed[c] \o piece[2]
    BY <1>1, <1>2 DEF FlowInv
  <2> QED BY <2>1, <2>2, <2>3, <2>4
<1> QED BY <1>1, <1>10, <1>11, <1>12, <1>14 DEF FlowInv

(* What is typed and sent is on its way after what is already on its way.  *)
LEMMA TypesFlow ==
  ASSUME FlowInv, NEW c \in Clients, NEW keys \in KeyReads, Types(c, keys)
  PROVE  FlowInv'
<1> DEFINE lead == armed[c]
           t == typed[c]
           send == Split(keys, lead).send
           leaves == Split(keys, lead).leaves
           more == t \o keys
           out == t \o send
           after == ArmedAt(keys, lead)[Len(keys)]
           bent == leaves /\ lead
           no == FALSE
<1>1. /\ at[c] = "open" /\ ~gone[c] /\ UNCHANGED <<at, got, torn, fed>>
      /\ typed' = [typed EXCEPT ![c] = more] /\ armed' = [armed EXCEPT ![c] = after]
      /\ sent' = [sent EXCEPT ![c] = sent[c] \o send]
      /\ gone' = [gone EXCEPT ![c] = leaves] /\ carried' = [carried EXCEPT ![c] = bent]
      /\ wire' = [wire EXCEPT ![c] = wire[c] \o Frame(send)]
  BY DEF Types, FlowInv, feedVars
<1>2. /\ Sending(t, sent[c], lead, carried[c], gone[c])
      /\ torn[c] \/ Flowing(at[c], sent[c], fed[c], got[c], wire[c])
  BY DEF FlowInv, Flow
<1>3. /\ t \in Seq(Keys) /\ lead \in BOOLEAN /\ sent[c] = t
      /\ DetachesAt(t, no) = {} /\ ArmedAt(t, no)[Len(t)] = lead
  BY <1>1, <1>2 DEF Sending
<1>4. keys \in Seq(Keys)
  <2>1. keys \in Seq(ToSet(keys))
    BY SessionAssumption
  <2>2. ToSet(keys) \subseteq Keys
    BY DEF Keys
  <2> QED BY <2>1, <2>2
<1>5. no \in BOOLEAN /\ ~no /\ Lead \in Keys
  <2>1. Lead \in Keys
    BY DEF Keys
  <2> QED BY <2>1
<1> HIDE DEF lead, t, no
<1>6. /\ send \in Seq(Keys) /\ leaves \in BOOLEAN
      /\ ~leaves => /\ DetachesAt(more, no) = {} /\ ArmedAt(more, no)[Len(more)] = after
                    /\ out = more
      /\ leaves =>
           \E m \in Seq(Keys) :
             /\ SubSeq(more, 1, Min(DetachesAt(more, no)) - 2) = m
             /\ DetachesAt(more, no) # {}
             /\ \/ out = m
                \/ lead /\ \E i \in 1..Len(m) + 1 : out = InsertAt(m, i, Lead)
  <2>1. lead \in BOOLEAN /\ no \in BOOLEAN /\ ~no /\ t \in Seq(Keys) /\ keys \in Seq(Keys)
        /\ Lead \in Keys /\ DetachesAt(t, no) = {} /\ ArmedAt(t, no)[Len(t)] = lead
    BY <1>3, <1>4, <1>5
  <2>2. Grows(Keys, t, keys, lead, no)
    BY <2>1, SplitGrows
  <2> QED BY <2>2 DEF Grows
<1>7. after \in BOOLEAN
  <2>1. Len(keys) \in 0..Len(keys)
    BY <1>4
  <2>2. ArmedAt(keys, lead) \in [0..Len(keys) -> BOOLEAN]
    BY <1>3, <1>4, ArmedAtUnfolds
  <2> QED BY <2>1, <2>2
<1> HIDE DEF send, leaves, more, after
<1>8. more \in Seq(Keys) /\ out \in Seq(Keys)
  BY <1>3, <1>4, <1>6 DEF more
<1> HIDE DEF out, bent
<1>9. Sending(more, out, after, bent, leaves)
  <2>1. Meant(more) = IF DetachesAt(more, no) = {} THEN more
                      ELSE SubSeq(more, 1, Min(DetachesAt(more, no)) - 2)
    BY DEF Meant, no
  <2>2. CASE ~leaves
    <3>1. Meant(more) = more /\ out = more
      BY <1>6, <2>1, <2>2
    <3> QED BY <1>6, <1>7, <1>8, <2>2, <3>1 DEF Sending, no
  <2>3. CASE leaves
    <3>1. PICK m \in Seq(Keys) :
             /\ SubSeq(more, 1, Min(DetachesAt(more, no)) - 2) = m
             /\ DetachesAt(more, no) # {}
             /\ \/ out = m
                \/ lead /\ \E i \in 1..Len(m) + 1 : out = InsertAt(m, i, Lead)
      BY <1>6, <2>3
    <3>2. Meant(more) = m
      BY <2>1, <3>1
    <3>3. lead => bent
      BY <2>3 DEF bent
    <3> QED BY <1>7, <1>8, <2>3, <3>1, <3>2, <3>3 DEF Sending
  <2> QED BY <2>2, <2>3
<1>10. torn[c] \/ Flowing("open", out, fed[c], got[c], wire[c] \o Frame(send))
  <2> SUFFICES ASSUME ~torn[c] PROVE Flowing("open", out, fed[c], got[c], wire[c] \o Frame(send))
    OBVIOUS
  <2>1. /\ fed[c] \in Seq(Keys) /\ got[c] \in Seq(Pieces) /\ wire[c] \in Seq(Pieces)
        /\ Len(fed[c]) <= Len(t) /\ fed[c] = SubSeq(t, 1, Len(fed[c]))
        /\ Len(got[c]) < 3 /\ Frames(got[c] \o wire[c], t, Len(fed[c]))
    BY <1>1, <1>2, <1>3 DEF Flowing
  <2>2. Frame(send) \in Seq(Pieces)
    <3>1. CASE send = <<>>
      BY <3>1 DEF Frame
    <3>2. CASE send # <<>>
      <4>1. Len(send) \in Nat
        BY <1>6
      <4>2. <<1, "stdin">> \in Pieces /\ <<2, Len(send)>> \in Pieces /\ <<3, send>> \in Pieces
        BY <1>6, <4>1 DEF Pieces
      <4> QED BY <3>2, <4>2 DEF Frame
    <3> QED BY <3>1, <3>2
  <2>3. /\ wire[c] \o Frame(send) \in Seq(Pieces) /\ got[c] \o wire[c] \in Seq(Pieces)
        /\ got[c] \o (wire[c] \o Frame(send)) = (got[c] \o wire[c]) \o Frame(send)
        /\ (got[c] \o wire[c]) \o Frame(send) \in Seq(Pieces)
    <3> DEFINE g == got[c]
               x == wire[c]
               y == Frame(send)
    <3>1. g \in Seq(Pieces) /\ x \in Seq(Pieces) /\ y \in Seq(Pieces)
      BY <2>1, <2>2
    <3> HIDE DEF g, x, y
    <3>2. x \o y \in Seq(Pieces) /\ g \o x \in Seq(Pieces) /\ (g \o x) \o y \in Seq(Pieces)
      BY <3>1
    <3>3. g \o (x \o y) = (g \o x) \o y
      BY <3>1
    <3> QED BY <3>2, <3>3 DEF g, x, y
  <2>4. Frames(got[c] \o (wire[c] \o Frame(send)), out, Len(fed[c]))
    <3>1. Len(fed[c]) \in Nat
      BY <2>1
    <3>2. Frames((got[c] \o wire[c]) \o Frame(send), t \o send, Len(fed[c]))
      BY <1>3, <1>6, <2>1, <2>3, <3>1, MoreFrames
    <3> QED BY <2>3, <3>2 DEF out
  <2>5. Len(fed[c]) <= Len(out) /\ fed[c] = SubSeq(out, 1, Len(fed[c]))
    <3> DEFINE l == Len(fed[c])
    <3>1. l \in Nat /\ l <= Len(t) /\ fed[c] = SubSeq(t, 1, l)
      BY <2>1
    <3> HIDE DEF l
    <3>2. l <= Len(t \o send) /\ SubSeq(t \o send, 1, l) = SubSeq(t, 1, l)
      BY <1>3, <1>6, <3>1
    <3> QED BY <3>1, <3>2 DEF l, out
  <2> QED BY <1>8, <2>1, <2>3, <2>4, <2>5 DEF Flowing, SessionPhases
<1>11. /\ DOMAIN typed' = Clients /\ DOMAIN sent' = Clients /\ DOMAIN armed' = Clients
       /\ DOMAIN gone' = Clients /\ DOMAIN carried' = Clients /\ DOMAIN wire' = Clients
       /\ typed'[c] = more /\ sent'[c] = out /\ armed'[c] = after /\ gone'[c] = leaves
       /\ carried'[c] = bent /\ wire'[c] = wire[c] \o Frame(send)
  BY <1>1, <1>3 DEF FlowInv, out
<1>12. \A d \in Clients : d # c => Aside(d) /\ at'[d] = at[d]
  BY <1>1 DEF FlowInv, Aside
<1>13. Flow(c)'
  BY <1>1, <1>9, <1>10, <1>11 DEF Flow
<1>14. \A d \in Clients : d # c => Flow(d)'
  BY <1>12, FlowStays DEF FlowInv
<1> QED BY <1>1, <1>11, <1>13, <1>14 DEF FlowInv

LEMMA FlowStep == FlowInv /\ [SessionNext]_sessionVars => FlowInv'
<1> SUFFICES ASSUME FlowInv, [SessionNext]_sessionVars PROVE FlowInv'
  OBVIOUS
<1>1. ASSUME UNCHANGED <<at, keyVars, feedVars>> PROVE FlowInv'
  <2>1. at' = at /\ \A c \in Clients : Aside(c)
    BY <1>1 DEF keyVars, feedVars, Aside
  <2> QED BY <1>1, <2>1, FlowStays DEF FlowInv, keyVars, feedVars
<1>2. CASE UNCHANGED sessionVars
  BY <1>1, <1>2 DEF sessionVars
<1>3. CASE Prints \/ Broadcasts \/ Keeps \/ Exits \/ Respawns
  BY <1>1, <1>3 DEF Prints, Broadcasts, Keeps, Exits, Respawns
<1>4. ASSUME NEW c \in Clients, Asks(c) PROVE FlowInv'
  <2>1. at[c] \notin {"open", "over"} /\ UNCHANGED <<keyVars, feedVars>>
    BY <1>4 DEF Asks
  <2>2. Enter(c, "asked") \/ Enter(c, "refused")
    BY <1>4 DEF Asks
  <2> QED BY <2>1, <2>2, EnterFlow DEF SessionPhases
<1>5. ASSUME NEW c \in Clients, Claims(c) PROVE FlowInv'
  <2>1. at[c] \notin {"open", "over"} /\ UNCHANGED <<keyVars, feedVars>>
    BY <1>5 DEF Claims
  <2>2. Enter(c, "claimed") \/ Enter(c, "refused")
    BY <1>5 DEF Claims
  <2> QED BY <2>1, <2>2, EnterFlow DEF SessionPhases
<1>6. ASSUME NEW c \in Clients, Subscribes(c) PROVE FlowInv'
  BY <1>6, EnterFlow DEF Subscribes, SessionPhases
<1>7. ASSUME NEW c \in Clients, ReplaysBack(c) PROVE FlowInv'
  BY <1>7, EnterFlow DEF ReplaysBack, SessionPhases
<1>8. ASSUME NEW c \in Clients, HangsUp(c) PROVE FlowInv'
  BY <1>8, LeaveFlow DEF HangsUp, Leave, Enter
<1>9. CASE \E c \in Clients : Attached(c) \/ Dies(c) \/ \E keys \in KeyReads : Types(c, keys)
  <2>1. ASSUME NEW c \in Clients, Attached(c) PROVE FlowInv'
    BY <1>4, <1>5, <1>6, <1>7, <1>8, <2>1, ForwardsFlow, TakesFlow, MisreadsFlow DEF Attached
  <2> QED BY <1>9, <2>1, DiesFlow, TypesFlow
<1> QED BY <1>2, <1>3, <1>9 DEF SessionNext

(* However reads of a keyboard fall, whoever detaches, dies or is shut     *)
(* out, and however often the child is started again: while no frame was   *)
(* dropped in its middle, a child reads what was typed for it, in order    *)
(* and each key once; and at most one lead more, of a client that detached *)
(* with a read that found a lead pending (control.rs: attach, connect,     *)
(* detach_split).                                                          *)
THEOREM InputIntactAlways == SessionSpec => []InputIntact
<1>1. SessionInit => FlowInv
  <2> SUFFICES ASSUME SessionInit PROVE FlowInv
    OBVIOUS
  <2> DEFINE no == FALSE
             none == <<>>
             s == "away"
             zero == 0
  <2>1. DetachesAt(none, no) = {} /\ Meant(none) = none
    BY DEF Meant, DetachesAt
  <2>2. none \in Seq(Keys) /\ none \in Seq(Pieces) /\ Len(none) <= Len(none)
        /\ none = SubSeq(none, 1, Len(none)) /\ none = <<>> /\ Len(none) = zero
    OBVIOUS
  <2>3. no \in BOOLEAN /\ ~no /\ s \in SessionPhases /\ s # "open"
    BY DEF SessionPhases
  <2> HIDE DEF no, s, none
  <2>4. ArmedAt(none, no)[zero] = no
    <3>1. \A keys \in Seq(Keys), lead \in BOOLEAN : ArmedAt(keys, lead)[0] = lead
      BY ArmedAtUnfolds
    <3>2. ArmedAt(none, no)[0] = no
      BY <2>2, <2>3, <3>1
    <3> QED BY <3>2
  <2> HIDE DEF zero
  <2>5. Sending(none, none, no, no, no)
    BY <2>1, <2>2, <2>3, <2>4 DEF Sending, no
  <2>6. Flowing(s, none, none, none, none)
    BY <2>2, <2>3 DEF Flowing
  <2>7. ASSUME NEW c \in Clients PROVE Flow(c)
    <3>1. /\ at[c] = s /\ typed[c] = none /\ fed[c] = none /\ got[c] = none /\ sent[c] = none
          /\ wire[c] = none /\ armed[c] = no /\ gone[c] = no /\ carried[c] = no
      BY DEF SessionInit, no, s, none
    <3> QED BY <2>5, <2>6, <3>1 DEF Flow
  <2> QED BY <2>7 DEF FlowInv, SessionInit
<1>2. FlowInv => InputIntact
  <2> SUFFICES ASSUME FlowInv, NEW c \in Clients, ~torn[c]
               PROVE  \/ IsPrefix(fed[c], Meant(typed[c]))
                      \/ carried[c] /\ \E i \in 1..Len(Meant(typed[c])) + 1 :
                           IsPrefix(fed[c], InsertAt(Meant(typed[c]), i, Lead))
    BY DEF InputIntact
  <2>1. /\ sent[c] \in Seq(Keys) /\ fed[c] \in Seq(Keys)
        /\ Len(fed[c]) <= Len(sent[c]) /\ fed[c] = SubSeq(sent[c], 1, Len(fed[c]))
    BY DEF FlowInv, Flow, Flowing
  <2>2. \/ sent[c] = Meant(typed[c])
        \/ carried[c] /\ \E i \in 1..Len(Meant(typed[c])) + 1 :
                           sent[c] = InsertAt(Meant(typed[c]), i, Lead)
    BY DEF FlowInv, Flow, Sending
  <2>3. SubSeq(fed[c], 1, Len(fed[c])) = fed[c]
    BY <2>1
  <2>4. IsPrefix(fed[c], sent[c])
    BY <2>1, <2>3 DEF IsPrefix
  <2> QED BY <2>2, <2>4
<1> QED BY <1>1, <1>2, FlowStep, PTL DEF SessionSpec

(***************************************************************************)
(* OutputLog: what is shown, and when.                                     *)
(***************************************************************************)

Ends == LineEnds \cup {"cr", "nl", "crnl"}

Lines == [proc : Outputs, n : Int, seq : Int, end : Ends, transient : BOOLEAN]

ProcEvents ==
  [kind : {"line"}, line : Lines] \cup [kind : {"exited"}, proc : Outputs] \cup [kind : {"flush"}]

IsLine(e, p)   == e.kind = "line" /\ e.line.proc = p
IsExited(e, p) == e.kind = "exited" /\ e.proc = p

OutputTypeOK ==
  /\ alive \in [Outputs -> BOOLEAN] /\ wrote \in [Outputs -> Nat]
  /\ pty \in [Outputs -> Seq(Ends)] /\ nextSeq \in Int
  /\ inHand \in [Outputs -> Seq(Lines)] /\ reported \in [Outputs -> BOOLEAN]
  /\ \A p \in Outputs : inHand[p] # <<>> => inHand[p][1].proc = p
  /\ events \in Seq(ProcEvents)
  /\ finished \subseteq Outputs
  /\ pending \in [Outputs -> Seq(Int)] /\ shownLines \in [Outputs -> Seq(Int)]
  /\ ending \in {"runs", "reports", "flush", "ended"}

(* A child whose exit is reported has nothing left to be read.             *)
ReportedIsRead == \A p \in Outputs : reported[p] => Eof(p)

(* An exit is reported once, and its report is behind the lines.           *)
ExitsLast ==
  \A p \in Outputs :
    /\ reported[p] <=> p \in finished \/ \E i \in DOMAIN events : IsExited(events[i], p)
    /\ \A i \in DOMAIN events : IsLine(events[i], p) =>
         p \notin finished /\ \A j \in DOMAIN events : IsExited(events[j], p) => i < j
    /\ p \in finished => pending[p] = <<>>

(* And the end of the run is behind the reports.                           *)
FlushLast ==
  /\ ending \in {"flush", "ended"} => \A p \in Outputs : reported[p]
  /\ \A i \in DOMAIN events : events[i].kind = "flush" => i = Len(events) /\ ending = "flush"
  /\ ending = "ended" => events = <<>>

OutputInv == OutputTypeOK /\ ReportedIsRead /\ ExitsLast /\ FlushLast

LEMMA OutputInit == LogInit => OutputInv
<1> SUFFICES ASSUME LogInit PROVE OutputInv
  OBVIOUS
<1> USE DEF LogInit
<1>1. OutputTypeOK
  BY DEF OutputTypeOK
<1>2. ReportedIsRead /\ ExitsLast /\ FlushLast
  BY DEF ReportedIsRead, ExitsLast, FlushLast
<1> QED BY <1>1, <1>2 DEF OutputInv

(* What the child, its reader and the pump leave alone.                    *)
LEMMA ReaderStep ==
  ASSUME OutputInv, NEW p \in Outputs, (\E end \in LineEnds : Writes(p, end)) \/ ChildExits(p) \/ Emits(p)
  PROVE  OutputInv'
<1>1. UNCHANGED <<reported, events, pending, shownLines, finished, ending>>
  BY DEF Writes, ChildExits, Emits, reportVars
<1>2. ExitsLast' /\ FlushLast'
  BY <1>1 DEF OutputInv, ExitsLast, FlushLast, IsLine, IsExited
<1>3. CASE \E end \in LineEnds : Writes(p, end)
  <2>1. PICK end \in LineEnds : Writes(p, end)
    BY <1>3
  <2>2. OutputTypeOK'
    <3>1. pty' \in [Outputs -> Seq(Ends)] /\ wrote' \in [Outputs -> Nat]
      BY <2>1, SMTT(30) DEF OutputInv, OutputTypeOK, Writes, Ends
    <3> QED BY <1>1, <2>1, <3>1 DEF OutputInv, OutputTypeOK, Writes
  <2>3. ASSUME NEW q \in Outputs, reported[q] PROVE q # p /\ Eof(q)'
    BY <2>1, <2>3 DEF OutputInv, OutputTypeOK, ReportedIsRead, Eof, Writes
  <2> QED BY <1>1, <1>2, <2>2, <2>3 DEF OutputInv, ReportedIsRead
<1>4. CASE ChildExits(p)
  <2>1. OutputTypeOK'
    BY <1>1, <1>4 DEF OutputInv, OutputTypeOK, ChildExits
  <2>2. ASSUME NEW q \in Outputs, reported[q] PROVE Eof(q)'
    BY <1>4, <2>2 DEF OutputInv, OutputTypeOK, ReportedIsRead, Eof, ChildExits
  <2> QED BY <1>1, <1>2, <2>1, <2>2 DEF OutputInv, ReportedIsRead
<1>5. CASE Emits(p)
  <2> DEFINE line == Line(p, wrote[p] - Len(pty[p]) + 1, nextSeq, Head(pty[p]))
  <2>1. line \in Lines /\ line.proc = p
    BY <1>5 DEF OutputInv, OutputTypeOK, Emits, Line, Lines
  <2>2. inHand' = [inHand EXCEPT ![p] = <<line>>]
    BY <1>5 DEF Emits
  <2> HIDE DEF line
  <2>3. OutputTypeOK'
    <3>1. pty' \in [Outputs -> Seq(Ends)] /\ nextSeq' \in Int
      BY <1>5 DEF OutputInv, OutputTypeOK, Emits
    <3>2. inHand' \in [Outputs -> Seq(Lines)]
      BY <2>1, <2>2 DEF OutputInv, OutputTypeOK
    <3>3. \A q \in Outputs : inHand'[q] # <<>> => inHand'[q][1].proc = q
      BY <2>1, <2>2 DEF OutputInv, OutputTypeOK
    <3>4. UNCHANGED <<alive, wrote>>
      BY <1>5 DEF Emits
    <3> QED BY <1>1, <3>1, <3>2, <3>3, <3>4 DEF OutputInv, OutputTypeOK
  <2>4. ASSUME NEW q \in Outputs, reported[q] PROVE Eof(q)'
    BY <1>5, <2>4 DEF OutputInv, OutputTypeOK, ReportedIsRead, Eof, Emits
  <2> QED BY <1>1, <1>2, <2>3, <2>4 DEF OutputInv, ReportedIsRead
<1> QED BY <1>3, <1>4, <1>5

(* A line is sent before its child's exit is reported.                     *)
LEMMA SendStep ==
  ASSUME OutputInv, NEW p \in Outputs, Sends(p)
  PROVE  OutputInv'
<1> DEFINE e == [kind |-> "line", line |-> inHand[p][1]]
           len == Len(events)
<1>1. UNCHANGED <<alive, wrote, pty, nextSeq, reported, pending, shownLines, finished, ending>>
  BY DEF Sends, reportVars
<1>2. inHand[p] # <<>> /\ inHand' = [inHand EXCEPT ![p] = <<>>] /\ events' = Append(events, e)
  BY DEF Sends
<1>3. e \in ProcEvents /\ e.kind = "line" /\ e.line.proc = p
  BY <1>2 DEF OutputInv, OutputTypeOK, ProcEvents
<1> HIDE DEF e
<1>4. events \in Seq(ProcEvents) /\ len \in Nat
  BY DEF OutputInv, OutputTypeOK
<1>5. OutputTypeOK'
  <2>1. events' \in Seq(ProcEvents)
    BY <1>2, <1>3, <1>4
  <2>2. inHand' \in [Outputs -> Seq(Lines)] /\ \A q \in Outputs : inHand'[q] # <<>> => inHand'[q][1].proc = q
    BY <1>2 DEF OutputInv, OutputTypeOK
  <2> QED BY <1>1, <2>1, <2>2 DEF OutputInv, OutputTypeOK
<1>6. ~reported[p]
  BY <1>2 DEF OutputInv, ReportedIsRead, Eof
<1>7. ReportedIsRead'
  BY <1>1, <1>2 DEF OutputInv, OutputTypeOK, ReportedIsRead, Eof
<1>8. /\ DOMAIN events' = 1..(len + 1) /\ Len(events') = len + 1 /\ events'[len + 1] = e
      /\ DOMAIN events = 1..len /\ \A i \in DOMAIN events : events'[i] = events[i]
  BY <1>2, <1>3, <1>4
<1>9. ASSUME NEW q \in Outputs
      PROVE  /\ reported'[q] <=> q \in finished' \/ \E i \in DOMAIN events' : IsExited(events'[i], q)
             /\ \A i \in DOMAIN events' : IsLine(events'[i], q) =>
                  q \notin finished' /\ \A j \in DOMAIN events' : IsExited(events'[j], q) => i < j
             /\ q \in finished' => pending'[q] = <<>>
  <2>1. \A i \in DOMAIN events : (IsExited(events'[i], q) <=> IsExited(events[i], q))
                             /\ (IsLine(events'[i], q) <=> IsLine(events[i], q))
    BY <1>8 DEF IsExited, IsLine
  <2>2. ~IsExited(events'[len + 1], q) /\ (IsLine(events'[len + 1], q) <=> p = q)
    BY <1>3, <1>8 DEF IsExited, IsLine
  <2>3. \A i \in DOMAIN events' : i \in DOMAIN events \/ i = len + 1
    BY <1>4, <1>8
  <2> QED BY <1>1, <1>4, <1>6, <1>8, <2>1, <2>2, <2>3 DEF OutputInv, ExitsLast
<1>10. FlushLast'
  <2>1. ending \notin {"flush", "ended"}
    BY <1>6 DEF OutputInv, FlushLast
  <2>2. ASSUME NEW i \in DOMAIN events', events'[i].kind = "flush" PROVE FALSE
    BY <1>3, <1>4, <1>8, <2>1, <2>2 DEF OutputInv, FlushLast
  <2> QED BY <1>1, <2>1, <2>2 DEF FlushLast
<1> QED BY <1>5, <1>7, <1>9, <1>10 DEF OutputInv, ExitsLast

(* The report of an exit comes when there is nothing left to be read, and  *)
(* may have one more line before it.                                       *)
LEMMA ReportStep ==
  ASSUME Patient, OutputInv, NEW p \in Outputs, Reports(p)
  PROVE  OutputInv'
<1> DEFINE note == [kind |-> "line", line |-> Line(p, 0, nextSeq, "nl")]
           exit == [kind |-> "exited", proc |-> p]
           len == Len(events)
<1>1. UNCHANGED <<alive, wrote, pty, inHand, pending, shownLines, finished, ending>>
  BY DEF Reports, reportVars
<1>2. ~reported[p] /\ Eof(p) /\ reported' = [reported EXCEPT ![p] = TRUE]
  BY DEF Reports
<1>3. nextSeq \in Int /\ nextSeq' \in Int
  BY DEF OutputInv, OutputTypeOK, Reports
<1>4. /\ note \in ProcEvents /\ IsLine(note, p) /\ note.kind = "line" /\ note.line.proc = p
      /\ exit \in ProcEvents /\ IsExited(exit, p) /\ exit.kind = "exited" /\ exit.proc = p
  BY <1>3 DEF ProcEvents, Lines, Line, Ends, IsLine, IsExited
<1>5. events' = (events \o <<>>) \o <<exit>> \/ events' = (events \o <<note>>) \o <<exit>>
  BY DEF Reports
<1> HIDE DEF note, exit
<1>6. events \in Seq(ProcEvents) /\ len \in Nat /\ DOMAIN events = 1..len
  BY DEF OutputInv, OutputTypeOK
<1>7. PICK top \in {len + 1, len + 2} :
        /\ events' \in Seq(ProcEvents) /\ Len(events') = top /\ DOMAIN events' = 1..top
        /\ events'[top] = exit /\ (top = len + 2 => events'[len + 1] = note)
        /\ \A i \in DOMAIN events : events'[i] = events[i]
  <2>1. CASE events' = (events \o <<>>) \o <<exit>>
    <3>1. events \o <<>> = events
      BY <1>6
    <3> QED BY <1>4, <1>6, <2>1, <3>1
  <2>2. CASE events' = (events \o <<note>>) \o <<exit>>
    <3> DEFINE noted == events \o <<note>>
    <3>1. /\ noted \in Seq(ProcEvents) /\ Len(noted) = len + 1 /\ noted[len + 1] = note
          /\ \A i \in DOMAIN events : noted[i] = events[i]
      BY <1>4, <1>6
    <3>2. events' = noted \o <<exit>>
      BY <2>2
    <3> HIDE DEF noted
    <3> QED BY <1>4, <1>6, <3>1, <3>2
  <2> QED BY <1>5, <2>1, <2>2
<1>8. \A i \in DOMAIN events' : i \in DOMAIN events \/ i = top \/ (i = len + 1 /\ top = len + 2)
  BY <1>6, <1>7
<1>9. OutputTypeOK'
  <2>1. reported' \in [Outputs -> BOOLEAN]
    BY <1>2 DEF OutputInv, OutputTypeOK
  <2> QED BY <1>1, <1>3, <1>7, <2>1 DEF OutputInv, OutputTypeOK
<1>10. ReportedIsRead'
  BY <1>1, <1>2 DEF OutputInv, OutputTypeOK, ReportedIsRead, Eof
<1>11. ASSUME NEW q \in Outputs
       PROVE  /\ reported'[q] <=> q \in finished' \/ \E i \in DOMAIN events' : IsExited(events'[i], q)
              /\ \A i \in DOMAIN events' : IsLine(events'[i], q) =>
                   q \notin finished' /\ \A j \in DOMAIN events' : IsExited(events'[j], q) => i < j
              /\ q \in finished' => pending'[q] = <<>>
  <2>1. \A i \in DOMAIN events : events'[i] = events[i] /\ i \in 1..len /\ i \in DOMAIN events'
    BY <1>6, <1>7
  <2>2. /\ top \in DOMAIN events' /\ len < top
        /\ IsExited(events'[top], q) <=> p = q
        /\ ~IsLine(events'[top], q)
    BY <1>4, <1>6, <1>7 DEF IsExited, IsLine
  <2>3. top = len + 2 => ~IsExited(events'[len + 1], q) /\ (IsLine(events'[len + 1], q) <=> p = q)
    BY <1>4, <1>7 DEF IsExited, IsLine
  <2>4. CASE p # q
    <3>1. \A i \in DOMAIN events' : IsExited(events'[i], q) \/ IsLine(events'[i], q)
                                     => i \in DOMAIN events
      BY <1>8, <2>2, <2>3, <2>4
    <3>2. reported'[q] <=> reported[q]
      BY <1>2, <2>4 DEF OutputInv, OutputTypeOK
    <3> QED BY <1>1, <2>1, <3>1, <3>2 DEF OutputInv, ExitsLast
  <2>5. CASE p = q
    <3>1. p \notin finished /\ \A i \in DOMAIN events : ~IsExited(events[i], p)
      BY <1>2 DEF OutputInv, ExitsLast
    <3>2. \A i \in DOMAIN events' : IsExited(events'[i], q) => i = top
      BY <1>8, <2>1, <2>3, <2>5, <3>1
    <3>3. \A i \in DOMAIN events' : IsLine(events'[i], q) => i < top
      BY <1>6, <1>8, <2>1, <2>2
    <3>4. reported'[q]
      BY <1>2, <2>5 DEF OutputInv, OutputTypeOK
    <3> QED BY <1>1, <2>2, <2>5, <3>1, <3>2, <3>3, <3>4
  <2> QED BY <2>4, <2>5
<1>12. FlushLast'
  <2>1. ending \notin {"flush", "ended"}
    BY <1>2 DEF OutputInv, FlushLast
  <2>2. ASSUME NEW i \in DOMAIN events', events'[i].kind = "flush" PROVE FALSE
    <3>1. i \in DOMAIN events
      BY <1>4, <1>7, <1>8, <2>2
    <3> QED BY <1>7, <2>1, <2>2, <3>1 DEF OutputInv, FlushLast
  <2> QED BY <1>1, <2>1, <2>2 DEF FlushLast
<1> QED BY <1>9, <1>10, <1>11, <1>12 DEF OutputInv, ExitsLast

(* The pump handles the oldest event; what an exit finds held back is all. *)
LEMMA PumpStep ==
  ASSUME OutputInv, PumpsEvent
  PROVE  OutputInv'
<1> DEFINE ev == Head(events)
           len == Len(events)
<1>1. UNCHANGED <<alive, wrote, pty, nextSeq, inHand, reported>>
  BY DEF PumpsEvent, readVars
<1>2. events # <<>> /\ events' = Tail(events) /\ events \in Seq(ProcEvents)
  BY DEF PumpsEvent, OutputInv, OutputTypeOK
<1>3. /\ len \in Nat /\ len # 0 /\ DOMAIN events = 1..len /\ ev = events[1] /\ 1 \in DOMAIN events
      /\ ev \in ProcEvents /\ events' \in Seq(ProcEvents)
      /\ Len(events') = len - 1 /\ DOMAIN events' = 1..(len - 1)
  BY <1>2
<1>4. \A i \in DOMAIN events' : i + 1 \in DOMAIN events /\ events'[i] = events[i + 1]
  BY <1>2, <1>3
<1>5. \A i \in DOMAIN events : i = 1 \/ (i - 1 \in DOMAIN events' /\ events'[i - 1] = events[i])
  BY <1>2, <1>3
<1>6. \/ /\ ev.kind = "line" /\ HoldLine(ev.line) /\ ending' = ending
      \/ ev.kind = "exited" /\ Finish(ev.proc) /\ ending' = ending
      \/ ev.kind = "flush" /\ ending' = "ended" /\ UNCHANGED reportVars
  BY DEF PumpsEvent
<1> HIDE DEF ev
<1>7. ReportedIsRead'
  BY <1>1 DEF OutputInv, ReportedIsRead, Eof
<1>8. CASE ev.kind = "line"
  <2>1. /\ ev.line.proc \in Outputs /\ ev.line.n \in Int /\ ending' = ending
        /\ UNCHANGED <<shownLines, finished>>
        /\ pending' = [pending EXCEPT ![ev.line.proc] = Append(@, ev.line.n)]
    BY <1>3, <1>6, <1>8 DEF ProcEvents, Lines, HoldLine
  <2>2. OutputTypeOK'
    <3>1. pending' \in [Outputs -> Seq(Int)]
      BY <2>1 DEF OutputInv, OutputTypeOK
    <3> QED BY <1>1, <1>3, <2>1, <3>1 DEF OutputInv, OutputTypeOK
  <2>3. ASSUME NEW q \in Outputs
        PROVE  /\ reported'[q] <=> q \in finished' \/ \E i \in DOMAIN events' : IsExited(events'[i], q)
               /\ \A i \in DOMAIN events' : IsLine(events'[i], q) =>
                    q \notin finished' /\ \A j \in DOMAIN events' : IsExited(events'[j], q) => i < j
               /\ q \in finished' => pending'[q] = <<>>
    <3>1. ~IsExited(events[1], q)
      BY <1>3, <1>8 DEF IsExited
    <3>2. (\E i \in DOMAIN events' : IsExited(events'[i], q)) <=> \E i \in DOMAIN events : IsExited(events[i], q)
      BY <1>4, <1>5, <3>1
    <3>3. ev.line.proc \notin finished
      BY <1>3, <1>8, <2>1 DEF OutputInv, ExitsLast, IsLine
    <3>4. q \in finished => pending'[q] = <<>>
      BY <2>1, <3>3 DEF OutputInv, OutputTypeOK, ExitsLast
    <3>5. ASSUME NEW i \in DOMAIN events', IsLine(events'[i], q)
          PROVE  q \notin finished /\ \A j \in DOMAIN events' : IsExited(events'[j], q) => i < j
      <4>1. q \notin finished /\ \A j \in DOMAIN events : IsExited(events[j], q) => i + 1 < j
        BY <1>4, <3>5 DEF OutputInv, ExitsLast
      <4> QED BY <1>3, <1>4, <4>1
    <3> QED BY <1>1, <2>1, <3>2, <3>4, <3>5 DEF OutputInv, ExitsLast
  <2>4. FlushLast'
    <3>1. ending # "ended"
      BY <1>2 DEF OutputInv, FlushLast
    <3>2. ASSUME NEW i \in DOMAIN events', events'[i].kind = "flush"
          PROVE  i = Len(events') /\ ending = "flush"
      BY <1>3, <1>4, <3>2 DEF OutputInv, FlushLast
    <3> QED BY <1>1, <2>1, <3>1, <3>2 DEF OutputInv, FlushLast
  <2> QED BY <1>7, <2>2, <2>3, <2>4 DEF OutputInv, ExitsLast
<1>9. CASE ev.kind = "exited"
  <2> DEFINE p == ev.proc
  <2>1. /\ p \in Outputs /\ ending' = ending /\ finished' = finished \cup {p}
        /\ shownLines' = [shownLines EXCEPT ![p] = @ \o pending[p]]
        /\ pending' = [pending EXCEPT ![p] = <<>>]
    BY <1>3, <1>6, <1>9 DEF ProcEvents, Finish
  <2>2. IsExited(events[1], p) /\ \A q \in Outputs : IsExited(events[1], q) => p = q
    BY <1>3, <1>9 DEF IsExited
  <2> HIDE DEF p
  <2>3. OutputTypeOK'
    <3>1. pending' \in [Outputs -> Seq(Int)] /\ shownLines' \in [Outputs -> Seq(Int)]
      BY <2>1 DEF OutputInv, OutputTypeOK
    <3> QED BY <1>1, <1>3, <2>1, <3>1 DEF OutputInv, OutputTypeOK
  <2>4. ASSUME NEW q \in Outputs
        PROVE  /\ reported'[q] <=> q \in finished' \/ \E i \in DOMAIN events' : IsExited(events'[i], q)
               /\ \A i \in DOMAIN events' : IsLine(events'[i], q) =>
                    q \notin finished' /\ \A j \in DOMAIN events' : IsExited(events'[j], q) => i < j
               /\ q \in finished' => pending'[q] = <<>>
    <3>1. ASSUME NEW i \in DOMAIN events', IsLine(events'[i], q)
          PROVE  q \notin finished' /\ \A j \in DOMAIN events' : IsExited(events'[j], q) => i < j
      <4>1. q \notin finished /\ \A j \in DOMAIN events : IsExited(events[j], q) => i + 1 < j
        BY <1>4, <3>1 DEF OutputInv, ExitsLast
      <4>2. p # q
        BY <1>3, <2>2, <4>1
      <4>3. \A j \in DOMAIN events' : IsExited(events'[j], q) => i + 1 < j + 1
        BY <1>4, <4>1
      <4> QED BY <1>3, <2>1, <4>1, <4>2, <4>3
    <3>2. reported[q] <=> q \in finished \/ \E i \in DOMAIN events : IsExited(events[i], q)
      BY DEF OutputInv, ExitsLast
    <3>3. (\E i \in DOMAIN events : IsExited(events[i], q)) <=>
            IsExited(events[1], q) \/ \E i \in DOMAIN events' : IsExited(events'[i], q)
      BY <1>3, <1>4, <1>5
    <3>4. IsExited(events[1], q) <=> p = q
      BY <2>2
    <3>5. reported'[q] <=> q \in finished' \/ \E i \in DOMAIN events' : IsExited(events'[i], q)
      BY <1>1, <2>1, <3>2, <3>3, <3>4
    <3>6. q \in finished' => pending'[q] = <<>>
      BY <2>1 DEF OutputInv, OutputTypeOK, ExitsLast
    <3> QED BY <3>1, <3>5, <3>6
  <2>5. FlushLast'
    <3>1. ending # "ended"
      BY <1>2 DEF OutputInv, FlushLast
    <3>2. ASSUME NEW i \in DOMAIN events', events'[i].kind = "flush"
          PROVE  i = Len(events') /\ ending = "flush"
      BY <1>3, <1>4, <3>2 DEF OutputInv, FlushLast
    <3> QED BY <1>1, <2>1, <3>1, <3>2 DEF OutputInv, FlushLast
  <2> QED BY <1>7, <2>3, <2>4, <2>5 DEF OutputInv, ExitsLast
<1>10. CASE ev.kind = "flush"
  <2>1. ending' = "ended" /\ UNCHANGED <<pending, shownLines, finished>>
    BY <1>6, <1>10 DEF reportVars
  <2>2. len = 1 /\ ending = "flush"
    BY <1>3, <1>10 DEF OutputInv, FlushLast
  <2>3. events' = <<>>
    BY <1>2, <1>3, <2>2
  <2>4. OutputTypeOK'
    BY <1>1, <1>3, <2>1 DEF OutputInv, OutputTypeOK
  <2>5. FlushLast'
    BY <1>1, <2>1, <2>2, <2>3 DEF OutputInv, FlushLast
  <2>6. ExitsLast'
    <3>1. \A q \in Outputs : ~IsExited(events[1], q)
      BY <1>3, <1>10 DEF IsExited
    <3>2. \A q \in Outputs : reported[q] <=> q \in finished
      BY <1>3, <2>2, <3>1 DEF OutputInv, ExitsLast
    <3>3. DOMAIN events' = {}
      BY <2>3
    <3> QED BY <1>1, <2>1, <3>2, <3>3 DEF OutputInv, ExitsLast
  <2> QED BY <1>7, <2>4, <2>5, <2>6 DEF OutputInv
<1> QED BY <1>6, <1>8, <1>9, <1>10

(* The end of the run: it waits for the reports, then for the queue.       *)
LEMMA EndStep ==
  ASSUME Patient, OutputInv, Follows \/ RunDone \/ OutputRead
  PROVE  OutputInv'
<1>1. UNCHANGED <<readVars, reportVars>>
  BY DEF Follows, RunDone, OutputRead
<1>2. ReportedIsRead'
  BY <1>1 DEF OutputInv, ReportedIsRead, Eof, readVars
<1>3. CASE Follows \/ RunDone
  <2>1. events' = events
    BY <1>3 DEF Follows, RunDone
  <2>2. ending' = ending \/ (ending = "runs" /\ ending' = "reports")
    BY <1>3 DEF Follows, RunDone
  <2>3. OutputTypeOK'
    BY <1>1, <2>1, <2>2 DEF OutputInv, OutputTypeOK, readVars, reportVars
  <2>4. ExitsLast' /\ FlushLast'
    BY <1>1, <2>1, <2>2 DEF OutputInv, ExitsLast, FlushLast, readVars, reportVars
  <2> QED BY <1>2, <2>3, <2>4 DEF OutputInv
<1>4. CASE OutputRead
  <2> DEFINE e == [kind |-> "flush"]
             len == Len(events)
  <2>1. ending = "reports" /\ ending' = "flush" /\ events' = Append(events, e)
    BY <1>4 DEF OutputRead
  <2>2. \A q \in Outputs : reported[q]
    BY <1>4 DEF OutputRead, Unreported
  <2>3. e \in ProcEvents /\ \A q \in Outputs : ~IsLine(e, q) /\ ~IsExited(e, q)
    BY DEF ProcEvents, IsLine, IsExited
  <2> HIDE DEF e
  <2>4. events \in Seq(ProcEvents) /\ len \in Nat /\ DOMAIN events = 1..len
    BY DEF OutputInv, OutputTypeOK
  <2>5. /\ events' \in Seq(ProcEvents) /\ DOMAIN events' = 1..(len + 1) /\ Len(events') = len + 1
        /\ events'[len + 1] = e /\ \A i \in DOMAIN events : events'[i] = events[i]
    BY <2>1, <2>3, <2>4
  <2>6. \A i \in DOMAIN events' : i \in DOMAIN events \/ i = len + 1
    BY <2>4, <2>5
  <2>7. \A i \in DOMAIN events : i \in DOMAIN events'
    BY <2>4, <2>5
  <2>8. OutputTypeOK'
    BY <1>1, <2>1, <2>5 DEF OutputInv, OutputTypeOK, readVars, reportVars
  <2>9. ASSUME NEW q \in Outputs
        PROVE  /\ reported'[q] <=> q \in finished' \/ \E i \in DOMAIN events' : IsExited(events'[i], q)
               /\ \A i \in DOMAIN events' : IsLine(events'[i], q) =>
                    q \notin finished' /\ \A j \in DOMAIN events' : IsExited(events'[j], q) => i < j
               /\ q \in finished' => pending'[q] = <<>>
    <3>1. \A i \in DOMAIN events' : IsExited(events'[i], q) \/ IsLine(events'[i], q)
                                      => i \in DOMAIN events /\ events'[i] = events[i]
      BY <2>3, <2>5, <2>6
    <3>2. UNCHANGED <<reported, finished, pending>>
      BY <1>1 DEF readVars, reportVars
    <3> QED BY <2>5, <2>7, <3>1, <3>2 DEF OutputInv, ExitsLast
  <2>10. FlushLast'
    <3>1. ASSUME NEW i \in DOMAIN events, events[i].kind = "flush" PROVE FALSE
      BY <2>1, <3>1 DEF OutputInv, FlushLast
    <3>2. reported' = reported
      BY <1>1 DEF readVars
    <3> QED BY <2>1, <2>2, <2>5, <2>6, <3>1, <3>2 DEF FlushLast
  <2> QED BY <1>2, <2>8, <2>9, <2>10 DEF OutputInv, ExitsLast
<1> QED BY <1>3, <1>4

LEMMA OutputStep ==
  ASSUME Patient, OutputInv, [LogNext]_outputVars
  PROVE  OutputInv'
<1>1. CASE UNCHANGED outputVars
  <2>1. UNCHANGED <<alive, wrote, pty, nextSeq, inHand, reported, events, pending, shownLines, finished, ending>>
    BY <1>1 DEF outputVars, readVars, reportVars
  <2>2. OutputTypeOK'
    BY <2>1 DEF OutputInv, OutputTypeOK
  <2>3. ReportedIsRead'
    BY <2>1 DEF OutputInv, ReportedIsRead, Eof
  <2>4. ExitsLast' /\ FlushLast'
    BY <2>1 DEF OutputInv, ExitsLast, FlushLast
  <2> QED BY <2>2, <2>3, <2>4 DEF OutputInv
<1>2. CASE LogNext
  BY <1>2, ReaderStep, SendStep, ReportStep, PumpStep, EndStep DEF LogNext
<1> QED BY <1>1, <1>2

(* Where no wait for output is cut short, a run that has ended has shown   *)
(* every line of every child: the exits are reported behind the lines, and *)
(* the run's end is behind the exits.                                      *)
THEOREM RunShowsEverything == ASSUME Patient PROVE LogSpec => []RunShowsAll
<1>1. OutputInv => RunShowsAll
  <2> SUFFICES ASSUME OutputInv, ending = "ended", NEW p \in Outputs
               PROVE  p \in finished /\ pending[p] = <<>>
    BY DEF RunShowsAll
  <2>1. events = <<>> /\ reported[p]
    BY DEF OutputInv, FlushLast
  <2>2. DOMAIN events = {}
    BY <2>1
  <2> QED BY <2>1, <2>2 DEF OutputInv, ExitsLast
<1> QED BY <1>1, OutputInit, OutputStep, PTL DEF LogSpec

-----------------------------------------------------------------------------
(* Lines a process has written that its reader has sent, or is not to send. *)
SentBy(p) == wrote[p] - Len(pty[p]) - Len(inHand[p])

Plain(e, p)  == IsLine(e, p) /\ e.line.n # 0
Notice(e, p) == IsLine(e, p) /\ e.line.n = 0

(* What is in the reader's hand is the next to be sent.                    *)
NextInHand(p) ==
  /\ Len(inHand[p]) <= 1 /\ SentBy(p) >= 0
  /\ inHand[p] # <<>> => inHand[p][1].n = SentBy(p) + 1

(* The first lines are held back, and the others that were sent are queued *)
(* in order; the notice of a death is behind them.                         *)
Held(p) ==
  /\ pending[p] = Numbers(Len(pending[p])) /\ Len(pending[p]) <= SentBy(p)
  /\ \A i \in DOMAIN events :
       Plain(events[i], p) => Len(pending[p]) < events[i].line.n /\ events[i].line.n <= SentBy(p)
  /\ \A i, j \in DOMAIN events :
       Plain(events[i], p) /\ Plain(events[j], p) /\ i < j => events[i].line.n < events[j].line.n
  /\ \A k \in (Len(pending[p]) + 1)..SentBy(p) :
       \E i \in DOMAIN events : Plain(events[i], p) /\ events[i].line.n = k
  /\ \A i \in DOMAIN events : Notice(events[i], p) =>
       reported[p] /\ \A j \in DOMAIN events : IsLine(events[j], p) => j <= i

HeldWithNotice(p) ==
  /\ reported[p] /\ pending[p] = Append(Numbers(wrote[p]), 0)
  /\ \A i \in DOMAIN events : ~IsLine(events[i], p)

Told(p) ==
  /\ NextInHand(p)
  /\ p \notin finished => shownLines[p] = <<>> /\ (Held(p) \/ HeldWithNotice(p))
  /\ p \in finished => shownLines[p] \in {Numbers(wrote[p]), Append(Numbers(wrote[p]), 0)}

GroupInv == OutputInv /\ \A p \in Outputs : Told(p)

LEMMA SentIsInt ==
  ASSUME OutputTypeOK, NEW p \in Outputs
  PROVE  /\ SentBy(p) \in Int /\ Len(pty[p]) \in Nat /\ Len(inHand[p]) \in Nat /\ wrote[p] \in Nat
         /\ Len(pending[p]) \in Nat
         /\ \A i \in DOMAIN events : i \in Nat /\ (events[i].kind = "line" => events[i].line.n \in Int)
<1>1. pty[p] \in Seq(Ends) /\ inHand[p] \in Seq(Lines) /\ wrote[p] \in Nat /\ pending[p] \in Seq(Int)
  BY DEF OutputTypeOK
<1>2. events \in Seq(ProcEvents)
  BY DEF OutputTypeOK
<1>3. \A e \in ProcEvents : e.kind = "line" => e.line.n \in Int
  BY DEF ProcEvents, Lines
<1> QED BY <1>1, <1>2, <1>3 DEF SentBy

(* All that matters of the queue is where the process's own lines are.     *)
LEMMA HeldStays ==
  ASSUME OutputTypeOK, OutputTypeOK', NEW p \in Outputs, NEW d \in {0, 1}, Held(p),
         \A i \in DOMAIN events : IsLine(events[i], p) =>
            i - d \in DOMAIN events' /\ events'[i - d] = events[i],
         \A i \in DOMAIN events' : IsLine(events'[i], p) =>
            i + d \in DOMAIN events /\ events[i + d] = events'[i],
         pending'[p] = pending[p], SentBy(p)' = SentBy(p), reported[p] => reported'[p]
  PROVE  Held(p)'
<1> DEFINE upTo == SentBy(p)
           held == Len(pending[p])
<1>1. SentBy(p)' = upTo /\ upTo \in Int /\ held \in Nat
  BY SentIsInt
<1>2. \A i \in DOMAIN events : i \in Nat
  BY SentIsInt
<1>3. \A i \in DOMAIN events' : i \in Nat
  <2>1. events' \in Seq(ProcEvents)
    BY DEF OutputTypeOK
  <2> QED BY <2>1
<1> HIDE DEF upTo
<1>4. \A i \in DOMAIN events' : Plain(events'[i], p) =>
         held < events'[i].line.n /\ events'[i].line.n <= upTo
  BY DEF Held, Plain, upTo
<1>5. ASSUME NEW i \in DOMAIN events', NEW j \in DOMAIN events',
             Plain(events'[i], p), Plain(events'[j], p), i < j
      PROVE  events'[i].line.n < events'[j].line.n
  <2>1. i + d < j + d
    BY <1>3, <1>5
  <2> QED BY <1>5, <2>1 DEF Held, Plain
<1>6. ASSUME NEW k \in (held + 1)..upTo
      PROVE  \E i \in DOMAIN events' : Plain(events'[i], p) /\ events'[i].line.n = k
  BY <1>6 DEF Held, Plain, upTo
<1>7. ASSUME NEW i \in DOMAIN events', Notice(events'[i], p)
      PROVE  reported'[p] /\ \A j \in DOMAIN events' : IsLine(events'[j], p) => j <= i
  <2>1. reported[p] /\ \A j \in DOMAIN events : IsLine(events[j], p) => j <= i + d
    BY <1>7 DEF Held, Notice
  <2>2. ASSUME NEW j \in DOMAIN events', IsLine(events'[j], p) PROVE j <= i
    <3>1. j + d <= i + d
      BY <2>1, <2>2
    <3> QED BY <1>3, <3>1
  <2> QED BY <2>1, <2>2
<1> QED BY <1>1, <1>4, <1>5, <1>6, <1>7 DEF Held, upTo

LEMMA ToldStays ==
  ASSUME OutputTypeOK, OutputTypeOK', NEW p \in Outputs, NEW d \in {0, 1}, Told(p),
         \A i \in DOMAIN events : IsLine(events[i], p) =>
            i - d \in DOMAIN events' /\ events'[i - d] = events[i],
         \A i \in DOMAIN events' : IsLine(events'[i], p) =>
            i + d \in DOMAIN events /\ events[i + d] = events'[i],
         pending'[p] = pending[p], shownLines'[p] = shownLines[p], p \in finished' <=> p \in finished,
         SentBy(p)' = SentBy(p), reported[p] => reported'[p] /\ wrote'[p] = wrote[p],
         p \in finished => reported[p], NextInHand(p)'
  PROVE  Told(p)'
<1>1. CASE p \in finished
  BY <1>1 DEF Told
<1>2. CASE p \notin finished /\ Held(p)
  <2>1. Held(p)'
    BY <1>2, HeldStays
  <2> QED BY <1>2, <2>1 DEF Told
<1>3. CASE p \notin finished /\ HeldWithNotice(p)
  <2>1. HeldWithNotice(p)'
    BY <1>3 DEF HeldWithNotice
  <2> QED BY <1>3, <2>1 DEF Told
<1> QED BY <1>1, <1>2, <1>3 DEF Told

(* Whoever is reported has nothing that could still change.                *)
LEMMA FinishedIsReported ==
  ASSUME OutputInv, NEW p \in Outputs, p \in finished
  PROVE  reported[p]
BY DEF OutputInv, ExitsLast

LEMMA ReadIsSent ==
  ASSUME OutputInv, NEW p \in Outputs, reported[p]
  PROVE  pty[p] = <<>> /\ inHand[p] = <<>> /\ SentBy(p) = wrote[p]
BY DEF OutputInv, OutputTypeOK, ReportedIsRead, Eof, SentBy

LEMMA ReaderTells ==
  ASSUME GroupInv, OutputInv', NEW q \in Outputs,
         (\E end \in LineEnds : Writes(q, end)) \/ ChildExits(q) \/ Emits(q)
  PROVE  \A p \in Outputs : Told(p)'
<1> SUFFICES ASSUME NEW p \in Outputs PROVE Told(p)'
  OBVIOUS
<1>1. UNCHANGED <<reported, events, pending, shownLines, finished>>
  BY DEF Writes, ChildExits, Emits, reportVars
<1>2. OutputTypeOK /\ OutputTypeOK' /\ OutputInv /\ Told(p) /\ NextInHand(p)
  BY DEF GroupInv, OutputInv, Told
<1>3. SentBy(p)' = SentBy(p) /\ NextInHand(p)' /\ (reported[p] => wrote'[p] = wrote[p])
  <2>1. /\ wrote \in [Outputs -> Nat] /\ pty \in [Outputs -> Seq(Ends)] /\ inHand \in [Outputs -> Seq(Lines)]
        /\ alive \in [Outputs -> BOOLEAN]
    BY <1>2 DEF OutputTypeOK
  <2>2. reported[p] => ~alive[p]
    BY <1>2 DEF OutputInv, ReportedIsRead, Eof
  <2>3. CASE UNCHANGED <<wrote, pty, inHand>>
    BY <1>2, <2>3 DEF SentBy, NextInHand
  <2>4. ASSUME NEW end \in LineEnds, Writes(q, end) PROVE <1>3
    <3>1. /\ wrote' = [wrote EXCEPT ![q] = @ + 1] /\ alive[q] /\ inHand' = inHand
          /\ \E e \in Ends : pty' = [pty EXCEPT ![q] = Append(@, e)]
      BY <2>4 DEF Writes, Ends
    <3>2. CASE p = q
      <4>1. wrote'[p] = wrote[p] + 1 /\ Len(pty'[p]) = Len(pty[p]) + 1
        BY <2>1, <3>1, <3>2
      <4>2. SentBy(p)' = SentBy(p)
        BY <2>1, <3>1, <4>1 DEF SentBy
      <4> QED BY <1>2, <2>2, <3>1, <3>2, <4>2 DEF NextInHand
    <3>3. CASE p # q
      <4>1. wrote'[p] = wrote[p] /\ pty'[p] = pty[p]
        BY <2>1, <3>1, <3>3
      <4>2. SentBy(p)' = SentBy(p)
        BY <3>1, <4>1 DEF SentBy
      <4> QED BY <1>2, <3>1, <4>1, <4>2 DEF NextInHand
    <3> QED BY <3>2, <3>3
  <2>5. CASE Emits(q)
    <3> DEFINE line == Line(q, wrote[q] - Len(pty[q]) + 1, nextSeq, Head(pty[q]))
    <3>1. /\ inHand' = [inHand EXCEPT ![q] = <<line>>] /\ wrote' = wrote
          /\ pty' = [pty EXCEPT ![q] = Tail(@)] /\ pty[q] # <<>> /\ inHand[q] = <<>>
      BY <2>5 DEF Emits
    <3>2. line.n = wrote[q] - Len(pty[q]) + 1
      BY DEF Line
    <3> HIDE DEF line
    <3>3. CASE p = q
      <4>1. /\ Len(pty'[p]) = Len(pty[p]) - 1 /\ Len(inHand[p]) = 0 /\ Len(inHand'[p]) = 1
            /\ inHand'[p][1] = line /\ Len(pty[p]) \in Nat
        BY <2>1, <3>1, <3>3
      <4>2. SentBy(p)' = SentBy(p) /\ line.n = SentBy(p) + 1
        BY <2>1, <3>1, <3>2, <3>3, <4>1 DEF SentBy
      <4> QED BY <1>2, <3>1, <4>1, <4>2 DEF NextInHand
    <3>4. CASE p # q
      <4>1. inHand'[p] = inHand[p] /\ pty'[p] = pty[p]
        BY <2>1, <3>1, <3>4
      <4>2. SentBy(p)' = SentBy(p)
        BY <3>1, <4>1 DEF SentBy
      <4> QED BY <1>2, <3>1, <4>1, <4>2 DEF NextInHand
    <3> QED BY <3>3, <3>4
  <2>6. CASE ChildExits(q)
    BY <2>3, <2>6 DEF ChildExits
  <2> QED BY <2>4, <2>5, <2>6
<1>4. \A i \in DOMAIN events : i - 0 = i /\ i + 0 = i
  BY <1>2, SentIsInt
<1>5. p \in finished => reported[p]
  BY <1>2, FinishedIsReported
<1> QED BY <1>1, <1>2, <1>3, <1>4, <1>5, ToldStays

LEMMA SendTells ==
  ASSUME GroupInv, OutputInv', NEW q \in Outputs, Sends(q)
  PROVE  \A p \in Outputs : Told(p)'
<1> SUFFICES ASSUME NEW p \in Outputs PROVE Told(p)'
  OBVIOUS
<1> DEFINE e == [kind |-> "line", line |-> inHand[q][1]]
           len == Len(events)
           upTo == SentBy(p)
           held == Len(pending[p])
<1>1. UNCHANGED <<alive, wrote, pty, reported, pending, shownLines, finished>>
  BY DEF Sends, reportVars
<1>2. inHand[q] # <<>> /\ inHand' = [inHand EXCEPT ![q] = <<>>] /\ events' = Append(events, e)
  BY DEF Sends
<1>3. OutputTypeOK /\ OutputTypeOK' /\ OutputInv /\ Told(p) /\ NextInHand(p)
  BY DEF GroupInv, OutputInv, Told
<1>4. IsLine(e, q) /\ e.line = inHand[q][1] /\ \A o \in Outputs : IsLine(e, o) => o = q
  BY <1>2, <1>3 DEF OutputTypeOK, IsLine
<1> HIDE DEF e
<1>5. events \in Seq(ProcEvents) /\ events' \in Seq(ProcEvents) /\ inHand \in [Outputs -> Seq(Lines)]
  BY <1>3 DEF OutputTypeOK
<1>6. /\ DOMAIN events' = 1..(len + 1) /\ DOMAIN events = 1..len /\ len \in Nat
      /\ events'[len + 1] = e /\ \A i \in DOMAIN events : events'[i] = events[i] /\ i \in DOMAIN events'
  BY <1>2, <1>5
<1>7. \A i \in DOMAIN events' : i \in DOMAIN events \/ i = len + 1
  BY <1>6
<1>8. CASE p # q
  <2>1. inHand'[p] = inHand[p]
    BY <1>2, <1>5, <1>8
  <2>2. SentBy(p)' = SentBy(p)
    BY <1>1, <2>1 DEF SentBy
  <2>3. NextInHand(p)'
    BY <1>3, <2>1, <2>2 DEF NextInHand
  <2>4. \A i \in DOMAIN events' : IsLine(events'[i], p) => i \in DOMAIN events
    BY <1>4, <1>6, <1>7, <1>8
  <2>5. \A i \in DOMAIN events : i - 0 = i /\ i + 0 = i
    BY <1>6
  <2>6. \A i \in DOMAIN events' : i + 0 = i
    BY <1>6
  <2>7. p \in finished => reported[p]
    BY <1>3, FinishedIsReported
  <2> QED BY <1>1, <1>3, <1>6, <2>2, <2>3, <2>4, <2>5, <2>6, <2>7, ToldStays
<1>9. CASE p = q
  <2>1. ~reported[p] /\ p \notin finished
    BY <1>2, <1>3, <1>9, FinishedIsReported DEF OutputInv, ReportedIsRead, Eof
  <2>2. /\ upTo \in Int /\ held \in Nat /\ Len(inHand[p]) = 1 /\ Len(inHand'[p]) = 0 /\ inHand'[p] = <<>>
        /\ Len(pty[p]) \in Nat /\ wrote[p] \in Nat /\ upTo >= 0
    <3>1. Len(inHand[p]) <= 1 /\ inHand[p] \in Seq(Lines) /\ inHand[p] # <<>> /\ upTo >= 0
      BY <1>2, <1>3, <1>5, <1>9 DEF NextInHand
    <3>2. inHand'[p] = <<>>
      BY <1>2, <1>5, <1>9
    <3>3. Len(inHand[p]) = 1 /\ Len(inHand'[p]) = 0
      <4>1. ASSUME NEW h \in Seq(Lines), h # <<>>, Len(h) <= 1 PROVE Len(h) = 1
        <5>1. Len(h) \in Nat /\ Len(h) # 0
          BY <4>1
        <5> QED BY <4>1, <5>1
      <4>2. Len(<<>>) = 0
        OBVIOUS
      <4> QED BY <3>1, <3>2, <4>1, <4>2
    <3>4. upTo \in Int /\ held \in Nat /\ Len(pty[p]) \in Nat /\ wrote[p] \in Nat
      BY <1>3, SentIsInt
    <3> QED BY <3>1, <3>2, <3>3, <3>4
  <2>3. SentBy(p)' = upTo + 1
    BY <1>1, <2>2 DEF SentBy
  <2>4. e.line.n = upTo + 1 /\ Plain(e, p) /\ ~Notice(e, p)
    BY <1>2, <1>3, <1>4, <1>9, <2>2 DEF NextInHand, Plain, Notice
  <2>5. NextInHand(p)'
    BY <2>2, <2>3 DEF NextInHand
  <2>6. Held(p)
    BY <1>3, <2>1 DEF Told, HeldWithNotice
  <2> HIDE DEF upTo
  <2>7. pending'[p] = pending[p] /\ pending[p] = Numbers(held) /\ held <= upTo
    BY <1>1, <2>6 DEF Held, upTo
  <2>8. \A i \in DOMAIN events : Plain(events[i], p) => held < events[i].line.n /\ events[i].line.n <= upTo
    BY <2>6 DEF Held, upTo
  <2>9. \A i \in DOMAIN events : events[i].kind = "line" => events[i].line.n \in Int
    BY <1>3, SentIsInt
  <2>10. ASSUME NEW i \in DOMAIN events', Plain(events'[i], p)
         PROVE  held < events'[i].line.n /\ events'[i].line.n <= upTo + 1
    BY <1>6, <1>7, <2>2, <2>4, <2>7, <2>8, <2>9, <2>10 DEF Plain, IsLine
  <2>11. ASSUME NEW i \in DOMAIN events', NEW j \in DOMAIN events',
                Plain(events'[i], p), Plain(events'[j], p), i < j
         PROVE  events'[i].line.n < events'[j].line.n
    <3>1. i \in DOMAIN events
      BY <1>6, <1>7, <2>11
    <3>2. CASE j \in DOMAIN events
      BY <1>6, <2>6, <2>11, <3>1, <3>2 DEF Held
    <3>3. CASE j = len + 1
      <4>1. Plain(events[i], p) /\ events[i].kind = "line" /\ events'[i] = events[i]
        BY <1>6, <2>11, <3>1 DEF Plain, IsLine
      <4> QED BY <1>6, <2>2, <2>4, <2>8, <2>9, <3>1, <3>3, <4>1
    <3> QED BY <1>7, <3>2, <3>3
  <2>12. ASSUME NEW k \in (held + 1)..(upTo + 1)
         PROVE  \E i \in DOMAIN events' : Plain(events'[i], p) /\ events'[i].line.n = k
    <3>1. CASE k = upTo + 1
      BY <1>6, <2>4, <3>1
    <3>2. CASE k # upTo + 1
      <4>1. k \in (held + 1)..upTo
        BY <2>2, <3>2
      <4>2. PICK i \in DOMAIN events : Plain(events[i], p) /\ events[i].line.n = k
        BY <2>6, <4>1 DEF Held, upTo
      <4> QED BY <1>6, <4>2
    <3> QED BY <3>1, <3>2
  <2>13. \A i \in DOMAIN events' : ~Notice(events'[i], p)
    <3>1. \A i \in DOMAIN events : ~Notice(events[i], p)
      BY <2>1, <2>6 DEF Held
    <3> QED BY <1>6, <1>7, <2>4, <3>1
  <2>14. Held(p)'
    BY <2>2, <2>3, <2>7, <2>10, <2>11, <2>12, <2>13 DEF Held
  <2> QED BY <1>1, <1>3, <2>1, <2>5, <2>14 DEF Told
<1> QED BY <1>8, <1>9

LEMMA ReportTells ==
  ASSUME Patient, GroupInv, OutputInv', NEW q \in Outputs, Reports(q)
  PROVE  \A p \in Outputs : Told(p)'
<1> SUFFICES ASSUME NEW p \in Outputs PROVE Told(p)'
  OBVIOUS
<1> DEFINE note == [kind |-> "line", line |-> Line(q, 0, nextSeq, "nl")]
           exit == [kind |-> "exited", proc |-> q]
           len == Len(events)
           held == Len(pending[p])
<1>1. UNCHANGED <<alive, wrote, pty, inHand, pending, shownLines, finished>>
  BY DEF Reports, reportVars
<1>2. ~reported[q] /\ Eof(q) /\ reported' = [reported EXCEPT ![q] = TRUE]
  BY DEF Reports
<1>3. OutputTypeOK /\ OutputTypeOK' /\ OutputInv /\ Told(p) /\ NextInHand(p)
  BY DEF GroupInv, OutputInv, Told
<1>4. /\ note.kind = "line" /\ note.line.proc = q /\ note.line.n = 0
      /\ exit.kind = "exited"
  BY DEF Line
<1>5. events' = (events \o <<>>) \o <<exit>> \/ events' = (events \o <<note>>) \o <<exit>>
  BY DEF Reports
<1> HIDE DEF note, exit
<1>6. \A o \in Outputs : ~IsLine(exit, o) /\ (IsLine(note, o) <=> o = q) /\ (Notice(note, o) <=> o = q)
  BY <1>4 DEF IsLine, Notice
<1>7. events \in Seq(ProcEvents) /\ len \in Nat /\ DOMAIN events = 1..len
  BY <1>3 DEF OutputTypeOK
<1>8. PICK top \in {len + 1, len + 2} :
        /\ Len(events') = top /\ DOMAIN events' = 1..top
        /\ events'[top] = exit /\ (top = len + 2 => events'[len + 1] = note)
        /\ \A i \in DOMAIN events : events'[i] = events[i]
  <2>1. CASE events' = (events \o <<>>) \o <<exit>>
    <3>1. events \o <<>> = events
      BY <1>7
    <3> QED BY <1>7, <2>1, <3>1
  <2>2. CASE events' = (events \o <<note>>) \o <<exit>>
    BY <1>7, <2>2
  <2> QED BY <1>5, <2>1, <2>2
<1>9. \A i \in DOMAIN events' : i \in DOMAIN events \/ i = top \/ (i = len + 1 /\ top = len + 2)
  BY <1>7, <1>8
<1>10. SentBy(p)' = SentBy(p) /\ NextInHand(p)'
  BY <1>1, <1>3 DEF SentBy, NextInHand
<1>11. reported[p] => reported'[p]
  BY <1>2, <1>3 DEF OutputTypeOK
<1>12. \A i \in DOMAIN events : i - 0 = i /\ i + 0 = i /\ i \in DOMAIN events'
  BY <1>7, <1>8
<1>13. \A i \in DOMAIN events' : i + 0 = i
  BY <1>8
<1>14. p \in finished => reported[p]
  BY <1>3, FinishedIsReported
<1>15. CASE p # q \/ top = len + 1
  <2>1. \A i \in DOMAIN events' : IsLine(events'[i], p) => i \in DOMAIN events
    BY <1>6, <1>7, <1>8, <1>9, <1>15
  <2> QED BY <1>1, <1>3, <1>8, <1>10, <1>11, <1>12, <1>13, <1>14, <2>1, ToldStays
<1>16. CASE p = q /\ top = len + 2
  <2>1. ~reported[p] /\ reported'[p] /\ p \notin finished
    BY <1>2, <1>3, <1>14, <1>16 DEF OutputTypeOK
  <2>2. Held(p)
    BY <1>3, <2>1 DEF Told, HeldWithNotice
  <2>3. \A i \in DOMAIN events : ~Notice(events[i], p)
    BY <2>1, <2>2 DEF Held
  <2>4. \A i \in DOMAIN events' : Plain(events'[i], p) => i \in DOMAIN events /\ events'[i] = events[i]
    BY <1>6, <1>8, <1>9, <1>16 DEF Plain, Notice
  <2>5. \A i \in DOMAIN events' : Notice(events'[i], p) => i = len + 1
    BY <1>6, <1>8, <1>9, <1>16, <2>3 DEF Notice
  <2>6. \A j \in DOMAIN events' : IsLine(events'[j], p) => j <= len + 1
    BY <1>6, <1>7, <1>8, <1>9, <1>16
  <2>7. Held(p)'
    BY <1>1, <1>8, <1>10, <1>12, <2>1, <2>2, <2>4, <2>5, <2>6, SMTT(30) DEF Held
  <2> QED BY <1>1, <1>10, <2>1, <2>7, <1>3 DEF Told
<1> QED BY <1>8, <1>15, <1>16

(* The oldest line of a process in the queue is the next one of it.        *)
LEMMA OldestIsNext ==
  ASSUME OutputTypeOK, NEW p \in Outputs, Held(p), 1 \in DOMAIN events, Plain(events[1], p)
  PROVE  events[1].line.n = Len(pending[p]) + 1
<1> DEFINE held == Len(pending[p])
<1>1. /\ held \in Nat /\ SentBy(p) \in Int
      /\ \A i \in DOMAIN events : i \in Nat /\ (events[i].kind = "line" => events[i].line.n \in Int)
  BY SentIsInt
<1>2. held < events[1].line.n /\ events[1].line.n <= SentBy(p) /\ events[1].line.n \in Int
  BY <1>1 DEF Held, Plain, IsLine
<1>3. held + 1 \in (held + 1)..SentBy(p)
  BY <1>1, <1>2
<1>4. PICK i \in DOMAIN events : Plain(events[i], p) /\ events[i].line.n = held + 1
  BY <1>3 DEF Held
<1>5. CASE i = 1
  BY <1>4, <1>5
<1>6. CASE i # 1
  <2>1. i \in Nat /\ 1 < i
    <3>1. events \in Seq(ProcEvents)
      BY DEF OutputTypeOK
    <3> QED BY <1>6, <3>1
  <2>2. events[1].line.n < events[i].line.n
    BY <1>4, <2>1 DEF Held
  <2> QED BY <1>1, <1>2, <1>4, <2>2
<1> QED BY <1>5, <1>6

(* With none in the queue, all that were sent are held back.               *)
LEMMA NoneLeft ==
  ASSUME OutputTypeOK, NEW p \in Outputs, Held(p), \A i \in DOMAIN events : ~Plain(events[i], p)
  PROVE  Len(pending[p]) = SentBy(p) /\ pending[p] = Numbers(SentBy(p))
<1>1. Len(pending[p]) \in Nat /\ SentBy(p) \in Int
  BY SentIsInt
<1>2. Len(pending[p]) <= SentBy(p)
  BY DEF Held
<1>3. ASSUME Len(pending[p]) < SentBy(p) PROVE FALSE
  <2>1. Len(pending[p]) + 1 \in (Len(pending[p]) + 1)..SentBy(p)
    BY <1>1, <1>3
  <2> QED BY <2>1 DEF Held
<1>4. Len(pending[p]) = SentBy(p)
  BY <1>1, <1>2, <1>3
<1>5. pending[p] = Numbers(Len(pending[p]))
  BY DEF Held
<1> QED BY <1>4, <1>5

LEMMA AppendNumber ==
  ASSUME NEW k \in Nat
  PROVE  Append(Numbers(k), k + 1) = Numbers(k + 1) /\ Len(Numbers(k)) = k
<1>1. Numbers(k) \in Seq(Nat) /\ Len(Numbers(k)) = k
  BY DEF Numbers
<1>2. Append(Numbers(k), k + 1) = [i \in 1..(k + 1) |-> i]
  BY <1>1 DEF Numbers
<1> QED BY <1>1, <1>2 DEF Numbers

LEMMA PumpTells ==
  ASSUME GroupInv, OutputInv', PumpsEvent
  PROVE  \A p \in Outputs : Told(p)'
<1> SUFFICES ASSUME NEW p \in Outputs PROVE Told(p)'
  OBVIOUS
<1> DEFINE ev == Head(events)
           len == Len(events)
           held == Len(pending[p])
<1>1. UNCHANGED <<alive, wrote, pty, inHand, reported>>
  BY DEF PumpsEvent, readVars
<1>2. OutputTypeOK /\ OutputTypeOK' /\ OutputInv /\ Told(p) /\ NextInHand(p)
  BY DEF GroupInv, OutputInv, Told
<1>3. events # <<>> /\ events' = Tail(events) /\ events \in Seq(ProcEvents)
  BY <1>2 DEF PumpsEvent, OutputTypeOK
<1>4. /\ len \in Nat /\ len # 0 /\ DOMAIN events = 1..len /\ ev = events[1] /\ 1 \in DOMAIN events
      /\ ev \in ProcEvents /\ DOMAIN events' = 1..(len - 1)
  BY <1>3
<1>5. \A i \in DOMAIN events' : i \in Nat /\ i + 1 \in DOMAIN events /\ events[i + 1] = events'[i] /\ 1 < i + 1
  BY <1>3, <1>4
<1>6. \A i \in DOMAIN events : i \in Nat /\ (i = 1 \/ (i - 1 \in DOMAIN events' /\ events'[i - 1] = events[i] /\ (i - 1) + 1 = i))
  BY <1>3, <1>4
<1>7. \/ ev.kind = "line" /\ HoldLine(ev.line)
      \/ ev.kind = "exited" /\ Finish(ev.proc)
      \/ ev.kind = "flush" /\ UNCHANGED reportVars
  BY DEF PumpsEvent
<1> HIDE DEF ev
<1>8. SentBy(p)' = SentBy(p) /\ NextInHand(p)'
  BY <1>1, <1>2 DEF SentBy, NextInHand
<1>9. p \in finished => reported[p]
  BY <1>2, FinishedIsReported
<1>10. CASE ~IsLine(ev, p) /\ pending'[p] = pending[p] /\ shownLines'[p] = shownLines[p]
            /\ (p \in finished' <=> p \in finished)
  <2>1. \A i \in DOMAIN events : IsLine(events[i], p) => i - 1 \in DOMAIN events' /\ events'[i - 1] = events[i]
    BY <1>4, <1>6, <1>10
  <2> QED BY <1>1, <1>2, <1>5, <1>8, <1>9, <1>10, <2>1, ToldStays
<1>11. CASE IsLine(ev, p)
  <2>1. /\ pending' = [pending EXCEPT ![p] = Append(@, ev.line.n)] /\ UNCHANGED <<shownLines, finished>>
    BY <1>7, <1>11 DEF IsLine, HoldLine
  <2>2. pending'[p] = Append(pending[p], ev.line.n)
    BY <1>2, <2>1 DEF OutputTypeOK
  <2>3. p \notin finished /\ Held(p)
    BY <1>2, <1>4, <1>11 DEF OutputInv, ExitsLast, Told, HeldWithNotice
  <2>4. held \in Nat /\ SentBy(p) \in Int /\ pending[p] = Numbers(held)
    BY <1>2, <2>3, SentIsInt DEF Held
  <2>5. CASE Plain(ev, p)
    <3>1. ev.line.n = held + 1
      BY <1>2, <1>4, <2>3, <2>5, OldestIsNext
    <3>2. pending'[p] = Numbers(held + 1) /\ Len(Numbers(held + 1)) = held + 1
      <4>1. held + 1 \in Nat
        BY <2>4
      <4>2. Append(Numbers(held), held + 1) = Numbers(held + 1)
        BY <2>4, AppendNumber
      <4>3. Len(Numbers(held + 1)) = held + 1
        BY <4>1, AppendNumber
      <4> QED BY <2>2, <2>4, <3>1, <4>2, <4>3
    <3>3. held + 1 <= SentBy(p)
      BY <1>4, <2>3, <2>5, <3>1 DEF Held
    <3>4. ASSUME NEW i \in DOMAIN events', Plain(events'[i], p)
          PROVE  held + 1 < events'[i].line.n /\ events'[i].line.n <= SentBy(p)
      BY <1>4, <1>5, <2>3, <2>5, <3>1, <3>4 DEF Held
    <3>5. ASSUME NEW i \in DOMAIN events', NEW j \in DOMAIN events',
                 Plain(events'[i], p), Plain(events'[j], p), i < j
          PROVE  events'[i].line.n < events'[j].line.n
      <4>1. i + 1 < j + 1
        BY <1>5, <3>5
      <4> QED BY <1>5, <2>3, <3>5, <4>1 DEF Held
    <3>6. ASSUME NEW k \in (held + 1 + 1)..SentBy(p)
          PROVE  \E i \in DOMAIN events' : Plain(events'[i], p) /\ events'[i].line.n = k
      <4>1. k \in (held + 1)..SentBy(p) /\ k # held + 1
        BY <2>4, <3>6
      <4>2. PICK i \in DOMAIN events : Plain(events[i], p) /\ events[i].line.n = k
        BY <2>3, <4>1 DEF Held
      <4> QED BY <1>4, <1>6, <3>1, <4>1, <4>2
    <3>7. ASSUME NEW i \in DOMAIN events', Notice(events'[i], p)
          PROVE  reported[p] /\ \A j \in DOMAIN events' : IsLine(events'[j], p) => j <= i
      <4>1. reported[p] /\ \A j \in DOMAIN events : IsLine(events[j], p) => j <= i + 1
        BY <1>5, <2>3, <3>7 DEF Held
      <4>2. \A j \in DOMAIN events' : IsLine(events'[j], p) => j + 1 <= i + 1
        BY <1>5, <4>1
      <4> QED BY <1>5, <4>1, <4>2
    <3>8. Held(p)'
      BY <1>1, <1>8, <3>2, <3>3, <3>4, <3>5, <3>6, <3>7 DEF Held
    <3> QED BY <1>2, <1>8, <2>1, <2>3, <3>8 DEF Told
  <2>6. CASE Notice(ev, p)
    <3>1. ev.line.n = 0
      BY <2>6 DEF Notice
    <3>2. reported[p] /\ \A j \in DOMAIN events : IsLine(events[j], p) => j <= 1
      BY <1>4, <2>3, <2>6 DEF Held
    <3>3. \A j \in DOMAIN events' : ~IsLine(events'[j], p)
      BY <1>5, <3>2
    <3>4. \A i \in DOMAIN events : ~Plain(events[i], p)
      BY <1>4, <1>6, <2>6, <3>3 DEF Plain, Notice
    <3>5. pending[p] = Numbers(wrote[p])
      BY <1>2, <2>3, <3>2, <3>4, NoneLeft, ReadIsSent
    <3>6. HeldWithNotice(p)'
      BY <1>1, <2>2, <3>1, <3>2, <3>3, <3>5 DEF HeldWithNotice
    <3> QED BY <1>2, <1>8, <2>1, <2>3, <3>6 DEF Told
  <2> QED BY <1>11, <2>5, <2>6 DEF Plain, Notice
<1>12. CASE IsExited(ev, p)
  <2>1. /\ shownLines' = [shownLines EXCEPT ![p] = @ \o pending[p]] /\ finished' = finished \cup {p}
        /\ pending' = [pending EXCEPT ![p] = <<>>]
    BY <1>7, <1>12 DEF IsExited, Finish
  <2>2. /\ shownLines'[p] = shownLines[p] \o pending[p] /\ p \in finished'
        /\ shownLines[p] \in Seq(Int) /\ pending[p] \in Seq(Int)
    BY <1>2, <2>1 DEF OutputTypeOK
  <2>3. reported[p] /\ \A i \in DOMAIN events : ~IsLine(events[i], p)
    BY <1>2, <1>4, <1>6, <1>12 DEF OutputInv, ExitsLast
  <2>4. CASE p \in finished
    <3>1. pending[p] = <<>>
      BY <1>2, <2>4 DEF OutputInv, ExitsLast
    <3>2. shownLines'[p] = shownLines[p]
      BY <2>2, <3>1
    <3> QED BY <1>1, <1>2, <1>8, <2>2, <2>4, <3>2 DEF Told
  <2>5. CASE p \notin finished
    <3>1. shownLines[p] = <<>> /\ (Held(p) \/ HeldWithNotice(p))
      BY <1>2, <2>5 DEF Told
    <3>2. shownLines'[p] = pending[p]
      BY <2>2, <3>1
    <3>3. Held(p) => pending[p] = Numbers(wrote[p])
      BY <1>2, <2>3, NoneLeft, ReadIsSent DEF Plain
    <3>4. pending[p] \in {Numbers(wrote[p]), Append(Numbers(wrote[p]), 0)}
      BY <3>1, <3>3 DEF HeldWithNotice
    <3> QED BY <1>1, <1>2, <1>8, <2>2, <3>2, <3>4 DEF Told
  <2> QED BY <2>4, <2>5
<1>13. CASE ~IsLine(ev, p) /\ ~IsExited(ev, p)
  <2>1. pending'[p] = pending[p] /\ shownLines'[p] = shownLines[p] /\ (p \in finished' <=> p \in finished)
    <3>1. CASE ev.kind = "line"
      <4>1. ev.line.proc # p /\ HoldLine(ev.line)
        BY <1>7, <1>13, <3>1 DEF IsLine
      <4> QED BY <1>2, <4>1 DEF HoldLine, OutputTypeOK
    <3>2. CASE ev.kind = "exited"
      <4>1. ev.proc # p /\ Finish(ev.proc)
        BY <1>7, <1>13, <3>2 DEF IsExited
      <4> QED BY <1>2, <4>1 DEF Finish, OutputTypeOK
    <3>3. CASE UNCHANGED reportVars
      BY <3>3 DEF reportVars
    <3> QED BY <1>7, <3>1, <3>2, <3>3
  <2> QED BY <1>10, <1>13, <2>1
<1> QED BY <1>11, <1>12, <1>13

LEMMA EndTells ==
  ASSUME GroupInv, OutputInv', Follows \/ RunDone \/ OutputRead
  PROVE  \A p \in Outputs : Told(p)'
<1> SUFFICES ASSUME NEW p \in Outputs PROVE Told(p)'
  OBVIOUS
<1>1. UNCHANGED <<wrote, pty, inHand, reported, pending, shownLines, finished>>
  BY DEF Follows, RunDone, OutputRead, readVars, reportVars
<1>2. OutputTypeOK /\ OutputTypeOK' /\ OutputInv /\ Told(p) /\ NextInHand(p)
  BY DEF GroupInv, OutputInv, Told
<1>3. events' = events \/ events' = Append(events, [kind |-> "flush"])
  BY DEF Follows, RunDone, OutputRead
<1>4. events \in Seq(ProcEvents)
  BY <1>2 DEF OutputTypeOK
<1>5. \A i \in DOMAIN events : i - 0 = i /\ i + 0 = i /\ i \in DOMAIN events' /\ events'[i] = events[i]
  BY <1>3, <1>4
<1>6. \A i \in DOMAIN events' : i + 0 = i /\ (IsLine(events'[i], p) => i \in DOMAIN events)
  BY <1>3, <1>4 DEF IsLine
<1>7. SentBy(p)' = SentBy(p) /\ NextInHand(p)'
  BY <1>1, <1>2 DEF SentBy, NextInHand
<1>8. p \in finished => reported[p]
  BY <1>2, FinishedIsReported
<1> QED BY <1>1, <1>2, <1>5, <1>6, <1>7, <1>8, ToldStays

(* Where no wait for output is cut short, a process that is reported to    *)
(* have exited has all its lines shown, in order and each once, and behind *)
(* them at most the notice of its death: however its reader, the exit and  *)
(* the pump interleave, and whatever other processes print meanwhile.      *)
THEOREM GroupsAreWhole == ASSUME Patient PROVE LogSpec => []GroupWhole
<1>1. LogInit => GroupInv
  <2> SUFFICES ASSUME LogInit PROVE \A p \in Outputs : Told(p)
    BY OutputInit DEF GroupInv
  <2> SUFFICES ASSUME NEW p \in Outputs PROVE Told(p)
    OBVIOUS
  <2>1. /\ wrote[p] = 0 /\ pty[p] = <<>> /\ inHand[p] = <<>> /\ pending[p] = <<>>
        /\ shownLines[p] = <<>> /\ finished = {} /\ DOMAIN events = {}
    BY DEF LogInit
  <2>2. SentBy(p) = 0 /\ Numbers(0) = <<>>
    <3>1. Numbers(0) \in Seq(Nat) /\ Len(Numbers(0)) = 0
      BY AppendNumber DEF Numbers
    <3>2. Numbers(0) = <<>>
      BY <3>1
    <3>3. Len(pty[p]) = 0 /\ Len(inHand[p]) = 0 /\ wrote[p] = 0
      BY <2>1
    <3>4. SentBy(p) = 0
      BY <3>3 DEF SentBy
    <3> QED BY <3>2, <3>4
  <2>3. NextInHand(p) /\ Held(p)
    BY <2>1, <2>2 DEF NextInHand, Held
  <2> QED BY <2>1, <2>3 DEF Told
<1>2. ASSUME GroupInv, [LogNext]_outputVars PROVE GroupInv'
  <2>1. OutputInv'
    BY <1>2, OutputStep DEF GroupInv
  <2>2. \A p \in Outputs : Told(p)'
    <3>1. CASE UNCHANGED outputVars
      <4>1. UNCHANGED <<wrote, pty, inHand, reported, events, pending, shownLines, finished>>
        BY <3>1 DEF outputVars, readVars, reportVars
      <4> QED BY <1>2, <4>1 DEF GroupInv, Told, Held, HeldWithNotice, NextInHand, SentBy
    <3>2. CASE LogNext
      BY <1>2, <2>1, <3>2, ReaderTells, SendTells, ReportTells, PumpTells, EndTells DEF LogNext
    <3> QED BY <1>2, <3>1, <3>2
  <2> QED BY <2>1, <2>2 DEF GroupInv
<1>3. GroupInv => GroupWhole
  <2> SUFFICES ASSUME GroupInv, NEW p \in finished
               PROVE  shownLines[p] \in {Numbers(wrote[p]), Append(Numbers(wrote[p]), 0)}
    BY DEF GroupWhole
  <2>1. finished \subseteq Outputs
    BY DEF GroupInv, OutputInv, OutputTypeOK
  <2> QED BY <2>1 DEF GroupInv, Told
<1> QED BY <1>1, <1>2, <1>3, PTL DEF LogSpec

(***************************************************************************)
(* OutputLog: what a follower is sent.                                     *)
(***************************************************************************)

LEMMA PageUnfolds ==
  ASSUME NEW K, NEW s \in Seq(K)
  PROVE  /\ Page(s)[0] = <<>>
         /\ \A i \in 1..Len(s) :
              Page(s)[i] = IF s[i].seq > cursor /\ Len(Page(s)[i-1]) < LogPage
                           THEN Append(Page(s)[i-1], s[i]) ELSE Page(s)[i-1]
<1> DEFINE n == Len(s)
           Val(f, i) == IF i = 0 THEN <<>>
                        ELSE IF s[i].seq > cursor /\ Len(f[i-1]) < LogPage
                             THEN Append(f[i-1], s[i]) ELSE f[i-1]
           Solves(f, k) == f = [i \in 0..n |-> f[i]] /\ \A i \in 0..n : i < k => f[i] = Val(f, i)
           Unsolved == {k \in Nat : ~ \E f : Solves(f, k)}
<1>0. n \in Nat
  OBVIOUS
<1>1. ASSUME NEW k \in Nat, NEW f, Solves(f, k) PROVE \E g : Solves(g, k + 1)
  <2> DEFINE g == [i \in 0..n |-> IF i = k THEN Val(f, i) ELSE f[i]]
  <2>1. g = [i \in 0..n |-> g[i]]
    OBVIOUS
  <2>2. ASSUME NEW i \in 0..n, i < k + 1 PROVE g[i] = Val(g, i)
    <3>1. CASE i = 0
      BY <1>0, <1>1, <2>2, <3>1
    <3>2. CASE i # 0
      <4>1. i - 1 \in 0..n /\ i - 1 # k /\ g[i-1] = f[i-1]
        BY <1>0, <2>2, <3>2
      <4>2. g[i] = Val(f, i)
        BY <1>0, <1>1, <2>2
      <4> HIDE DEF g
      <4> QED BY <3>2, <4>1, <4>2
    <3> QED BY <3>1, <3>2
  <2> QED BY <2>1, <2>2
<1>2. Unsolved = {}
  <2> SUFFICES ASSUME Unsolved # {} PROVE FALSE
    OBVIOUS
  <2>1. PICK k \in Unsolved : \A j \in Unsolved : k <= j
    BY LeastNatural
  <2>2. k # 0
    <3>1. Solves([i \in 0..n |-> TRUE], 0)
      BY <1>0
    <3> QED BY <3>1
  <2>3. k - 1 \in Nat /\ k - 1 \notin Unsolved /\ (k - 1) + 1 = k
    BY <2>1, <2>2
  <2>4. PICK f : Solves(f, k - 1)
    BY <2>3
  <2> HIDE DEF Solves
  <2>5. \E g : Solves(g, k)
    BY <1>1, <2>3, <2>4
  <2> QED BY <2>5
<1>3. PICK f : Solves(f, n + 1)
  <2>1. n + 1 \in Nat
    BY <1>0
  <2> HIDE DEF Solves, n
  <2> QED BY <1>2, <2>1
<1>4. f = [i \in 0..n |-> IF i = 0 THEN <<>>
                          ELSE IF s[i].seq > cursor /\ Len(f[i-1]) < LogPage
                               THEN Append(f[i-1], s[i]) ELSE f[i-1]]
  BY <1>0, <1>3
<1>5. Page(s) = [i \in 0..n |-> IF i = 0 THEN <<>>
                          ELSE IF s[i].seq > cursor /\ Len(Page(s)[i-1]) < LogPage
                               THEN Append(Page(s)[i-1], s[i]) ELSE Page(s)[i-1]]
  BY <1>4 DEF Page
<1> HIDE DEF n
<1>6. Page(s)[0] = <<>>
  BY <1>0, <1>5
<1>7. \A i \in 1..n : i \in 0..n /\ i # 0
  BY <1>0
<1>8. \A i \in 1..n : Page(s)[i] = IF s[i].seq > cursor /\ Len(Page(s)[i-1]) < LogPage
                                   THEN Append(Page(s)[i-1], s[i]) ELSE Page(s)[i-1]
  BY <1>5, <1>7
<1> QED BY <1>6, <1>8 DEF n

(* Lines as they are numbered.                                             *)
Numbered ==
  [proc : Outputs, n : Int, seq : Nat \ {0}, end : Ends, transient : BOOLEAN]

(* What the page has when the store has been read as far as i.             *)
Paged(s, page, i) ==
  /\ page \in Seq(Numbered)
  /\ \A h \in 1..Len(page) : page[h].seq > cursor /\ \E j \in 1..i : page[h] = s[j]
  /\ Increasing(s) =>
       /\ \A g, h \in 1..Len(page) : g < h => page[g].seq < page[h].seq
       /\ \A j \in 1..i : s[j].seq > cursor =>
            \/ Contains(page, s[j])
            \/ ~(Len(page) < LogPage) /\ \A h \in 1..Len(page) : page[h].seq < s[j].seq

LEMMA PageGrows ==
  ASSUME cursor \in Nat, NEW s \in Seq(Numbered), NEW i \in 1..Len(s), NEW page,
         Paged(s, page, i - 1)
  PROVE  Paged(s, IF s[i].seq > cursor /\ Len(page) < LogPage THEN Append(page, s[i]) ELSE page, i)
<1>1. /\ i \in Nat /\ i - 1 \in Nat /\ s[i] \in Numbered /\ i \in 1..i
      /\ \A j \in 1..(i-1) : j \in 1..i /\ j \in 1..Len(s) /\ j < i
      /\ \A j \in 1..i : j = i \/ j \in 1..(i-1)
  OBVIOUS
<1>2. /\ page \in Seq(Numbered) /\ Len(page) \in Nat
      /\ \A h \in 1..Len(page) : page[h] \in Numbered
      /\ \A h \in 1..Len(page) : page[h].seq > cursor /\ \E j \in 1..(i-1) : page[h] = s[j]
  BY DEF Paged
<1>3. ASSUME Increasing(s) PROVE \A j \in 1..(i-1) : s[j].seq < s[i].seq
  BY <1>1, <1>3 DEF Increasing
<1>4. ASSUME Increasing(s) PROVE \A h \in 1..Len(page) : page[h].seq < s[i].seq
  BY <1>2, <1>3, <1>4
<1>5. ASSUME Increasing(s)
      PROVE  /\ \A g, h \in 1..Len(page) : g < h => page[g].seq < page[h].seq
             /\ \A j \in 1..(i-1) : s[j].seq > cursor =>
                 \/ Contains(page, s[j])
                 \/ ~(Len(page) < LogPage) /\ \A h \in 1..Len(page) : page[h].seq < s[j].seq
  BY <1>5 DEF Paged
<1>6. CASE s[i].seq > cursor /\ Len(page) < LogPage
  <2> DEFINE more == Append(page, s[i])
  <2>1. /\ more \in Seq(Numbered) /\ Len(more) = Len(page) + 1 /\ more[Len(page) + 1] = s[i]
        /\ \A h \in 1..Len(page) : more[h] = page[h]
        /\ \A h \in 1..Len(more) : h = Len(page) + 1 \/ h \in 1..Len(page)
    BY <1>1, <1>2
  <2> HIDE DEF more
  <2>2. \A h \in 1..Len(more) : more[h].seq > cursor /\ \E j \in 1..i : more[h] = s[j]
    BY <1>1, <1>2, <1>6, <2>1
  <2>3. ASSUME Increasing(s), NEW g \in 1..Len(more), NEW h \in 1..Len(more), g < h
        PROVE  more[g].seq < more[h].seq
    <3>1. g \in 1..Len(page)
      BY <1>2, <2>1, <2>3
    <3>2. CASE h = Len(page) + 1
      BY <1>4, <2>1, <2>3, <3>1, <3>2
    <3>3. CASE h \in 1..Len(page)
      BY <1>5, <2>1, <2>3, <3>1, <3>3
    <3> QED BY <2>1, <3>2, <3>3
  <2>4. ASSUME Increasing(s), NEW j \in 1..i, s[j].seq > cursor PROVE Contains(more, s[j])
    <3>1. CASE j = i
      <4>1. Len(page) + 1 \in 1..Len(more)
        BY <1>2, <2>1
      <4> QED BY <2>1, <3>1, <4>1 DEF Contains
    <3>2. CASE j \in 1..(i-1)
      <4>1. Contains(page, s[j])
        BY <1>5, <1>6, <2>4, <3>2
      <4>2. \A h \in 1..Len(page) : h \in 1..Len(more)
        BY <1>2, <2>1
      <4> QED BY <2>1, <4>1, <4>2 DEF Contains
    <3> QED BY <1>1, <3>1, <3>2
  <2> QED BY <1>6, <2>1, <2>2, <2>3, <2>4 DEF Paged, more
<1>7. CASE ~(s[i].seq > cursor /\ Len(page) < LogPage)
  <2>1. \A h \in 1..Len(page) : page[h].seq > cursor /\ \E j \in 1..i : page[h] = s[j]
    BY <1>1, <1>2
  <2>2. ASSUME Increasing(s), NEW j \in 1..i, s[j].seq > cursor
        PROVE  \/ Contains(page, s[j])
               \/ ~(Len(page) < LogPage) /\ \A h \in 1..Len(page) : page[h].seq < s[j].seq
    BY <1>1, <1>4, <1>5, <1>7, <2>2
  <2>3. Paged(s, page, i)
    BY <1>2, <1>5, <2>1, <2>2 DEF Paged
  <2> QED BY <1>7, <2>3
<1> QED BY <1>6, <1>7

LEMMA NewerPaged ==
  ASSUME cursor \in Nat, NEW s \in Seq(Numbered)
  PROVE  Paged(s, Newer(s), Len(s))
<1> DEFINE n == Len(s)
           Off == {i \in 0..n : ~Paged(s, Page(s)[i], i)}
<1>1. n \in Nat
  OBVIOUS
<1>2. /\ Page(s)[0] = <<>>
      /\ \A i \in 1..n :
           Page(s)[i] = IF s[i].seq > cursor /\ Len(Page(s)[i-1]) < LogPage
                        THEN Append(Page(s)[i-1], s[i]) ELSE Page(s)[i-1]
  BY PageUnfolds
<1>3. Off = {}
  <2> SUFFICES ASSUME Off # {} PROVE FALSE
    OBVIOUS
  <2>1. PICK i \in Off : \A l \in Off : i <= l
    <3>1. Off \in SUBSET Nat
      BY <1>1
    <3> HIDE DEF Off
    <3> QED BY <3>1, LeastNatural
  <2>2. i # 0
    <3>1. Paged(s, <<>>, 0)
      <4>1. <<>> \in Seq(Numbered) /\ 1..Len(<<>>) = {} /\ 1..0 = {}
        OBVIOUS
      <4> QED BY <4>1 DEF Paged
    <3> QED BY <1>2, <2>1, <3>1
  <2>3. i \in 1..n /\ i - 1 \in 0..n /\ i - 1 \notin Off
    BY <1>1, <2>1, <2>2
  <2>4. Paged(s, Page(s)[i-1], i - 1)
    BY <2>3
  <2>5. Paged(s, Page(s)[i], i)
    BY <1>2, <2>3, <2>4, PageGrows
  <2> QED BY <2>1, <2>5
<1>4. Paged(s, Page(s)[n], n)
  <2>1. n \in 0..n
    BY <1>1
  <2> QED BY <1>3, <2>1
<1> QED BY <1>4 DEF Newer

NumberedEvents ==
  [kind : {"line"}, line : Numbered] \cup [kind : {"exited"}, proc : Outputs] \cup [kind : {"flush"}]

NumberedOK ==
  /\ wrote \in [Outputs -> Nat] /\ pty \in [Outputs -> Seq(Ends)]
  /\ nextSeq \in Nat \ {0} /\ inHand \in [Outputs -> Seq(Numbered)]
  /\ events \in Seq(NumberedEvents) /\ handled \in Seq(Numbered)
  /\ lines \in Seq(Numbered) /\ followed \in Seq(Numbered) /\ cursor \in Nat

(* The store has nothing that was not handled, and the cursor is at a line *)
(* that was.                                                               *)
CursorHandled ==
  /\ \A j \in DOMAIN lines : Contains(handled, lines[j])
  /\ cursor = 0 \/ \E i \in DOMAIN handled : handled[i].seq = cursor

(* In an ordered store what is behind the cursor has been followed.        *)
FollowedSoFar ==
  ordered =>
    /\ Increasing(lines) /\ Increasing(followed)
    /\ \A i \in DOMAIN followed : followed[i].seq <= cursor
    /\ \A j \in DOMAIN lines : lines[j].seq <= cursor => Contains(followed, lines[j])

FollowInv == NumberedOK /\ CursorHandled /\ FollowedSoFar

LEMMA FollowStays ==
  ASSUME FollowInv, UNCHANGED <<handled, storeVars, followVars>>, NumberedOK'
  PROVE  FollowInv'
<1>1. /\ handled' = handled /\ lines' = lines /\ ordered' = ordered
      /\ cursor' = cursor /\ followed' = followed
  BY DEF storeVars, followVars
<1> QED BY <1>1 DEF FollowInv, CursorHandled, FollowedSoFar, Increasing

LEMMA NumberedStays ==
  ASSUME NumberedOK, UNCHANGED <<handled, storeVars, followVars>>,
         wrote' \in [Outputs -> Nat], pty' \in [Outputs -> Seq(Ends)],
         nextSeq' \in Nat \ {0}, inHand' \in [Outputs -> Seq(Numbered)],
         events' \in Seq(NumberedEvents)
  PROVE  NumberedOK'
BY DEF NumberedOK, storeVars, followVars

(* The child, its reader and its exit report.                              *)
LEMMA PrintsNumbered ==
  ASSUME NumberedOK, NEW p \in Outputs,
         (\E end \in LineEnds : Writes(p, end)) \/ ChildExits(p) \/ Emits(p) \/ Sends(p) \/ Reports(p)
  PROVE  NumberedOK' /\ UNCHANGED <<handled, storeVars, followVars>>
<1> USE DEF NumberedOK
<1>1. CASE \E end \in LineEnds : Writes(p, end)
  <2>1. PICK end \in LineEnds : Writes(p, end)
    BY <1>1
  <2>2. wrote' \in [Outputs -> Nat] /\ pty' \in [Outputs -> Seq(Ends)]
    BY <2>1, SMTT(30) DEF Writes, Ends
  <2>3. UNCHANGED <<nextSeq, inHand, events, handled, storeVars, followVars>>
    BY <2>1 DEF Writes
  <2> QED BY <2>2, <2>3, NumberedStays
<1>2. CASE ChildExits(p)
  BY <1>2, NumberedStays DEF ChildExits
<1>3. CASE Emits(p)
  <2> DEFINE line == Line(p, wrote[p] - Len(pty[p]) + 1, nextSeq, Head(pty[p]))
  <2>1. line \in Numbered
    BY <1>3 DEF Emits, Line, Numbered
  <2>2. inHand' = [inHand EXCEPT ![p] = <<line>>]
    BY <1>3 DEF Emits
  <2> HIDE DEF line
  <2>3. inHand' \in [Outputs -> Seq(Numbered)]
    BY <2>1, <2>2
  <2>4. pty' \in [Outputs -> Seq(Ends)] /\ nextSeq' \in Nat \ {0}
    BY <1>3 DEF Emits
  <2>5. UNCHANGED <<wrote, events, handled, storeVars, followVars>>
    BY <1>3 DEF Emits
  <2> QED BY <2>3, <2>4, <2>5, NumberedStays
<1>4. CASE Sends(p)
  <2> DEFINE e == [kind |-> "line", line |-> inHand[p][1]]
  <2>1. e \in NumberedEvents
    BY <1>4 DEF Sends, NumberedEvents
  <2>2. events' = Append(events, e)
    BY <1>4 DEF Sends
  <2> HIDE DEF e
  <2>3. events' \in Seq(NumberedEvents)
    BY <2>1, <2>2
  <2>4. inHand' \in [Outputs -> Seq(Numbered)]
    BY <1>4 DEF Sends
  <2>5. UNCHANGED <<wrote, pty, nextSeq, handled, storeVars, followVars>>
    BY <1>4 DEF Sends
  <2> QED BY <2>3, <2>4, <2>5, NumberedStays
<1>5. CASE Reports(p)
  <2>1. PICK killed \in Killed :
          /\ events' = events
               \o (IF killed THEN <<[kind |-> "line", line |-> Line(p, 0, nextSeq, "nl")]>> ELSE <<>>)
               \o <<[kind |-> "exited", proc |-> p]>>
          /\ nextSeq' = nextSeq + (IF killed THEN 1 ELSE 0)
    BY <1>5 DEF Reports
  <2> DEFINE e == [kind |-> "line", line |-> Line(p, 0, nextSeq, "nl")]
             x == [kind |-> "exited", proc |-> p]
  <2>2. Line(p, 0, nextSeq, "nl") \in Numbered
    BY DEF Line, Numbered, Ends
  <2>3. e \in NumberedEvents /\ x \in NumberedEvents
    BY <2>2 DEF NumberedEvents
  <2>4. events' = events \o (IF killed THEN <<e>> ELSE <<>>) \o <<x>>
    BY <2>1
  <2> HIDE DEF e, x
  <2>5. events' \in Seq(NumberedEvents)
    BY <2>3, <2>4
  <2>6. nextSeq' \in Nat \ {0}
    BY <2>1
  <2>7. UNCHANGED <<wrote, pty, inHand, handled, storeVars, followVars>>
    BY <1>5 DEF Reports
  <2> QED BY <2>5, <2>6, <2>7, NumberedStays
<1> QED BY <1>1, <1>2, <1>3, <1>4, <1>5

(* A line is stored among those that were, and replaces no line that has   *)
(* another number unless the store is out of order.                        *)
LEMMA StoredAmong ==
  ASSUME NEW s \in Seq(Numbered), NEW line \in Numbered, NEW replace
  PROVE  /\ Stored(s, replace, line) \in Seq(Numbered)
         /\ \A j \in DOMAIN Stored(s, replace, line) :
              Stored(s, replace, line)[j] = line \/ \E i \in DOMAIN s : Stored(s, replace, line)[j] = s[i]
<1> DEFINE own  == {i \in DOMAIN s : s[i].proc = line.proc}
           full == Append(s, line)
           at_  == CHOOSE i \in own : \A j \in own : j <= i
           from == IF Len(full) > LogCap THEN 2 ELSE 1
<1>1. CASE replace /\ own # {}
  <2>1. Stored(s, replace, line) = [s EXCEPT ![at_] = line]
    BY <1>1 DEF Stored
  <2> HIDE DEF at_
  <2>2. [s EXCEPT ![at_] = line] \in Seq(Numbered)
    <3>1. s \in [1..Len(s) -> Numbered] /\ Len(s) \in Nat
      OBVIOUS
    <3>2. [s EXCEPT ![at_] = line] \in [1..Len(s) -> Numbered]
      BY <3>1
    <3> HIDE DEF own, full, from
    <3> QED BY <3>1, <3>2
  <2>3. \A j \in DOMAIN s : [s EXCEPT ![at_] = line][j] = line \/ [s EXCEPT ![at_] = line][j] = s[j]
    OBVIOUS
  <2>4. DOMAIN [s EXCEPT ![at_] = line] = DOMAIN s
    OBVIOUS
  <2> QED BY <2>1, <2>2, <2>3, <2>4
<1>2. CASE ~(replace /\ own # {})
  <2>1. Stored(s, replace, line) = SubSeq(full, from, Len(full))
    BY <1>2 DEF Stored
  <2>2. from \in {1, 2}
    OBVIOUS
  <2>3. full \in Seq(Numbered) /\ Len(full) \in Nat
        /\ \A i \in 1..Len(full) : full[i] = line \/ \E h \in DOMAIN s : full[i] = s[h]
    OBVIOUS
  <2> HIDE DEF own, full, from
  <2> DEFINE r == SubSeq(full, from, Len(full))
  <2>4. r \in Seq(Numbered) /\ DOMAIN r = 1..Len(r)
    BY <2>2, <2>3
  <2>5. ASSUME NEW j \in 1..Len(r) PROVE \E i \in 1..Len(full) : r[j] = full[i]
    BY <2>2, <2>3
  <2> HIDE DEF r
  <2>6. \A j \in DOMAIN r : r[j] = line \/ \E i \in DOMAIN s : r[j] = s[i]
    BY <2>3, <2>4, <2>5
  <2> QED BY <2>1, <2>4, <2>6 DEF r
<1> QED BY <1>1, <1>2

(* What the pump stores is ahead of the cursor as long as lines come in    *)
(* the order of their numbers.                                             *)
LEMMA PushesAhead ==
  ASSUME FollowInv, NEW line \in Numbered, PushLine(line),
         handled' = Append(handled, line), UNCHANGED followVars
  PROVE  /\ lines' \in Seq(Numbered) /\ handled' \in Seq(Numbered)
         /\ CursorHandled' /\ FollowedSoFar'
<1> DEFINE replace == lastWasTransient[line.proc]
<1>1. /\ handled \in Seq(Numbered) /\ lines \in Seq(Numbered) /\ followed \in Seq(Numbered)
      /\ cursor \in Nat /\ cursor' = cursor /\ followed' = followed
      /\ \A j \in DOMAIN lines : Contains(handled, lines[j])
      /\ cursor = 0 \/ \E i \in DOMAIN handled : handled[i].seq = cursor
  BY DEF FollowInv, NumberedOK, CursorHandled, followVars
<1>2. lines' = Stored(lines, replace, line)
  BY DEF PushLine
<1> HIDE DEF replace
<1>3. /\ lines' \in Seq(Numbered)
      /\ \A j \in DOMAIN lines' : lines'[j] = line \/ \E i \in DOMAIN lines : lines'[j] = lines[i]
  BY <1>1, <1>2, StoredAmong
<1>4. /\ handled' \in Seq(Numbered) /\ Len(handled) \in Nat /\ Len(handled') = Len(handled) + 1
      /\ handled'[Len(handled) + 1] = line /\ \A i \in 1..Len(handled) : handled'[i] = handled[i]
      /\ DOMAIN handled = 1..Len(handled) /\ DOMAIN handled' = 1..Len(handled')
      /\ Len(handled) + 1 \in 1..Len(handled') /\ \A i \in 1..Len(handled) : i \in 1..Len(handled')
  BY <1>1
<1>5. CursorHandled'
  <2>1. ASSUME NEW j \in DOMAIN lines' PROVE Contains(handled', lines'[j])
    <3>1. CASE lines'[j] = line
      BY <1>4, <3>1 DEF Contains
    <3>2. CASE \E i \in DOMAIN lines : lines'[j] = lines[i]
      <4>1. Contains(handled, lines'[j])
        BY <1>1, <3>2
      <4> QED BY <1>4, <4>1 DEF Contains
    <3> QED BY <1>3, <3>1, <3>2
  <2>2. cursor = 0 \/ \E i \in DOMAIN handled' : handled'[i].seq = cursor
    BY <1>1, <1>4
  <2> QED BY <1>1, <2>1, <2>2 DEF CursorHandled
<1>6. FollowedSoFar'
  <2> SUFFICES ASSUME ordered'
               PROVE  /\ Increasing(lines') /\ Increasing(followed')
                      /\ \A i \in DOMAIN followed' : followed'[i].seq <= cursor'
                      /\ \A j \in DOMAIN lines' : lines'[j].seq <= cursor' => Contains(followed', lines'[j])
    BY DEF FollowedSoFar
  <2>1. ordered /\ Increasing(lines') /\ Increasing(handled')
    BY DEF PushLine
  <2>2. /\ Increasing(followed) /\ \A i \in DOMAIN followed : followed[i].seq <= cursor
        /\ \A j \in DOMAIN lines : lines[j].seq <= cursor => Contains(followed, lines[j])
    BY <2>1 DEF FollowInv, FollowedSoFar
  <2>3. \A i \in DOMAIN handled : handled[i].seq < line.seq
    BY <1>4, <2>1 DEF Increasing
  <2>4. line.seq > cursor
    <3>1. line.seq \in Nat /\ line.seq > 0
      BY DEF Numbered
    <3> QED BY <1>1, <2>3, <3>1
  <2>5. \A j \in DOMAIN lines' : lines'[j].seq <= cursor => Contains(followed, lines'[j])
    <3> SUFFICES ASSUME NEW j \in DOMAIN lines', lines'[j].seq <= cursor
                 PROVE  Contains(followed, lines'[j])
      OBVIOUS
    <3>1. line.seq \in Nat
      BY DEF Numbered
    <3>2. lines'[j] # line
      BY <1>1, <2>4, <3>1
    <3> QED BY <1>3, <2>2, <3>2
  <2> QED BY <1>1, <2>1, <2>2, <2>5 DEF Increasing
<1> QED BY <1>3, <1>4, <1>5, <1>6

LEMMA PumpsFollow == ASSUME FollowInv, PumpsEvent PROVE FollowInv'
<1> DEFINE ev == Head(events)
<1>1. /\ events # <<>> /\ events \in Seq(NumberedEvents) /\ events' = Tail(events)
      /\ UNCHANGED <<readVars, followVars>> /\ NumberedOK
  BY DEF FollowInv, NumberedOK, PumpsEvent
<1>2. ev \in NumberedEvents /\ events' \in Seq(NumberedEvents)
  BY <1>1
<1>3. \/ ev.kind = "line" /\ PushLine(ev.line) /\ handled' = Append(handled, ev.line)
      \/ ev.kind # "line" /\ UNCHANGED <<handled, storeVars>>
  BY DEF PumpsEvent
<1> HIDE DEF ev
<1>4. CASE ev.kind = "line" /\ PushLine(ev.line) /\ handled' = Append(handled, ev.line)
  <2>1. ev.line \in Numbered
    BY <1>2, <1>4 DEF NumberedEvents
  <2>2. lines' \in Seq(Numbered) /\ handled' \in Seq(Numbered) /\ CursorHandled' /\ FollowedSoFar'
    BY <1>1, <1>4, <2>1, PushesAhead
  <2>3. NumberedOK'
    BY <1>1, <1>2, <2>2 DEF NumberedOK, readVars, followVars
  <2> QED BY <2>2, <2>3 DEF FollowInv
<1>5. CASE UNCHANGED <<handled, storeVars>>
  <2>1. NumberedOK'
    BY <1>1, <1>2, <1>5, NumberedStays DEF NumberedOK, readVars
  <2> QED BY <1>1, <1>5, <2>1, FollowStays
<1> QED BY <1>3, <1>4, <1>5

(* The page goes on where the cursor is.                                   *)
LEMMA FollowsOn == ASSUME FollowInv, Follows PROVE FollowInv'
<1> DEFINE new == Newer(lines)
           n == Len(new)
           m == Len(followed)
<1>1. /\ handled \in Seq(Numbered) /\ lines \in Seq(Numbered) /\ followed \in Seq(Numbered)
      /\ cursor \in Nat /\ CursorHandled
  BY DEF FollowInv, NumberedOK
<1>2. /\ new # <<>> /\ followed' = followed \o new /\ cursor' = new[n].seq
      /\ UNCHANGED <<readVars, events, handled, storeVars>>
  BY DEF Follows, Last
<1>3. Paged(lines, new, Len(lines))
  BY <1>1, NewerPaged
<1> HIDE DEF new
<1>4. /\ new \in Seq(Numbered)
      /\ \A h \in 1..n : new[h].seq > cursor /\ \E j \in 1..Len(lines) : new[h] = lines[j]
  BY <1>3 DEF Paged
<1>5. /\ n \in Nat \ {0} /\ n \in 1..n /\ m \in Nat /\ DOMAIN lines = 1..Len(lines)
      /\ DOMAIN followed = 1..m /\ DOMAIN followed' = 1..(m + n)
      /\ followed' \in Seq(Numbered) /\ Len(followed') = m + n
      /\ \A i \in 1..m : followed'[i] = followed[i]
      /\ \A h \in 1..n : followed'[m + h] = new[h] /\ new[h] \in Numbered
      /\ \A i \in 1..(m + n) : i \in 1..m \/ \E h \in 1..n : i = m + h
  <2>1. \A i \in 1..(m + n) : i \in 1..m \/ (i - m \in 1..n /\ i = m + (i - m))
    BY <1>1, <1>4
  <2> QED BY <1>1, <1>2, <1>4, <2>1
<1> HIDE DEF n, m
<1>6. cursor' \in Nat /\ \A h \in 1..n : new[h].seq \in Nat
  BY <1>2, <1>5 DEF Numbered
<1>7. NumberedOK'
  <2>1. /\ wrote' = wrote /\ pty' = pty /\ nextSeq' = nextSeq /\ inHand' = inHand
        /\ events' = events /\ handled' = handled /\ lines' = lines
    BY <1>2 DEF readVars, storeVars
  <2> QED BY <1>5, <1>6, <2>1 DEF FollowInv, NumberedOK
<1>8. /\ handled' = handled /\ lines' = lines /\ ordered' = ordered
  BY <1>2 DEF storeVars
<1>9. CursorHandled'
  <2>1. PICK j \in 1..Len(lines) : new[n] = lines[j]
    BY <1>4, <1>5
  <2>2. Contains(handled, new[n])
    BY <1>1, <1>5, <2>1 DEF CursorHandled
  <2>3. \E i \in DOMAIN handled : handled[i].seq = cursor'
    BY <1>1, <1>2, <2>2 DEF Contains
  <2> QED BY <1>1, <1>8, <2>3 DEF CursorHandled
<1>10. FollowedSoFar'
  <2> SUFFICES ASSUME ordered
               PROVE  /\ Increasing(followed')
                      /\ \A i \in DOMAIN followed' : followed'[i].seq <= cursor'
                      /\ \A j \in DOMAIN lines : lines[j].seq <= cursor' => Contains(followed', lines[j])
                      /\ Increasing(lines)
    BY <1>8 DEF FollowedSoFar, Increasing
  <2>1. /\ Increasing(lines) /\ Increasing(followed) /\ \A i \in DOMAIN followed : followed[i].seq <= cursor
        /\ \A j \in DOMAIN lines : lines[j].seq <= cursor => Contains(followed, lines[j])
    BY DEF FollowInv, FollowedSoFar
  <2>2. /\ \A g, h \in 1..n : g < h => new[g].seq < new[h].seq
        /\ \A j \in 1..Len(lines) : lines[j].seq > cursor =>
             Contains(new, lines[j]) \/ \A h \in 1..n : new[h].seq < lines[j].seq
    BY <1>3, <2>1 DEF Paged, n
  <2>3. \A h \in 1..n : new[h].seq <= cursor'
    <3> SUFFICES ASSUME NEW h \in 1..n PROVE new[h].seq <= cursor'
      OBVIOUS
    <3>1. h = n \/ h < n
      BY <1>5
    <3> QED BY <1>2, <1>5, <1>6, <2>2, <3>1
  <2>4. cursor < cursor'
    BY <1>2, <1>4, <1>5, <1>6
  <2>5. \A i \in 1..m : followed[i].seq \in Nat /\ followed[i].seq <= cursor
    <3>1. \A i \in 1..m : followed[i] \in Numbered
      BY <1>1, <1>5
    <3> QED BY <1>5, <2>1, <3>1 DEF Numbered
  <2>6. ASSUME NEW i \in 1..(m + n) PROVE followed'[i].seq <= cursor'
    <3>1. CASE i \in 1..m
      BY <1>1, <1>5, <1>6, <2>4, <2>5, <3>1
    <3>2. CASE \E h \in 1..n : i = m + h
      BY <1>5, <2>3, <3>2
    <3> QED BY <1>5, <3>1, <3>2
  <2>7. ASSUME NEW i \in 1..(m + n), NEW j \in 1..(m + n), i < j
        PROVE  followed'[i].seq < followed'[j].seq
    <3>1. CASE i \in 1..m /\ j \in 1..m
      BY <1>5, <2>1, <2>7, <3>1 DEF Increasing
    <3>2. CASE i \in 1..m /\ \E h \in 1..n : j = m + h
      <4>1. PICK h \in 1..n : j = m + h
        BY <3>2
      <4>2. new[h].seq > cursor /\ new[h].seq \in Nat
        BY <1>4, <1>6
      <4>3. followed[i].seq < new[h].seq
        BY <1>1, <2>5, <3>2, <4>2
      <4> QED BY <1>5, <3>2, <4>1, <4>3
    <3>3. CASE \E g \in 1..n : i = m + g
      <4>1. PICK g \in 1..n : i = m + g
        BY <3>3
      <4>2. PICK h \in 1..n : j = m + h
        <5>1. ~(j \in 1..m)
          BY <1>5, <2>7, <4>1
        <5> QED BY <1>5, <5>1
      <4>3. g < h
        BY <1>5, <2>7, <4>1, <4>2
      <4> QED BY <1>5, <2>2, <4>1, <4>2, <4>3
    <3> QED BY <1>5, <3>1, <3>2, <3>3
  <2>8. ASSUME NEW j \in 1..Len(lines), lines[j].seq <= cursor' PROVE Contains(followed', lines[j])
    <3>0. lines[j] \in Numbered /\ lines[j].seq \in Nat
      <4>1. lines[j] \in Numbered
        BY <1>1
      <4> QED BY <4>1 DEF Numbered
    <3>1. CASE lines[j].seq <= cursor
      <4>1. Contains(followed, lines[j])
        BY <1>5, <2>1, <3>1
      <4>2. PICK i \in 1..m : followed[i] = lines[j]
        BY <4>1 DEF Contains, m
      <4>3. i \in 1..(m + n)
        BY <1>5
      <4> QED BY <1>5, <4>2, <4>3 DEF Contains
    <3>2. CASE lines[j].seq > cursor
      <4>1. ~(new[n].seq < lines[j].seq)
        BY <1>2, <1>6, <2>8, <3>0
      <4>2. Contains(new, lines[j])
        BY <1>5, <2>2, <3>2, <4>1
      <4>3. PICK h \in 1..n : new[h] = lines[j]
        BY <4>2 DEF Contains, n
      <4>4. m + h \in 1..(m + n)
        BY <1>5
      <4> QED BY <1>5, <4>3, <4>4 DEF Contains
    <3> QED BY <1>1, <3>0, <3>1, <3>2
  <2> QED BY <1>5, <2>1, <2>6, <2>7, <2>8 DEF Increasing
<1> QED BY <1>7, <1>9, <1>10 DEF FollowInv

LEMMA FollowStep == FollowInv /\ [LogNext]_outputVars => FollowInv'
<1> SUFFICES ASSUME FollowInv, [LogNext]_outputVars PROVE FollowInv'
  OBVIOUS
<1>1. NumberedOK
  BY DEF FollowInv
<1>2. CASE UNCHANGED outputVars
  <2>1. UNCHANGED <<handled, storeVars, followVars, readVars, events>>
    BY <1>2 DEF outputVars
  <2>2. NumberedOK'
    BY <1>1, <2>1, NumberedStays DEF NumberedOK, readVars
  <2> QED BY <2>1, <2>2, FollowStays
<1>3. ASSUME NEW p \in Outputs,
             (\E end \in LineEnds : Writes(p, end)) \/ ChildExits(p) \/ Emits(p) \/ Sends(p) \/ Reports(p)
      PROVE  FollowInv'
  BY <1>1, <1>3, PrintsNumbered, FollowStays
<1>4. CASE RunDone \/ OutputRead
  <2>1. UNCHANGED <<readVars, handled, storeVars, followVars>>
    BY <1>4 DEF RunDone, OutputRead
  <2>2. events' = events \/ events' = Append(events, [kind |-> "flush"])
    BY <1>4 DEF RunDone, OutputRead
  <2>3. [kind |-> "flush"] \in NumberedEvents
    BY DEF NumberedEvents
  <2>4. events' \in Seq(NumberedEvents)
    <3>1. events \in Seq(NumberedEvents)
      BY <1>1 DEF NumberedOK
    <3> DEFINE flush == [kind |-> "flush"]
    <3>2. flush \in NumberedEvents /\ (events' = events \/ events' = Append(events, flush))
      BY <2>2, <2>3
    <3> HIDE DEF flush
    <3> QED BY <3>1, <3>2
  <2>5. NumberedOK'
    BY <1>1, <2>1, <2>4, NumberedStays DEF NumberedOK, readVars
  <2> QED BY <2>1, <2>5, FollowStays
<1> QED BY <1>2, <1>3, <1>4, PumpsFollow, FollowsOn DEF LogNext

(* However slowly a browser asks, and however many processes print, it is  *)
(* sent each line once and in order, and nothing the store still has is    *)
(* behind its cursor unsent, for any store and any page, as long as lines  *)
(* come in the order of their numbers and keep it in the store (serve.rs:  *)
(* logs_stream; state.rs: logs_since).                                     *)
THEOREM FollowedOnceAlways == LogSpec => []FollowedOnce
<1>1. LogInit => FollowInv
  BY DEF LogInit, FollowInv, NumberedOK, CursorHandled, FollowedSoFar, Increasing
<1>2. FollowInv => FollowedOnce
  BY DEF FollowInv, FollowedSoFar, FollowedOnce
<1> QED BY <1>1, <1>2, FollowStep, PTL DEF LogSpec
=============================================================================
