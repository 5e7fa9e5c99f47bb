------------------------------ MODULE Session ------------------------------
(***************************************************************************)
(* `turborust connect`: terminals attached over the control socket to the  *)
(* pty of one supervised node (src/control.rs: attach, connect; src/proc.rs*)
(* pump; src/engine.rs: claim_attach).                                     *)
(*                                                                         *)
(* The node's child prints chunks, numbered in order. A reader thread      *)
(* sends each to whoever listens and then keeps it as scrollback. A        *)
(* session forwards chunks to its client and the client's frames to the    *)
(* child; a frame crosses the socket as three writes: kind, length, body.  *)
(* Both ends select over reading a frame and something else, and drop the  *)
(* read that is under way with what it has taken: the stream is torn.      *)
(***************************************************************************)
EXTENDS Naturals, Sequences, FiniteSets, SequencesExt, Functions

CONSTANTS
  Clients,
  KeyReads,       \* what one read of a keyboard may return: sequences of keys
  Lead,       \* Ctrl-B
  DetachKey,  \* `d`
  MaxSteps,   \* bounds chunks printed, reads of a keyboard and starts of the child
  Scrollback, \* chunks kept for a client that attaches later
  Backlog     \* chunks held for a client that is behind

ASSUME SessionAssumption ==
  /\ {MaxSteps, Scrollback, Backlog} \subseteq Nat
  /\ \A keys \in KeyReads : keys \in Seq(ToSet(keys))

VARIABLES
  steps,      \* counts towards MaxSteps
  life,       \* how often the child has been started
  running,    \* whether it still runs
  printed,    \* the chunks it has printed
  pump,       \* the reader thread: idle, or holding a chunk it has [to send | sent]
  back,       \* the scrollback
  claimed,    \* the attach slot of the node is taken
  at,         \* at[c]: the session of c: away, asked, claimed, subscribed, open,
              \* over, refused
  of,         \* of[c]: the child c's session is attached to
  queue,      \* queue[c]: chunks broadcast to c and not yet forwarded
  lagged,     \* lagged[c]: some were dropped, c being behind
  replayed,   \* replayed[c]: the scrollback c was sent when it attached
  shown,      \* shown[c]: the chunks c was sent after that
  heardAt,    \* heardAt[c], keptAt[c]: the last chunk broadcast, the last one
  keptAt,     \* in the scrollback, when c began to listen
  smeared,    \* smeared[c]: what c takes no longer begins where a frame does
  typed,      \* typed[c]: the keys read from c's keyboard
  sent,       \* sent[c]: the keys c has sent
  armed,      \* armed[c]: the last key read was a lead, the one before it not
  carried,    \* carried[c]: so it was before the read with which c detached
  gone,       \* gone[c]: the client has left
  wire,       \* wire[c]: pieces of frames on their way from c
  got,        \* got[c]: the pieces of a frame read_frame has taken so far
  torn,       \* torn[c]: what read_frame takes no longer begins where a frame does
  fed         \* fed[c]: what c's frames have written to the child they were for

childVars  == <<steps, life, running, printed, pump, back>>
streamVars == <<queue, lagged, replayed, shown, heardAt, keptAt>>
keyVars    == <<typed, sent, armed, carried, gone, wire>>
feedVars   == <<got, torn, fed>>
sessionVars == <<childVars, claimed, at, of, streamVars, smeared, keyVars, feedVars>>

SessionInit ==
  LET none == [c \in Clients |-> <<>>]
      zero == [c \in Clients |-> 0]
      no   == [c \in Clients |-> FALSE]
  IN
  /\ steps = 0 /\ life = 1 /\ running = TRUE /\ printed = 0 /\ pump = <<>> /\ back = <<>>
  /\ claimed = FALSE /\ at = [c \in Clients |-> "away"] /\ of = zero
  /\ queue = none /\ lagged = no /\ replayed = none /\ shown = none
  /\ heardAt = zero /\ keptAt = zero
  /\ smeared = no
  /\ typed = none /\ sent = none /\ armed = no /\ carried = no
  /\ gone = no /\ wire = none
  /\ got = none /\ torn = no /\ fed = none

LastOnes(s, n) == SubSeq(s, IF Len(s) > n THEN Len(s) - n + 1 ELSE 1, Len(s))

-----------------------------------------------------------------------------
(* pump: a chunk is read; it goes to those who listen, if anyone does; it  *)
(* becomes scrollback.                                                     *)
Bug_Listening(c) ==   \* the session listens after the replay only
  at[c] = "open" /\ of[c] = life

Listening(c) == at[c] \in {"subscribed", "open"} /\ of[c] = life

Prints ==
  /\ running /\ pump = <<>> /\ steps < MaxSteps /\ steps' = steps + 1
  /\ printed' = printed + 1 /\ pump' = <<"send", printed'>>
  /\ UNCHANGED <<life, running, back, claimed, at, of, streamVars, smeared, keyVars, feedVars>>

Broadcasts ==
  /\ pump # <<>> /\ pump[1] = "send"
  /\ pump' = <<"keep", pump[2]>>
  /\ queue' = [c \in Clients |->
       IF Listening(c) THEN LastOnes(Append(queue[c], pump[2]), Backlog) ELSE queue[c]]
  /\ lagged' = [c \in Clients |->
       lagged[c] \/ (Listening(c) /\ Len(queue[c]) = Backlog)]
  /\ UNCHANGED <<steps, life, running, printed, back, claimed, at, of, replayed, shown, heardAt,
                 keptAt, smeared, keyVars, feedVars>>

Keeps ==
  /\ pump # <<>> /\ pump[1] = "keep"
  /\ back' = LastOnes(Append(back, pump[2]), Scrollback)
  /\ pump' = <<>>
  /\ UNCHANGED <<steps, life, running, printed, claimed, at, of, streamVars, smeared, keyVars, feedVars>>

(* The child exits, and the supervisor forgets its handle; it may start    *)
(* another. Both have a pty of their own.                                  *)
Exits ==
  /\ running /\ pump = <<>> /\ running' = FALSE
  /\ UNCHANGED <<steps, life, printed, pump, back, claimed, at, of, streamVars, smeared, keyVars, feedVars>>

Respawns ==
  /\ ~running /\ steps < MaxSteps /\ steps' = steps + 1
  /\ life' = life + 1 /\ running' = TRUE /\ printed' = 0 /\ back' = <<>>
  /\ UNCHANGED <<pump, claimed, at, of, streamVars, smeared, keyVars, feedVars>>

-----------------------------------------------------------------------------
(* attach: the handle is looked up, the slot is claimed, the session       *)
(* listens, and what is in the scrollback is replayed.                     *)
Enter(c, phase) == at' = [at EXCEPT ![c] = phase]
Holds(c) == at[c] \in {"claimed", "subscribed", "open"}

Asks(c) ==
  /\ at[c] = "away" /\ ~gone[c]
  /\ Enter(c, IF running THEN "asked" ELSE "refused")
  /\ of' = [of EXCEPT ![c] = life]
  /\ UNCHANGED <<childVars, claimed, streamVars, smeared, keyVars, feedVars>>

Claims(c) ==
  /\ at[c] = "asked"
  /\ Enter(c, IF claimed THEN "refused" ELSE "claimed")
  /\ claimed' = TRUE
  /\ UNCHANGED <<childVars, of, streamVars, smeared, keyVars, feedVars>>

(* The last chunk that went to those who listen, and the last that became  *)
(* scrollback: the reader thread may be between the two.                   *)
Heard == IF pump # <<>> /\ pump[1] = "send" THEN printed - 1 ELSE printed
Backed  == IF pump = <<>> THEN printed ELSE printed - 1

Subscribes(c) ==
  /\ at[c] = "claimed"
  /\ Enter(c, "subscribed")
  /\ heardAt' = [heardAt EXCEPT ![c] = IF of[c] = life THEN Heard ELSE 0]
  /\ keptAt' = [keptAt EXCEPT ![c] = IF of[c] = life THEN Backed ELSE 0]
  /\ UNCHANGED <<childVars, claimed, of, queue, lagged, replayed, shown, smeared, keyVars,
                 feedVars>>

(* A child that has gone keeps its scrollback as long as its handle is     *)
(* held, but a session that old has nothing left to tell apart.            *)
ReplaysBack(c) ==
  /\ at[c] = "subscribed"
  /\ Enter(c, "open")
  /\ replayed' = [replayed EXCEPT ![c] = IF of[c] = life THEN back ELSE <<>>]
  /\ UNCHANGED <<childVars, claimed, of, queue, lagged, shown, heardAt, keptAt, smeared, keyVars, feedVars>>

(* AttachGuard: however a session ends, the slot is free.                  *)
Bug_Leave(c) ==   \* the slot is freed for a client that said goodbye only
  Enter(c, "over") /\ claimed' = (claimed /\ ~gone[c])

Leave(c) == Enter(c, "over") /\ claimed' = FALSE

(* The select loop: a chunk is forwarded. The read_frame under way is      *)
(* dropped, and with it the pieces it has taken.                           *)
Forwards(c) ==
  /\ at[c] = "open" /\ queue[c] # <<>>
  /\ shown' = [shown EXCEPT ![c] = Append(@, Head(queue[c]))]
  /\ queue' = [queue EXCEPT ![c] = Tail(@)]
  /\ got' = [got EXCEPT ![c] = <<>>]
  /\ torn' = [torn EXCEPT ![c] = @ \/ got[c] # <<>>]
  /\ UNCHANGED <<childVars, claimed, at, of, lagged, replayed, heardAt, keptAt, smeared,
                 keyVars, fed>>

(* read_frame takes a piece. The third ends the frame, and its keys are    *)
(* written to the child, if it still runs; if not, the session is over.    *)
Takes(c) ==
  LET piece == Head(wire[c])
      frame == Append(got[c], piece)
  IN
  /\ at[c] = "open" /\ ~torn[c] /\ wire[c] # <<>>
  /\ wire' = [wire EXCEPT ![c] = Tail(@)]
  /\ got' = [got EXCEPT ![c] = IF Len(frame) = 3 THEN <<>> ELSE frame]
  /\ IF Len(frame) = 3 /\ (~running \/ of[c] # life)
     THEN Leave(c) /\ fed' = fed
     ELSE /\ fed' = IF Len(frame) = 3 THEN [fed EXCEPT ![c] = @ \o piece[2]] ELSE fed
          /\ UNCHANGED <<claimed, at>>
  /\ UNCHANGED <<childVars, of, streamVars, smeared, typed, sent, armed, carried,
                 gone, torn>>

(* Where it takes the rest of a frame for the beginning of one, what comes *)
(* is passed over, an error that ends the session, or keys nobody typed.   *)
Misreads(c) ==
  /\ at[c] = "open" /\ torn[c] /\ wire[c] # <<>>
  /\ wire' = [wire EXCEPT ![c] = <<>>]
  /\ \/ Leave(c) /\ fed' = fed
     \/ fed' \in {fed, [fed EXCEPT ![c] = Append(@, "garbled")]} /\ UNCHANGED <<claimed, at>>
  /\ UNCHANGED <<childVars, of, streamVars, smeared, typed, sent, armed, carried,
                 gone, got, torn>>

(* The client has left: read_frame fails once all has been read, or else a *)
(* chunk cannot be written.                                                *)
HangsUp(c) ==
  /\ Holds(c) /\ gone[c] /\ (wire[c] = <<>> \/ queue[c] # <<>>)
  /\ Leave(c)
  /\ UNCHANGED <<childVars, of, streamVars, smeared, keyVars, feedVars>>

-----------------------------------------------------------------------------
(* The client. detach_split: what to send of one read, with the lead held  *)
(* over from the read before, and whether to detach after it. If it does   *)
(* not detach the read is sent as it is, with the lead it may end in. A    *)
(* lead after a lead is a key.                                             *)
ArmedAt(keys, lead) ==
  LET is[i \in 0..Len(keys)] == IF i = 0 THEN lead ELSE keys[i] = Lead /\ ~is[i-1] IN is

DetachesAt(keys, lead) ==
  {i \in DOMAIN keys : keys[i] = DetachKey /\ ArmedAt(keys, lead)[i-1]}

Bug_Split(keys, lead) ==   \* up to the `d`, as if the lead had been typed for the child
  IF DetachesAt(keys, lead) = {} THEN [send |-> keys, leaves |-> FALSE]
  ELSE [send |-> SubSeq(keys, 1, Min(DetachesAt(keys, lead)) - 1), leaves |-> TRUE]

Split(keys, lead) ==
  LET first == Min(DetachesAt(keys, lead))
  IN  IF DetachesAt(keys, lead) = {} THEN [send |-> keys, leaves |-> FALSE]
      ELSE [send   |-> (IF lead /\ first > 1 THEN <<Lead>> ELSE <<>>)
                          \o SubSeq(keys, 1, first - 2),
            leaves |-> TRUE]

(* write_frame: three writes.                                              *)
Frame(keys) == IF keys = <<>> THEN <<>> ELSE <<<<1, "stdin">>, <<2, Len(keys)>>, <<3, keys>>>>

(* What was typed is sent. The read of output under way is dropped, and if *)
(* a chunk has arrived in part, what follows is not read as it was sent.   *)
Types(c, keys) ==
  LET split == Split(keys, armed[c]) IN
  /\ at[c] = "open" /\ ~gone[c] /\ steps < MaxSteps
  /\ steps' = steps + 1
  /\ typed' = [typed EXCEPT ![c] = @ \o keys]
  /\ sent' = [sent EXCEPT ![c] = @ \o split.send]
  /\ armed' = [armed EXCEPT ![c] = ArmedAt(keys, @)[Len(keys)]]
  /\ carried' = [carried EXCEPT ![c] = split.leaves /\ armed[c]]
  /\ gone' = [gone EXCEPT ![c] = split.leaves]
  /\ wire' = [wire EXCEPT ![c] = @ \o Frame(split.send)]
  /\ \/ smeared' = smeared
     \/ replayed[c] \o shown[c] # <<>> /\ smeared' = [smeared EXCEPT ![c] = TRUE]
  /\ UNCHANGED <<life, running, printed, pump, back, claimed, at, of, streamVars, feedVars>>

(* The client is killed, or its terminal closed.                           *)
Dies(c) ==
  /\ Holds(c) /\ ~gone[c]
  /\ gone' = [gone EXCEPT ![c] = TRUE]
  /\ UNCHANGED <<childVars, claimed, at, of, streamVars, smeared, typed, sent, armed,
                 carried, wire, feedVars>>

Attached(c) ==
  \/ Asks(c) \/ Claims(c) \/ Subscribes(c) \/ ReplaysBack(c)
  \/ Forwards(c) \/ Takes(c) \/ Misreads(c) \/ HangsUp(c)

SessionNext ==
  \/ Prints \/ Broadcasts \/ Keeps \/ Exits \/ Respawns
  \/ \E c \in Clients : Attached(c) \/ Dies(c) \/ \E keys \in KeyReads : Types(c, keys)

(* The reader thread, the sessions and the supervisor keep running; nobody *)
(* has to type.                                                            *)
SessionFair ==
  /\ WF_sessionVars(Broadcasts) /\ WF_sessionVars(Keeps) /\ WF_sessionVars(Respawns)
  /\ \A c \in Clients : WF_sessionVars(Claims(c) \/ Subscribes(c) \/ ReplaysBack(c))
                     /\ WF_sessionVars(Forwards(c)) /\ WF_sessionVars(Takes(c) \/ Misreads(c))
                     /\ WF_sessionVars(HangsUp(c))

SessionSpec == SessionInit /\ [][SessionNext]_sessionVars /\ SessionFair

-----------------------------------------------------------------------------
(* The slot is taken exactly while one session holds it.                   *)
OneTerminal ==
  /\ \A c, d \in Clients : Holds(c) /\ Holds(d) => c = d
  /\ claimed = (\E c \in Clients : Holds(c))

(* What was typed, without the sequence that detaches and what follows it. *)
Meant(keys) ==
  IF DetachesAt(keys, FALSE) = {} THEN keys ELSE SubSeq(keys, 1, Min(DetachesAt(keys, FALSE)) - 2)

(* The child reads what was typed for it, in order, each key once, save    *)
(* that a client detaching with a read that finds a lead pending has sent  *)
(* one lead more: it went with the read that ended in it. So it is while   *)
(* no frame was dropped in its middle.                                     *)
InputIntact ==
  \A c \in Clients :
    LET meant == Meant(typed[c])
    IN  \/ torn[c]
        \/ IsPrefix(fed[c], meant)
        \/ carried[c] /\ \E i \in 1..Len(meant) + 1 : IsPrefix(fed[c], InsertAt(meant, i, Lead))

(* detach_split: "If it is the last byte we have, wait for the next read   *)
(* to decide." The lead that begins a detach is not for the child.         *)
DetachUnseen == \A c \in Clients : torn[c] \/ IsPrefix(fed[c], Meant(typed[c]))

(* A client is sent a replay and then what is broadcast, each in order,    *)
(* each chunk once, without a gap unless it lagged. The replay reaches     *)
(* what had been kept when the client began to listen, and what follows    *)
(* begins with the chunk after the last that had been broadcast: none can  *)
(* be missing but the one the reader thread held then, and none comes      *)
(* twice but those printed while the client attached. All is the child's.  *)
Runs(s) == \A i \in 2..Len(s) : s[i] = s[i-1] + 1

OutputIntact ==
  \A c \in Clients :
    /\ Runs(replayed[c])
    /\ replayed[c] # <<>> => replayed[c][Len(replayed[c])] >= keptAt[c]
    /\ \A i, j \in DOMAIN shown[c] : i < j => shown[c][i] < shown[c][j]
    /\ shown[c] # <<>> => shown[c][1] > heardAt[c]
    /\ ~lagged[c] => Runs(shown[c]) /\ (shown[c] # <<>> => shown[c][1] = heardAt[c] + 1)
    /\ of[c] = life => ToSet(replayed[c]) \cup ToSet(shown[c]) \subseteq 1..printed

(* A session does not outlive the child it is attached to.                 *)
AttachEnds ==
  \A c \in Clients : (Holds(c) /\ (of[c] # life \/ ~running)) ~> ~Holds(c)
=============================================================================
