------------------------------ MODULE MCParts ------------------------------
(***************************************************************************)
(* Instances for TLC of the parts that share no state with each other: the *)
(* task cache, a terminal session, the way of the output, the history, the *)
(* crash loop, the selection of nodes, a child's environment, `up`s in one *)
(* workspace and what a configuration declares. A behaviour is one of one  *)
(* part; the others stay as they began.                                    *)
(***************************************************************************)
EXTENDS MCTaskCache, Session, OutputLog, History, CrashLoop, Select, ChildEnv, Up, Resolve

CONSTANTS
  a, b, c, x1, x2,           \* model values: nodes, terminals
  c1, c2, plain, B, det      \* clients, keys

VARIABLE part

(* What one read of a keyboard may return: the sequence that detaches comes *)
(* whole, or split between two reads, or after a lead that is a key.        *)
Reads == {<<B>>, <<det>>, <<plain, B, det>>, <<B, B, det>>}

ClientSymmetry == Permutations({c1, c2})

TwoAndOne == [o \in {p, q} |-> IF o = p THEN 2 ELSE 1]

(* The project's env file must be there, the node's own need not.          *)
OneOptional == <<TRUE, FALSE>>

Parts == {"cache", "session", "output", "history", "crash", "select", "env", "up", "declared"}

(* What is asked once, in the initial state, and does not change.          *)
settledVars == <<question, child, declared, part>>
partVars == <<vars, sessionVars, outputVars, historyVars, crashVars, upVars, settledVars>>

(* Where a part stands that is not looked at.                              *)
AnAsk == CHOOSE r \in Requests : TRUE
AQuestion == [kind |-> "order", deps |-> [n \in Names |-> {}], roots |-> {}]
AChild == [setting |-> CHOOSE s \in Settings : ~s.strict, world |-> CHOOSE w_ \in Worlds : TRUE]

ADeclaration == CHOOSE d_ \in Declarations : ~Accepted(d_)

PartInit ==
  /\ part \in Parts
  /\ Init /\ (part # "cache" => asked = AnAsk)
  /\ SessionInit /\ LogInit /\ HistInit /\ CrashInit /\ UpInit
  /\ \/ part = "select" /\ SelectInit
     \/ part # "select" /\ question = AQuestion
  /\ \/ part = "env" /\ EnvInit
     \/ part # "env" /\ child = AChild
  /\ \/ part = "declared" /\ ResolveInit
     \/ part # "declared" /\ declared = ADeclaration

PartNext ==
  \/ /\ part = "cache" /\ Next
     /\ UNCHANGED <<sessionVars, outputVars, historyVars, crashVars, upVars, settledVars>>
  \/ /\ part = "session" /\ SessionNext
     /\ UNCHANGED <<vars, outputVars, historyVars, crashVars, upVars, settledVars>>
  \/ /\ part = "output" /\ LogNext
     /\ UNCHANGED <<vars, sessionVars, historyVars, crashVars, upVars, settledVars>>
  \/ /\ part = "history" /\ HistNext
     /\ UNCHANGED <<vars, sessionVars, outputVars, crashVars, upVars, settledVars>>
  \/ /\ part = "crash" /\ CrashNext
     /\ UNCHANGED <<vars, sessionVars, outputVars, historyVars, upVars, settledVars>>
  \/ /\ part = "up" /\ UpNext
     /\ UNCHANGED <<vars, sessionVars, outputVars, historyVars, crashVars, settledVars>>

PartSpec == PartInit /\ [][PartNext]_partVars
=============================================================================
