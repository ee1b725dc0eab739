------------------------- MODULE RegistrationProofs -------------------------
(***************************************************************************)
(* For any builds, registration ids and number of lost messages, what was  *)
(* answered is what is registered, and the Backend believes only what has  *)
(* happened; first, what the lifecycle of a build promises by itself.      *)
(***************************************************************************)
EXTENDS Registration, TLAPS

LifeInv == TypeOK /\ ReadableIsAvailable

LEMMA LifeStepPreserves ==
    ASSUME LifeInv, NEW b \in Builds,
           \/ Submit(b) \/ Start(b) \/ Fail(b) \/ Materialize(b) \/ Publish(b)
           \/ Acknowledge(b) \/ Deprecate(b) \/ BeginPurge(b) \/ Remove(b) \/ EndPurge(b)
    PROVE  LifeInv'
<1> USE DEF LifeInv, TypeOK, ReadableIsAvailable, Readable, Phases, Move
<1>1. CASE Submit(b) \/ Start(b) \/ Fail(b) \/ Acknowledge(b) \/ Deprecate(b) \/ BeginPurge(b)
  BY <1>1 DEF Submit, Start, Fail, Acknowledge, Deprecate, BeginPurge
<1>2. CASE Materialize(b)
  BY <1>2 DEF Materialize
<1>3. CASE Publish(b)
  BY <1>3 DEF Publish
<1>4. CASE Remove(b)
  BY <1>4 DEF Remove
<1>5. CASE EndPurge(b)
  BY <1>5 DEF EndPurge
<1> QED
  BY <1>1, <1>2, <1>3, <1>4, <1>5

\* A build that may be read is in the store and was announced, and an
\* announced build that is deleted is not in the store any more.
THEOREM ReadableBuildsAreAvailable == Spec => []ReadableIsAvailable
<1>1. Init => LifeInv
  BY DEF Init, LifeInv, TypeOK, ReadableIsAvailable, Readable, Phases
<1>2. LifeInv /\ [Next]_lifeVars => LifeInv'
  <2>1. CASE UNCHANGED lifeVars
    BY <2>1 DEF lifeVars, LifeInv, TypeOK, ReadableIsAvailable
  <2> QED
    BY <2>1, LifeStepPreserves DEF Next
<1>3. LifeInv => ReadableIsAvailable
  BY DEF LifeInv
<1> QED
  BY <1>1, <1>2, <1>3, PTL DEF Spec
-----------------------------------------------------------------------------

Ops == {"ack", "deprecate", "purge"}
Messages == [op : Ops, build : Builds, reg : RegIds \cup {None},
             hash : {"announced", "other", None}]

\* The variables and the messages under way have their types.
Shape ==
    /\ life \in [Builds -> Phases]
    /\ registered \in [Builds -> RegIds \cup {None}]
    /\ catalog \in [Builds -> RegIds \cup {None}]
    /\ told \in [Builds -> Ops \cup {"none"}]
    /\ requests \subseteq Messages
    /\ answers \subseteq Messages

\* A purge under way is for a build that failed or whose deprecation the Backend has
\* learnt of.
RequestsInv ==
    \A m \in requests :
        m.op = "purge" => \/ told[m.build] \in {"deprecate", "purge"}
                          \/ life[m.build] \in {"failed", "deleting", "deleted"}

\* What an answer under way says is still true, as long as it can teach something.
AnswersInv ==
    \A a \in answers :
        /\ a.op = "ack" => life[a.build] \in {"ready", "deprecated", "deleting", "deleted"}
        /\ a.op = "ack" /\ told[a.build] = "none" => life[a.build] \in {"ready", "deprecated"}
        /\ a.op = "deprecate" => life[a.build] \in {"deprecated", "deleting", "deleted"}
        /\ a.op = "purge" => life[a.build] = "deleted"

Inv == Shape /\ RequestsInv /\ AnswersInv /\ AnsweredIsRegistered /\ ToldIsTrue

LEMMA InvInit == RegistrationInit => Inv
  BY DEF RegistrationInit, Init, Inv, Shape, RequestsInv, AnswersInv, AnsweredIsRegistered,
         ToldIsTrue, Phases, Ops

\* A build moves; messages, catalog and what was accepted stay.  A build that
\* reached a phase which messages or the catalog tell of stays beyond it.
LEMMA BuildKeeps ==
    ASSUME Inv, NEW b \in Builds, Build(b)
    PROVE  Inv'
<1>1. /\ registered' = registered /\ catalog' = catalog /\ told' = told
      /\ requests' = requests /\ answers' = answers
  BY DEF Build, net
<1>2. \/ life' = life
      \/ /\ life[b] \in {"none", "pending", "building"}
         /\ \E to \in {"pending", "building", "failed", "registering"} :
               life' = [life EXCEPT ![b] = to]
  BY DEF Build, Submit, Start, Fail, Materialize, Publish, Remove, Move
<1>3. CASE life' = life
  BY <1>1, <1>3 DEF Inv, Shape, RequestsInv, AnswersInv, AnsweredIsRegistered, ToldIsTrue
<1>4. CASE /\ life[b] \in {"none", "pending", "building"}
           /\ \E to \in {"pending", "building", "failed", "registering"} :
                 life' = [life EXCEPT ![b] = to]
  <2>1. Shape'  BY <1>1, <1>4 DEF Inv, Shape, Phases
  <2>2. RequestsInv'  BY <1>1, <1>4 DEF Inv, Shape, RequestsInv
  <2>3. AnswersInv'  BY <1>1, <1>4 DEF Inv, Shape, AnswersInv
  <2>4. AnsweredIsRegistered'  BY <1>1, <1>4 DEF Inv, Shape, AnsweredIsRegistered
  <2>5. ToldIsTrue'  BY <1>1, <1>4 DEF Inv, Shape, ToldIsTrue
  <2> QED  BY <2>1, <2>2, <2>3, <2>4, <2>5 DEF Inv
<1> QED  BY <1>2, <1>3, <1>4

LEMMA FinishPurgeKeeps ==
    ASSUME Inv, NEW b \in Builds, FinishPurge(b)
    PROVE  Inv'
<1>1. /\ registered' = registered /\ catalog' = catalog /\ told' = told /\ requests' = requests
      /\ life[b] = "deleting" /\ life' = [life EXCEPT ![b] = "deleted"]
      /\ answers' \subseteq answers \cup {Ask("purge", b)}
  BY DEF FinishPurge, EndPurge, Move
<1>2. Shape'  BY <1>1 DEF Inv, Shape, Phases, Ask, Request, Messages, Ops
<1>3. RequestsInv'  BY <1>1 DEF Inv, Shape, RequestsInv
<1>4. AnswersInv'  BY <1>1 DEF Inv, Shape, AnswersInv, Ask, Request
<1>5. AnsweredIsRegistered'  BY <1>1 DEF Inv, Shape, AnsweredIsRegistered, Ask, Request
<1>6. ToldIsTrue'  BY <1>1 DEF Inv, Shape, ToldIsTrue
<1> QED  BY <1>2, <1>3, <1>4, <1>5, <1>6 DEF Inv

\* An accepted ACK registers a build of which no ACK was answered yet; its repetition
\* adds an answer for the same id.
LEMMA ReceiveAckKeeps ==
    ASSUME Inv, NEW m \in requests, ReceiveAck(m)
    PROVE  Inv'
<1>1. /\ catalog' = catalog /\ told' = told /\ requests' \subseteq requests
      /\ m.op = "ack" /\ m \in Messages
      /\ m.build \in Builds /\ m.reg \in RegIds \cup {None}
  BY DEF ReceiveAck, Receive, Inv, Shape, Messages
<1>2. CASE /\ Accepted(m) /\ Acknowledge(m.build)
           /\ /\ registered' = [registered EXCEPT ![m.build] = m.reg] /\ Say(m)
  <2>1. /\ m.hash = "announced" /\ life[m.build] = "registering" /\ life' = [life EXCEPT ![m.build] = "ready"]
        /\ answers' = answers \cup {m}
    BY <1>1, <1>2 DEF Accepted, Acknowledge, Move, Say
  <2>2. Shape'  BY <1>1, <1>2, <2>1 DEF Inv, Shape, Phases, Ops
  <2>3. RequestsInv'  BY <1>1, <1>2, <2>1 DEF Inv, Shape, RequestsInv
  <2>4. AnswersInv'  BY <1>1, <1>2, <2>1 DEF Inv, Shape, AnswersInv
  <2>5. AnsweredIsRegistered'
    <3>1. \A a \in answers : a.op = "ack" => a.build # m.build
      BY <2>1 DEF Inv, AnswersInv
    <3>2. told[m.build] \notin {"ack", "deprecate"}
      BY <1>1, <2>1 DEF Inv, ToldIsTrue
    <3> QED  BY <1>1, <1>2, <2>1, <3>1, <3>2 DEF Inv, Shape, Messages, AnsweredIsRegistered
  <2>6. ToldIsTrue'  BY <1>1, <1>2, <2>1 DEF Inv, Shape, ToldIsTrue
  <2> QED  BY <2>2, <2>3, <2>4, <2>5, <2>6 DEF Inv
<1>3. CASE Repeated(m) /\ Say(m) /\ UNCHANGED <<lifeVars, registered>>
  <2>1. /\ life[m.build] = "ready" /\ life' = life /\ registered' = registered
        /\ m.hash = "announced" /\ m.reg = registered[m.build]
        /\ answers' = answers \cup {m}
    BY <1>1, <1>3 DEF Repeated, Say, lifeVars
  <2> QED
    BY <1>1, <2>1 DEF Inv, Shape, Ops, RequestsInv, AnswersInv, AnsweredIsRegistered, ToldIsTrue
<1>4. CASE UNCHANGED <<lifeVars, registered, answers>>
  BY <1>1, <1>4 DEF lifeVars, Inv, Shape, RequestsInv, AnswersInv, AnsweredIsRegistered, ToldIsTrue
<1> QED  BY <1>2, <1>3, <1>4 DEF ReceiveAck

LEMMA ReceiveDeprecateKeeps ==
    ASSUME Inv, NEW m \in requests, ReceiveDeprecate(m)
    PROVE  Inv'
<1>1. /\ registered' = registered /\ catalog' = catalog /\ told' = told
      /\ requests' \subseteq requests /\ m.op = "deprecate"
      /\ m \in Messages /\ m.build \in Builds
  BY DEF ReceiveDeprecate, Receive, Inv, Shape, Messages
<1>2. CASE Deprecate(m.build) /\ Say(m)
  <2>1. /\ life[m.build] = "ready" /\ life' = [life EXCEPT ![m.build] = "deprecated"]
        /\ answers' = answers \cup {m}
    BY <1>1, <1>2 DEF Deprecate, Move, Say
  <2>2. Shape'  BY <1>1, <2>1 DEF Inv, Shape, Phases, Ops
  <2>3. RequestsInv'  BY <1>1, <2>1 DEF Inv, Shape, RequestsInv
  <2>4. AnswersInv'  BY <1>1, <2>1 DEF Inv, Shape, AnswersInv
  <2>5. AnsweredIsRegistered'  BY <1>1, <2>1 DEF Inv, Shape, AnsweredIsRegistered
  <2>6. ToldIsTrue'  BY <1>1, <2>1 DEF Inv, Shape, ToldIsTrue
  <2> QED  BY <2>2, <2>3, <2>4, <2>5, <2>6 DEF Inv
<1>3. CASE life[m.build] = "deprecated" /\ Say(m) /\ UNCHANGED lifeVars
  <2>1. /\ life' = life
        /\ answers' = answers \cup {m}
    BY <1>1, <1>3 DEF Say, lifeVars
  <2> QED
    BY <1>1, <1>3, <2>1
       DEF Inv, Shape, Ops, RequestsInv, AnswersInv, AnsweredIsRegistered, ToldIsTrue
<1>4. CASE UNCHANGED <<lifeVars, answers>>
  BY <1>1, <1>4 DEF lifeVars, Inv, Shape, RequestsInv, AnswersInv, AnsweredIsRegistered, ToldIsTrue
<1> QED  BY <1>2, <1>3, <1>4 DEF ReceiveDeprecate

\* A purge begins on a build that the Backend does not take for READY: what it was
\* told of the deprecation stays true of a build that is being purged.
LEMMA ReceivePurgeKeeps ==
    ASSUME Inv, NEW m \in requests, ReceivePurge(m)
    PROVE  Inv'
<1>1. /\ registered' = registered /\ catalog' = catalog /\ told' = told
      /\ requests' \subseteq requests /\ m.op = "purge"
      /\ m \in Messages /\ m.build \in Builds
  BY DEF ReceivePurge, Receive, Inv, Shape, Messages
<1>2. CASE BeginPurge(m.build) /\ UNCHANGED answers
  <2>1. /\ life[m.build] \in {"failed", "deprecated"}
        /\ life' = [life EXCEPT ![m.build] = "deleting"] /\ answers' = answers
    BY <1>2 DEF BeginPurge, Move
  <2>2. life[m.build] = "deprecated" => told[m.build] \in {"deprecate", "purge"}
    BY <1>1 DEF Inv, RequestsInv
  <2>3. Shape'  BY <1>1, <2>1 DEF Inv, Shape, Phases
  <2>4. RequestsInv'  BY <1>1, <2>1 DEF Inv, Shape, RequestsInv
  <2>5. AnswersInv'  BY <1>1, <2>1, <2>2 DEF Inv, Shape, AnswersInv
  <2>6. AnsweredIsRegistered'  BY <1>1, <2>1 DEF Inv, Shape, AnsweredIsRegistered
  <2>7. ToldIsTrue'  BY <1>1, <2>1, <2>2 DEF Inv, Shape, ToldIsTrue
  <2> QED  BY <2>3, <2>4, <2>5, <2>6, <2>7 DEF Inv
<1>3. CASE Finished(m) /\ Say(m) /\ UNCHANGED lifeVars
  <2>1. /\ life[m.build] = "deleted" /\ life' = life
        /\ answers' = answers \cup {m}
    BY <1>1, <1>3 DEF Finished, Say, lifeVars
  <2> QED
    BY <1>1, <2>1 DEF Inv, Shape, Ops, RequestsInv, AnswersInv, AnsweredIsRegistered, ToldIsTrue
<1>4. CASE UNCHANGED <<lifeVars, answers>>
  BY <1>1, <1>4 DEF lifeVars, Inv, Shape, RequestsInv, AnswersInv, AnsweredIsRegistered, ToldIsTrue
<1> QED  BY <1>2, <1>3, <1>4 DEF ReceivePurge

\* A build is committed once, under one id, before the Backend heard of its ACK.
LEMMA CommitKeeps ==
    ASSUME Inv, NEW b \in Builds, Commit(b)
    PROVE  Inv'
<1>1. PICK reg \in RegIds : catalog' = [catalog EXCEPT ![b] = reg]
  BY DEF Commit
<1>2. /\ life' = life /\ registered' = registered /\ told' = told /\ requests' = requests
      /\ answers' = answers /\ life[b] = "registering"
  BY DEF Commit, lifeVars, net
<1>3. Shape'  BY <1>1, <1>2 DEF Inv, Shape
<1>4. told[b] \notin {"ack", "deprecate"}  BY <1>2 DEF Inv, ToldIsTrue
<1>5. AnsweredIsRegistered'  BY <1>1, <1>2, <1>4 DEF Inv, Shape, AnsweredIsRegistered
<1> QED  BY <1>2, <1>3, <1>5 DEF Inv, RequestsInv, AnswersInv, ToldIsTrue

\* A purge is sent only when the knowledge of the Backend calls for it.
LEMMA SendKeeps ==
    ASSUME Inv, NEW b \in Builds,
           SendAck(b) \/ SendDeprecate(b) \/ SendPurge(b) \/ SendStray(b)
    PROVE  Inv'
<1>1. /\ life' = life /\ registered' = registered /\ catalog' = catalog /\ told' = told
      /\ answers' = answers
  BY DEF SendAck, SendDeprecate, SendPurge, SendStray, Send, lifeVars
<1>2. Shape' /\ RequestsInv'
  <2>1. CASE SendAck(b)
    BY <1>1, <2>1 DEF SendAck, OwnAck, Send, Request, Messages, Inv, Shape, Ops, RequestsInv
  <2>2. CASE SendDeprecate(b)
    BY <1>1, <2>2 DEF SendDeprecate, Ask, Send, Request, Messages, Inv, Shape, Ops, RequestsInv
  <2>3. CASE SendPurge(b)
    BY <1>1, <2>3 DEF SendPurge, Ask, Send, Request, Messages, Inv, Shape, Ops, RequestsInv
  <2>4. CASE SendStray(b)
    BY <1>1, <2>4 DEF SendStray, Send, Request, Messages, Inv, Shape, Ops, RequestsInv
  <2> QED  BY <2>1, <2>2, <2>3, <2>4
<1> QED  BY <1>1, <1>2 DEF Inv, AnswersInv, AnsweredIsRegistered, ToldIsTrue

\* An answer that comes after a newer one teaches nothing.
LEMMA LearnKeeps ==
    ASSUME Inv, NEW a \in answers, Learn(a)
    PROVE  Inv'
<1>1. /\ life' = life /\ registered' = registered /\ catalog' = catalog /\ requests' = requests
      /\ answers' \subseteq answers /\ a.op \in Ops /\ a.build \in Builds
  BY DEF Learn, lifeVars, Inv, Shape, Messages
<1>2. told' = [told EXCEPT ![a.build] =
                  IF told[a.build] \in Before(a.op) THEN a.op ELSE told[a.build]]
  BY DEF Learn
<1>3. /\ a.op = "ack" => Before(a.op) = {"none"}
      /\ a.op = "deprecate" => Before(a.op) = {"ack"}
      /\ a.op = "purge" => Before(a.op) = {"none", "deprecate"}
  BY <1>1 DEF Before, Ops
<1>4. Shape'  BY <1>1, <1>2 DEF Inv, Shape
<1>5. RequestsInv'  BY <1>1, <1>2, <1>3 DEF Inv, Shape, Ops, RequestsInv
<1>6. AnswersInv'  BY <1>1, <1>2, <1>3 DEF Inv, Shape, Ops, AnswersInv
<1>7. AnsweredIsRegistered'
  <2>1. a.op = "ack" => a.reg = catalog[a.build]
    BY DEF Learn, OwnAck, Request
  <2>2. \A b \in Builds : told'[b] \in {"ack", "deprecate"} => registered[b] = catalog[b]
    <3> SUFFICES ASSUME NEW b \in Builds, told'[b] \in {"ack", "deprecate"},
                        told'[b] # told[b]
                 PROVE  registered[b] = catalog[b]
      BY DEF Inv, AnsweredIsRegistered
    <3>1. b = a.build /\ a.op = told'[b] /\ told[b] \in Before(a.op)
      BY <1>1, <1>2 DEF Inv, Shape
    <3>2. CASE a.op = "ack"  BY <2>1, <3>1, <3>2 DEF Inv, AnsweredIsRegistered
    <3>3. CASE a.op = "deprecate"  BY <1>3, <3>1, <3>3 DEF Inv, AnsweredIsRegistered
    <3> QED  BY <3>1, <3>2, <3>3
  <2> QED  BY <1>1, <2>2 DEF Inv, AnsweredIsRegistered
<1>8. ToldIsTrue'  BY <1>1, <1>2, <1>3 DEF Inv, Shape, Ops, AnswersInv, ToldIsTrue
<1> QED  BY <1>4, <1>5, <1>6, <1>7, <1>8 DEF Inv

LEMMA InvStep ==
    ASSUME Inv, [RegistrationNext]_vars
    PROVE  Inv'
<1>1. CASE UNCHANGED vars
  BY <1>1 DEF vars, net, lifeVars, Inv, Shape, RequestsInv, AnswersInv, AnsweredIsRegistered, ToldIsTrue
<1>2. CASE Lose
  BY <1>2 DEF Lose, lifeVars, Inv, Shape, RequestsInv, AnswersInv, AnsweredIsRegistered, ToldIsTrue
<1> QED
  BY <1>1, <1>2, BuildKeeps, FinishPurgeKeeps, ReceiveAckKeeps, ReceiveDeprecateKeeps,
     ReceivePurgeKeeps, CommitKeeps, SendKeeps, LearnKeeps DEF RegistrationNext

\* Whatever is lost, late or repeated, and whoever else acknowledges: an ACK is
\* answered for the accepted id and the announced hash only, and once the Backend has
\* had its answer the build is registered as the catalog says (acknowledge_registration).
THEOREM AnsweredIsAlwaysRegistered == RegistrationSpec => []AnsweredIsRegistered
<1>1. Inv => AnsweredIsRegistered  BY DEF Inv
<1> QED  BY <1>1, InvInit, InvStep, PTL DEF RegistrationSpec

\* What the Backend was told of a build's registration, deprecation or purge is
\* true at every later time (the replays of the three calls).
THEOREM ToldIsAlwaysTrue == RegistrationSpec => []ToldIsTrue
<1>1. Inv => ToldIsTrue  BY DEF Inv
<1> QED  BY <1>1, InvInit, InvStep, PTL DEF RegistrationSpec
=============================================================================
