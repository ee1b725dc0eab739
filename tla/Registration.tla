---------------------------- MODULE Registration ----------------------------
(***************************************************************************)
(* The Dataset Manager, by what it promises (BuildLifecycle), beside the   *)
(* Backend that registers its builds.  The Dataset Manager calls nobody:   *)
(* the Backend polls, commits a build to its catalog with a registration   *)
(* id, acknowledges it, and later deprecates and purges it.  Its requests  *)
(* are lost, delivered late or more than once, and so are the answers, so  *)
(* that it repeats a request until it has been answered.  Another client   *)
(* may acknowledge too, with an id or a manifest hash of its own.          *)
(***************************************************************************)
EXTENDS BuildLifecycle, Naturals

CONSTANTS
    RegIds,    \* registration ids of the catalog
    None,      \* no registration id, no manifest hash
    MaxLost    \* bound: lost requests and answers

ASSUME RegistrationAssumption == None \notin RegIds /\ MaxLost \in Nat

VARIABLES
    registered,   \* the registration id the Dataset Manager has accepted
    catalog,      \* the id each build is registered with in the catalog
    told,         \* what the catalog knows of the build's life
    requests,     \* requests under way
    answers,      \* answers under way
    lost          \* requests and answers lost so far

net == <<requests, answers, lost>>
vars == <<lifeVars, registered, catalog, told, net>>

\* A request, which also names the connection that its answer comes on.  The hash of
\* an ACK is the one that the status of the build announces, or another.
Request(op, b, reg, hash) == [op |-> op, build |-> b, reg |-> reg, hash |-> hash]
Ask(op, b) == Request(op, b, None, None)

RegistrationInit ==
    /\ Init
    /\ registered = [b \in Builds |-> None]
    /\ catalog = [b \in Builds |-> None]
    /\ told = [b \in Builds |-> "none"]
    /\ requests = {} /\ answers = {} /\ lost = 0

-----------------------------------------------------------------------------
(* The Dataset Manager.                                                    *)

\* What it does without a request of the Backend.
Build(b) ==
    /\ \/ Submit(b) \/ Start(b) \/ Fail(b) \/ Materialize(b) \/ Publish(b) \/ Remove(b)
    /\ UNCHANGED <<registered, catalog, told, net>>

\* The call that purges ends with its answer, recovery without one.
FinishPurge(b) ==
    /\ EndPurge(b)
    /\ answers' \in {answers, answers \cup {Ask("purge", b)}}
    /\ UNCHANGED <<registered, catalog, told, requests, lost>>

\* The first ACK with the announced hash is accepted, whichever its id.
Accepted(m) == life[m.build] = "registering" /\ m.hash = "announced"

\* A variant of Repeated: a READY build refuses every ACK.
RepeatedRefused(m) == FALSE

\* A variant of Repeated: the id of a repeated ACK is not compared.
RepeatedAnyId(m) == life[m.build] = "ready" /\ m.hash = "announced"

\* A repeated ACK has the id that was accepted, and the hash.
Repeated(m) ==
    life[m.build] = "ready" /\ registered[m.build] = m.reg /\ m.hash = "announced"

\* A request stays under way when it is delivered again later.
Receive(m) == requests' \in {requests, requests \ {m}}
Say(m) == answers' = answers \cup {m}

ReceiveAck(m) ==
    /\ m \in requests /\ m.op = "ack" /\ Receive(m)
    /\ \/ /\ Accepted(m) /\ Acknowledge(m.build)
          /\ registered' = [registered EXCEPT ![m.build] = m.reg]
          /\ Say(m)
       \/ Repeated(m) /\ Say(m) /\ UNCHANGED <<lifeVars, registered>>
       \/ ~Accepted(m) /\ ~Repeated(m) /\ UNCHANGED <<lifeVars, registered, answers>>
    /\ UNCHANGED <<catalog, told, lost>>

ReceiveDeprecate(m) ==
    /\ m \in requests /\ m.op = "deprecate" /\ Receive(m)
    /\ \/ Deprecate(m.build) /\ Say(m)
       \/ life[m.build] = "deprecated" /\ Say(m) /\ UNCHANGED lifeVars
       \/ life[m.build] \notin {"ready", "deprecated"} /\ UNCHANGED <<lifeVars, answers>>
    /\ UNCHANGED <<registered, catalog, told, lost>>

\* A variant of Finished: the same command is answered as soon as it has begun.
FinishedWhenBegun(m) == life[m.build] \in {"deleting", "deleted"}

Finished(m) == life[m.build] = "deleted"

\* A repeated command is refused while the first one runs.
ReceivePurge(m) ==
    /\ m \in requests /\ m.op = "purge" /\ Receive(m)
    /\ \/ BeginPurge(m.build) /\ UNCHANGED answers
       \/ Finished(m) /\ Say(m) /\ UNCHANGED lifeVars
       \/ /\ life[m.build] \notin {"failed", "deprecated"} /\ ~Finished(m)
          /\ UNCHANGED <<lifeVars, answers>>
    /\ UNCHANGED <<registered, catalog, told, lost>>

-----------------------------------------------------------------------------
(* The Backend.                                                            *)

\* It polls the status, verifies the root manifest and commits the build, once.
Commit(b) ==
    /\ life[b] = "registering" /\ catalog[b] = None
    /\ \E reg \in RegIds : catalog' = [catalog EXCEPT ![b] = reg]
    /\ UNCHANGED <<lifeVars, registered, told, net>>

Send(m) ==
    /\ requests' = requests \cup {m}
    /\ UNCHANGED <<lifeVars, registered, catalog, told, answers, lost>>

\* The request the catalog's knowledge of a build calls for, sent until answered.
OwnAck(b) == Request("ack", b, catalog[b], "announced")
SendAck(b) == catalog[b] # None /\ told[b] = "none" /\ Send(OwnAck(b))
SendDeprecate(b) == told[b] = "ack" /\ Send(Ask("deprecate", b))
SendPurge(b) ==
    /\ told[b] = "deprecate" \/ (told[b] = "none" /\ life[b] = "failed")
    /\ Send(Ask("purge", b))

\* Another client acknowledges the announced build, too, or takes it for another one.
SendStray(b) ==
    /\ life[b] \in {"registering", "ready"}
    /\ \E reg \in RegIds, hash \in {"announced", "other"} : Send(Request("ack", b, reg, hash))

\* What the catalog may know before an answer tells it something new.
Before(op) ==
    CASE op = "ack" -> {"none"}
      [] op = "deprecate" -> {"ack"}
      [] op = "purge" -> {"none", "deprecate"}

\* The Backend hears the answers to its own requests only.
Learn(a) ==
    /\ a \in answers /\ (a.op = "ack" => a = OwnAck(a.build))
    /\ answers' \in {answers, answers \ {a}}
    /\ told' = [told EXCEPT ![a.build] = IF @ \in Before(a.op) THEN a.op ELSE @]
    /\ UNCHANGED <<lifeVars, registered, catalog, requests, lost>>

Lose ==
    /\ lost < MaxLost /\ lost' = lost + 1
    /\ \/ \E m \in requests : requests' = requests \ {m} /\ UNCHANGED answers
       \/ \E a \in answers : answers' = answers \ {a} /\ UNCHANGED requests
    /\ UNCHANGED <<lifeVars, registered, catalog, told>>

-----------------------------------------------------------------------------
RegistrationNext ==
    \/ \E b \in Builds :
          Build(b) \/ FinishPurge(b) \/ Commit(b) \/ SendAck(b) \/ SendDeprecate(b) \/ SendPurge(b)
          \/ SendStray(b)
    \/ \E m \in requests : ReceiveAck(m) \/ ReceiveDeprecate(m) \/ ReceivePurge(m)
    \/ \E a \in answers : Learn(a)
    \/ Lose

\* The Backend repeats a request until it is answered, the service answers
\* what arrives, and only MaxLost messages are lost.  Nobody is obliged to
\* deprecate or purge.
Fairness ==
    \A b \in Builds :
        /\ WF_vars(SendAck(b))
        /\ WF_vars(ReceiveAck(OwnAck(b)))
        /\ WF_vars(Learn(OwnAck(b)))

RegistrationSpec == RegistrationInit /\ [][RegistrationNext]_vars /\ Fairness

-----------------------------------------------------------------------------
\* An ACK is answered only with the id that the build is registered under and the hash
\* it announced; so once the Backend has had its answer, READY and later, the build is
\* registered as its catalog says, although others acknowledge it under other ids,
\* earlier, later or again (acknowledge_registration).
AnsweredIsRegistered ==
    /\ \A a \in answers : a.op = "ack" => a.hash = "announced" /\ a.reg = registered[a.build]
    /\ \A b \in Builds : told[b] \in {"ack", "deprecate"} => registered[b] = catalog[b]

\* The Backend never believes more than has happened: an old answer, or the
\* answer to a repeated request, does not make it take a build for READY,
\* withdrawn or gone that is not (the replays of acknowledge_registration,
\* deprecate and purge).
ToldIsTrue ==
    \A b \in Builds :
        /\ told[b] = "ack" => life[b] \in {"ready", "deprecated"}
        /\ told[b] = "deprecate" => life[b] \in {"deprecated", "deleting", "deleted"}
        /\ told[b] = "purge" => life[b] = "deleted"

\* A committed build becomes READY and the Backend learns of it, whichever requests
\* and answers are lost (the replay of acknowledge_registration), unless another
\* client's ACK came first, which refuses the Backend's for good.
RegistrationCompletes ==
    \A b \in Builds : catalog[b] # None ~>
        /\ life[b] # "registering"
        /\ told[b] # "none" \/ registered[b] # catalog[b]
=============================================================================
