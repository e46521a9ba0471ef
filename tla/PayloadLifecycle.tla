-------------------------- MODULE PayloadLifecycle --------------------------
(***************************************************************************)
(* What the ingest server promises about one crash event and the payload   *)
(* (core dump) that may follow it, with no tables, transactions, locks or  *)
(* requests in sight.  IngestServer implements this specification.         *)
(*                                                                         *)
(*   absent --> refused                                                    *)
(*          \-> wanted --> offered --> redeemed --> stored                 *)
(*                               \---> lapsed                              *)
(*                                                                         *)
(* An event may stay in any state forever: a batch can fail between wanted *)
(* and offered, an upload between redeemed and stored.                     *)
(***************************************************************************)
EXTENDS Integers

CONSTANTS
    Signature,  \* crash signatures
    Event,      \* event ids
    Quota,      \* payloads kept per signature
    None        \* the subject of an event that is not recorded yet

VARIABLES
    phase,      \* phase[e]: how far the event has come
    subject,    \* subject[e]: the signature of a recorded event
    payloads,   \* payloads[s]: how many payloads are stored for s
    suppressed  \* signatures an operator has closed

vars == <<phase, subject, payloads, suppressed>>

Phase == {"absent", "refused", "wanted", "offered", "lapsed", "redeemed", "stored"}

\* A signature takes further offers only below its quota and while no
\* operator has closed it.
Open(s) == payloads[s] < Quota /\ s \notin suppressed

Init ==
    /\ phase = [e \in Event |-> "absent"]
    /\ subject = [e \in Event |-> None]
    /\ payloads = [s \in Signature |-> 0]
    /\ suppressed = {}

Move(e, from, to) ==
    /\ phase[e] = from
    /\ phase' = [phase EXCEPT ![e] = to]

\* An event is recorded under a signature.  Its payload may be wanted only if
\* the signature is open at that very moment.
Record(e, s) ==
    /\ \/ Move(e, "absent", "refused")
       \/ Open(s) /\ Move(e, "absent", "wanted")
    /\ subject' = [subject EXCEPT ![e] = s]
    /\ UNCHANGED <<payloads, suppressed>>

Offer(e) == Move(e, "wanted", "offered") /\ UNCHANGED <<subject, payloads, suppressed>>

Redeem(e) == Move(e, "offered", "redeemed") /\ UNCHANGED <<subject, payloads, suppressed>>

Lapse(e) == Move(e, "offered", "lapsed") /\ UNCHANGED <<subject, payloads, suppressed>>

\* The payload of a redeemed offer arrives, and is counted exactly once.
Store(e) ==
    /\ Move(e, "redeemed", "stored")
    /\ payloads' = [payloads EXCEPT ![subject[e]] = @ + 1]
    /\ UNCHANGED <<subject, suppressed>>

Suppress(s) ==
    /\ suppressed' = suppressed \cup {s}
    /\ UNCHANGED <<phase, subject, payloads>>

Next ==
    \/ \E e \in Event, s \in Signature : Record(e, s)
    \/ \E e \in Event : Offer(e) \/ Redeem(e) \/ Lapse(e) \/ Store(e)
    \/ \E s \in Signature : Suppress(s)

Spec == Init /\ [][Next]_vars
=============================================================================
