----------------------------- MODULE HareHandler -----------------------------
(***************************************************************************)
(* Hare.Handler (src/hare3/hare.go), the pubsub validator of hare3         *)
(* messages, run concurrently for every delivered message, against the    *)
(* session registry h.sessions that onLayer fills and run's epilogue       *)
(* empties. A handler                                                      *)
(*   1. looks the session of msg.Layer up under h.mu and releases h.mu,    *)
(*   2. reads atxsdata.IsMalicious(sender) and grades the message with     *)
(*      the oracle (grade0: rejected),                                     *)
(*   3. calls session.OnInput under the protocol's own mutex,              *)
(*   4. if OnInput returned an equivocation and the sender was not         *)
(*      malicious at step 2, saves the proof (identities.SetMalicious,     *)
(*      whose error is only logged) and marks the sender in atxsdata.      *)
(* Decoding and signature checks are pure and pass for the messages here. *)
(*                                                                         *)
(* protocol.OnInput is not in this repository; its equivocation detection *)
(* is modelled from the specification (4.1): one message per sender and   *)
(* round, a second distinct one yields a proof and makes the sender an    *)
(* equivocator of the session, after which no further proof is returned. *)
(* All messages are of one round.                                         *)
(***************************************************************************)
EXTENDS Naturals, FiniteSets

CONSTANTS Layers, Senders, Values, NoValue, Msgs

ASSUME Msgs \subseteq [layer : Layers, sender : Senders, value : Values]

VARIABLES
  sessions,  \* h.sessions: the layers with a registered protocol
  opened,    \* layers onLayer has already handled
  hpc,       \* per message: "idle", "looked", "graded", "input", "done"
  mal,       \* per message: IsMalicious(sender) as read at step 2
  proof,     \* per message: OnInput returned an equivocation
  seen,      \* per layer and sender: the value of its message in the round
  equiv,     \* per layer: the session's equivocators
  atxMal,    \* atxsdata's malicious flag per sender
  dbWrites   \* per sender: proofs identities.SetMalicious has stored

vars == <<sessions, opened, hpc, mal, proof, seen, equiv, atxMal, dbWrites>>

-----------------------------------------------------------------------------
(* protocol.OnInput, as far as equivocation goes.                          *)

\* The proof OnInput returns for m: the sender already sent another value
\* in this session and is not yet one of its equivocators.
Equivocates(m) ==
  /\ seen[m.layer][m.sender] \notin {NoValue, m.value}
  /\ m.sender \notin equiv[m.layer]

OnInput(m) ==
  /\ proof' = [proof EXCEPT ![m] = Equivocates(m)]
  /\ seen' = [seen EXCEPT ![m.layer][m.sender] = IF @ = NoValue THEN m.value ELSE @]
  /\ equiv' = [equiv EXCEPT ![m.layer] = IF Equivocates(m) THEN @ \cup {m.sender} ELSE @]

-----------------------------------------------------------------------------
(* The registry.                                                           *)

\* onLayer: a new protocol is registered under h.mu.
OpenSession(l) ==
  /\ l \notin opened
  /\ opened' = opened \cup {l}
  /\ sessions' = sessions \cup {l}
  /\ UNCHANGED <<hpc, mal, proof, seen, equiv, atxMal, dbWrites>>

\* run's epilogue: delete(h.sessions, layer) under h.mu.
CloseSession(l) ==
  /\ l \in sessions
  /\ sessions' = sessions \ {l}
  /\ UNCHANGED <<opened, hpc, mal, proof, seen, equiv, atxMal, dbWrites>>

-----------------------------------------------------------------------------
(* Handler, one message per call.                                          *)

\* The lookup under h.mu; an unregistered layer is rejected.
Lookup(m) ==
  /\ hpc[m] = "idle"
  /\ hpc' = [hpc EXCEPT ![m] = IF m.layer \in sessions THEN "looked" ELSE "done"]
  /\ UNCHANGED <<sessions, opened, mal, proof, seen, equiv, atxMal, dbWrites>>

\* IsMalicious is read, then the oracle grades the message.
Grade(m) ==
  /\ hpc[m] = "looked"
  /\ mal' = [mal EXCEPT ![m] = atxMal[m.sender]]
  /\ \E zero \in BOOLEAN : hpc' = [hpc EXCEPT ![m] = IF zero THEN "done" ELSE "graded"]
  /\ UNCHANGED <<sessions, opened, proof, seen, equiv, atxMal, dbWrites>>

\* session.OnInput on the protocol found at lookup, registered or not by now.
Input(m) ==
  /\ hpc[m] = "graded"
  /\ OnInput(m)
  /\ hpc' = [hpc EXCEPT ![m] = "input"]
  /\ UNCHANGED <<sessions, opened, mal, atxMal, dbWrites>>

\* Mutant: the proof is saved after every OnInput, whether or not it
\* returned an equivocation.
PersistUnguarded(m) ==
  /\ hpc[m] = "input"
  /\ hpc' = [hpc EXCEPT ![m] = "done"]
  /\ IF ~mal[m]
     THEN /\ \E saved \in BOOLEAN :
               dbWrites' = [dbWrites EXCEPT ![m.sender] = IF saved THEN @ + 1 ELSE @]
          /\ atxMal' = [atxMal EXCEPT ![m.sender] = TRUE]
     ELSE UNCHANGED <<atxMal, dbWrites>>
  /\ UNCHANGED <<sessions, opened, mal, proof, seen, equiv>>

\* Mutant: the proof is saved only for senders already known malicious.
PersistInverted(m) ==
  /\ hpc[m] = "input"
  /\ hpc' = [hpc EXCEPT ![m] = "done"]
  /\ IF proof[m] /\ mal[m]
     THEN /\ \E saved \in BOOLEAN :
               dbWrites' = [dbWrites EXCEPT ![m.sender] = IF saved THEN @ + 1 ELSE @]
          /\ atxMal' = [atxMal EXCEPT ![m.sender] = TRUE]
     ELSE UNCHANGED <<atxMal, dbWrites>>
  /\ UNCHANGED <<sessions, opened, mal, proof, seen, equiv>>

\* An equivocation of a sender that was not malicious when read: the proof
\* is saved (or the error logged) and the sender marked in atxsdata.
Persist(m) ==
  /\ hpc[m] = "input"
  /\ hpc' = [hpc EXCEPT ![m] = "done"]
  /\ IF proof[m] /\ ~mal[m]
     THEN /\ \E saved \in BOOLEAN :
               dbWrites' = [dbWrites EXCEPT ![m.sender] = IF saved THEN @ + 1 ELSE @]
          /\ atxMal' = [atxMal EXCEPT ![m.sender] = TRUE]
     ELSE UNCHANGED <<atxMal, dbWrites>>
  /\ UNCHANGED <<sessions, opened, mal, proof, seen, equiv>>

Init ==
  /\ sessions = {} /\ opened = {}
  /\ hpc = [m \in Msgs |-> "idle"]
  /\ mal = [m \in Msgs |-> FALSE]
  /\ proof = [m \in Msgs |-> FALSE]
  /\ seen = [l \in Layers |-> [s \in Senders |-> NoValue]]
  /\ equiv = [l \in Layers |-> {}]
  /\ atxMal = [s \in Senders |-> FALSE]
  /\ dbWrites = [s \in Senders |-> 0]

Next ==
  \/ \E l \in Layers : OpenSession(l) \/ CloseSession(l)
  \/ \E m \in Msgs : Lookup(m) \/ Grade(m) \/ Input(m) \/ Persist(m)

Spec == Init /\ [][Next]_vars

-----------------------------------------------------------------------------
(* Properties.                                                             *)

TypeOK ==
  /\ sessions \subseteq Layers /\ opened \subseteq Layers /\ sessions \subseteq opened
  /\ hpc \in [Msgs -> {"idle", "looked", "graded", "input", "done"}]
  /\ mal \in [Msgs -> BOOLEAN] /\ proof \in [Msgs -> BOOLEAN]
  /\ seen \in [Layers -> [Senders -> Values \cup {NoValue}]]
  /\ equiv \in [Layers -> SUBSET Senders]
  /\ atxMal \in [Senders -> BOOLEAN]
  /\ dbWrites \in [Senders -> 0..Cardinality(Layers)]

\* A sender some session found equivocating is marked malicious in
\* atxsdata once no handler of its messages is between OnInput and the
\* save, whichever handler saw the proof and whatever it read before.
EquivocatorFlagged ==
  \A s \in Senders :
    (\E l \in Layers : s \in equiv[l]) /\ (\A m \in Msgs : m.sender = s => hpc[m] # "input")
      => atxMal[s]

\* Specification 8, scenario 3: the identity store receives an
\* equivocator's proof exactly once (Handler saves it only if the sender
\* was not already malicious).
ProofStoredOnce == \A s \in Senders : dbWrites[s] <= 1

=============================================================================
