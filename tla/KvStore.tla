------------------------------ MODULE KvStore ------------------------------
(***************************************************************************)
(* What the storage engine promises its callers: one current record per   *)
(* key.  A mutation takes effect at one instant and is acknowledged       *)
(* afterwards; a read answers from the state of one instant; a call may   *)
(* fail, and a mutation that fails may already have taken effect          *)
(* (LsmTree::write inserts first and reports a failed flush afterwards).  *)
(*                                                                         *)
(* A record is an element of Record, 0 means "no record".                  *)
(***************************************************************************)
CONSTANTS Key, Client, Record

VARIABLES
  store,    \* store[k]: the record a reader of k is entitled to, or 0
  phase,    \* phase[c]: "idle", or "applied" between effect and reply
  reply     \* reply[c]: the last answer given to c

kvVars == <<store, phase, reply>>

NoRecords == [k \in Key |-> 0]

KvInit ==
  /\ store = NoRecords
  /\ phase = [c \in Client |-> "idle"]
  /\ reply = [c \in Client |-> [status |-> "none", val |-> NoRecords]]

Answer(c, status, val) ==
  /\ phase' = [phase EXCEPT ![c] = "idle"]
  /\ reply' = [reply EXCEPT ![c] = [status |-> status, val |-> val]]

\* A write (v in Record) or a delete (v = 0) of k takes effect.
Apply(c, k, v) ==
  /\ phase[c] = "idle"
  /\ store' = [store EXCEPT ![k] = v]
  /\ phase' = [phase EXCEPT ![c] = "applied"]
  /\ UNCHANGED reply

Ack(c) ==
  /\ phase[c] = "applied"
  /\ Answer(c, "ok", NoRecords)
  /\ UNCHANGED store

\* A read of the keys ks, all of them at one instant.
Read(c, ks) ==
  /\ phase[c] = "idle"
  /\ Answer(c, "ok", [k \in Key |-> IF k \in ks THEN store[k] ELSE 0])
  /\ UNCHANGED store

Fail(c) ==
  /\ Answer(c, "err", NoRecords)
  /\ UNCHANGED store

KvNext ==
  \E c \in Client :
    \/ \E k \in Key, v \in Record \cup {0} : Apply(c, k, v)
    \/ Ack(c)
    \/ \E ks \in SUBSET Key : Read(c, ks)
    \/ Fail(c)

KvSpec == KvInit /\ [][KvNext]_kvVars
=============================================================================
