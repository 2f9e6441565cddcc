------------------------------ MODULE AuditTrail ------------------------------
(* The audit trail of payment-service (pkg/audit): a table whose every row holds *)
(* the hash of the row before it. Entries are written inside the transaction of  *)
(* what they are about, one such transaction at a time, and the chain is read    *)
(* again, page by page, to verify it. A trigger and the missing grants keep the  *)
(* service from changing a row; someone at the database can (Tamper).            *)
(* A hash is the value it is computed from: equal hashes mean equal rows.        *)
EXTENDS Integers, Sequences, FiniteSets, SequencesExt

CONSTANTS Scribes,     \* transactions that write an entry
          Payloads,    \* what entries are about: fields, each "plain" or "secret"
          VerifyPage,  \* rows VerifyAll reads at a time
          MaxTrail     \* length of the trail

ASSUME AuditTrailAssumption == VerifyPage \in Nat \ {0} /\ MaxTrail \in Nat

VARIABLES auditLog,     \* table audit_log in order of seq
          scribe,    \* what each transaction is at
          verifier,  \* the verification under way, or its verdict
          damage     \* what was done to the table behind the service's back

trailVars == <<auditLog, scribe, verifier, damage>>

GenesisHash == << >>
NoDamage == [how |-> "none", middle |-> FALSE]
TrailInit == /\ auditLog = << >> /\ scribe = [s \in Scribes |-> [step |-> "idle"]]
             /\ verifier = [step |-> "idle"] /\ damage = NoDamage
-----------------------------------------------------------------------------
(* Scrub: what is sensitive by its name is replaced, and the entry kept. *)
IsSensitiveKey(field) == field = "secret"
Scrub(payload) == {IF IsSensitiveKey(f) THEN "redacted" ELSE f : f \in payload}
(* canonical: the number, the hash of the row before, and every field. *)
ComputeHash(r) == <<r.seq, r.prev, r.content>>

Top == IF auditLog = << >> THEN [seq |-> 0, hash |-> GenesisHash] ELSE Last(auditLog)
(* RecordTx: the lock is the transaction's until it ends, so the row read as the *)
(* top stays the top. The row is the transaction's own until it commits.        *)
RecordTx(s, payload) ==
    /\ scribe[s].step = "idle"
    /\ \A t \in Scribes : scribe[t].step # "recorded"
    /\ Len(auditLog) < MaxTrail
    /\ LET r == [seq |-> Top.seq + 1, prev |-> Top.hash, content |-> Scrub(payload)]
       IN scribe' = [scribe EXCEPT ![s] =
                       [step |-> "recorded", row |-> [seq |-> r.seq, prev |-> r.prev,
                                                      content |-> r.content,
                                                      hash |-> ComputeHash(r)]]]
    /\ UNCHANGED <<auditLog, verifier, damage>>
(* The business transaction commits, or takes its entry back with it. A number   *)
(* or hash already in the table is refused.                                     *)
CommitRecord(s) ==
    /\ scribe[s].step = "recorded"
    /\ \A i \in DOMAIN auditLog : auditLog[i].seq # scribe[s].row.seq /\ auditLog[i].hash # scribe[s].row.hash
    /\ auditLog' = Append(auditLog, scribe[s].row)
    /\ scribe' = [scribe EXCEPT ![s] = [step |-> "idle"]]
    /\ UNCHANGED <<verifier, damage>>
RollBackEntry(s) == /\ scribe[s].step = "recorded"
                    /\ scribe' = [scribe EXCEPT ![s] = [step |-> "idle"]]
                    /\ UNCHANGED <<auditLog, verifier, damage>>

(* Someone makes a row say something else, with or without its hash, or removes it. *)
Tamper(i, how) ==
    LET forged == [auditLog[i] EXCEPT !.content = {"forged"}]
    IN  /\ damage = NoDamage
        /\ how # "deleted" => forged # auditLog[i]
        /\ damage' = [how |-> how, middle |-> i < Len(auditLog)]
        /\ auditLog' = CASE how = "edited"   -> [auditLog EXCEPT ![i] = forged]
                        [] how = "rehashed" ->
                             [auditLog EXCEPT ![i] = [forged EXCEPT !.hash = ComputeHash(forged)]]
                        [] how = "deleted"  -> RemoveAt(auditLog, i)
        /\ UNCHANGED <<scribe, verifier>>

(* VerifyChain: what is wrong with rows that follow the hash prev. *)
\* Mutant: only the numbers and each row's own hash are looked at.
BrokenInside(rows, prev) ==
    \E i \in DOMAIN rows : \/ i > 1 /\ rows[i].seq # rows[i - 1].seq + 1
                           \/ rows[i].hash # ComputeHash(rows[i])
Broken(rows, prev) ==
    \E i \in DOMAIN rows : \/ i > 1 /\ rows[i].seq # rows[i - 1].seq + 1
                           \/ rows[i].prev # (IF i = 1 THEN prev ELSE rows[i - 1].hash)
                           \/ rows[i].hash # ComputeHash(rows[i])
(* List: a page of the rows with this number or a later one, in their order. *)
RowsBefore(number) == CHOOSE k \in 0..Len(auditLog) :
                         \A i \in DOMAIN auditLog : i <= k <=> auditLog[i].seq < number
List(from) == LET first == RowsBefore(from) + 1
                  last == first + VerifyPage - 1
              IN  SubSeq(auditLog, first, IF last < Len(auditLog) THEN last ELSE Len(auditLog))
(* VerifyAll reads a page with a statement of its own, and goes on from the last *)
(* number it saw.                                                               *)
StartVerify == /\ verifier.step # "reading"
               /\ verifier' = [step |-> "reading", from |-> 0, prev |-> GenesisHash, met |-> damage]
               /\ UNCHANGED <<auditLog, scribe, damage>>
VerifyNext ==
    /\ verifier.step = "reading"
    /\ LET page == List(verifier.from)
       IN verifier' = IF page = << >> THEN [verifier EXCEPT !.step = "valid"]
                      ELSE IF Broken(page, verifier.prev) THEN [verifier EXCEPT !.step = "broken"]
                      ELSE [verifier EXCEPT !.from = Last(page).seq + 1, !.prev = Last(page).hash]
    /\ UNCHANGED <<auditLog, scribe, damage>>

TrailNext == \/ \E s \in Scribes : \/ \E p \in Payloads : RecordTx(s, p)
                                   \/ CommitRecord(s) \/ RollBackEntry(s)
             \/ \E i \in DOMAIN auditLog, how \in {"edited", "rehashed", "deleted"} : Tamper(i, how)
             \/ StartVerify \/ VerifyNext
TrailSpec == TrailInit /\ [][TrailNext]_trailVars
-----------------------------------------------------------------------------
(* Every variable holds a value of its kind. *)
TrailTypeOK ==
    /\ Len(auditLog) <= MaxTrail
    /\ \A s \in Scribes : scribe[s].step \in {"idle", "recorded"}
    /\ verifier.step \in {"idle", "reading", "valid", "broken"}
    /\ damage.how \in {"none", "edited", "rehashed", "deleted"}

(* A verification tells: entries written while it reads never make it report a   *)
(* break, and a chain it calls valid was not touched before it began, but for the *)
(* row that was then the last (removed, or rewritten together with its hash).    *)
AVerificationTells ==
    /\ verifier.step = "broken" => damage # NoDamage
    /\ verifier.step = "valid" =>
          verifier.met = NoDamage \/ (~verifier.met.middle /\ verifier.met.how # "edited")
=============================================================================
