--------------------- MODULE TimecardSubmission_proofs ---------------------
(***************************************************************************)
(* Theorems about TimecardSubmission for any number of rows, keys and      *)
(* payloads, any lease and lifetime, any horizon and both backends.        *)
(***************************************************************************)
EXTENDS TimecardSubmission, TLAPS

HadClaim(c)  == held[c].lease > 0
Unsettled(c) == HadClaim(c) /\ ~Stored(c) /\ ~Released(c)

(* A store call never carries a clock reading from the future.             *)
ClockInv == \A c \in Callers : at[c] <= now

(* What the stage of a row says about its other fields.                    *)
StageInv ==
  \A c \in Callers :
    /\ pc[c] = "idle" => key[c] = NoKey
    /\ pc[c] \in {"idle", "claiming", "waiting"} => ~HadClaim(c) /\ ~sent[c]
    /\ pc[c] # "done" => reply[c] = "none" /\ source[c] = NoCaller
    /\ pc[c] \in {"claiming", "waiting", "completing"} => key[c] \in Keys
    /\ pc[c] \in {"claimed", "posted", "completing"} /\ key[c] \in Keys => HadClaim(c)
    /\ pc[c] = "posted" => sent[c]
    /\ pc[c] = "completing" => sent[c] \/ outcome[c] = Unposted
    /\ pc[c] = "completing" => outcome[c] \in Outcomes
    /\ HadClaim(c) => key[c] \in Keys
    /\ sent[c] /\ key[c] \in Keys => HadClaim(c)
    /\ source[c] = c /\ key[c] \in Keys =>
         /\ HadClaim(c)
         /\ sent[c] \/ outcome[c] = Unposted
         /\ reply[c] = outcome[c] /\ reply[c] \in Outcomes

(* A claim that is still live owns its record.                             *)
ClaimInv ==
  \A c \in Callers : Unsettled(c) /\ now < Deadline(c) =>
    /\ records[key[c]].state = "pending"
    /\ records[key[c]].owner = c
    /\ records[key[c]].lease = held[c].lease
    /\ records[key[c]].expires = held[c].expires

(* A memoised result keeps its record until it expires.                    *)
StoredInv ==
  \A c \in Callers : Stored(c) /\ now < held[c].expires =>
    /\ records[key[c]].state = "complete"
    /\ records[key[c]].expires = held[c].expires

(* The owner of a pending record was rightly granted it after every other  *)
(* claimant of the key; the writer of a complete one is a row that was     *)
(* told so.                                                                *)
RecordInv ==
  \A k \in Keys :
    /\ records[k].state = "pending" =>
         LET c == records[k].owner IN
           /\ c \in Callers /\ key[c] = k /\ Unsettled(c)
           /\ records[k].lease = held[c].lease
           /\ records[k].expires = held[c].expires
           /\ \A d \in Callers \ {c} :
                HadClaim(d) /\ key[d] = k => RightlyAfter(d, c)
    /\ records[k].state = "complete" =>
         LET c == records[k].writer IN
           /\ c \in Callers /\ key[c] = k /\ Stored(c) /\ pc[c] = "done"

(* Any two claimants of a key are ordered by a justified second grant.     *)
OrderInv ==
  \A c, d \in Callers :
    c # d /\ HadClaim(c) /\ HadClaim(d) /\ key[c] = key[d]
      => RightlyAfter(c, d) \/ RightlyAfter(d, c)

SourceInv == ReplayIsTruthful /\ LostOnlyAfterDeadline

IInv == /\ TypeOK
        /\ ClockInv
        /\ StageInv
        /\ ClaimInv
        /\ StoredInv
        /\ RecordInv
        /\ OrderInv
        /\ SourceInv
-----------------------------------------------------------------------------
(* Facts about the store's operators.                                      *)

(* Purging the table leaves a table.                                       *)
LEMMA PurgedType ==
  ASSUME TypeOK, NEW when \in Nat
  PROVE  Purged(when) \in [Keys -> Record]
BY DEF TypeOK, StoreTypeOK, Purged, Record, NoRecord

(* A purge removes a record only at or after its expiry.                   *)
LEMMA PurgedKeeps ==
  ASSUME TypeOK, NEW when \in Nat, when <= now, NEW k \in Keys,
         now < records[k].expires
  PROVE  Purged(when)[k] = records[k]
BY DEF TypeOK, StoreTypeOK, Purged, Record

(* A record that survives a purge is unchanged.                            *)
LEMMA PurgedOnly ==
  ASSUME NEW when \in Nat, NEW k \in Keys, Purged(when)[k].state # "absent"
  PROVE  Purged(when)[k] = records[k]
BY DEF Purged, NoRecord

(* The records that complete() writes.                                     *)
LEMMA RecordTypes ==
  ASSUME NEW c \in Callers, NEW r \in Record
  PROVE  /\ CompletedRecord(c, r) \in Record
         /\ NoRecord \in Record
BY DEF CompletedRecord, NoRecord, Record

(* The record that claim() writes, fresh or reclaimed.                     *)
LEMMA GrantedType ==
  ASSUME TypeOK, NEW c \in Callers, NEW k \in Keys,
         NEW h \in Fingerprints \cup {NoCaller}, NEW when \in Nat
  PROVE  GrantedRecord(c, k, h, when) \in Record
<1>. DEFINE r     == records[k]
            until == when + Lease
<1>1. r \in Record
  BY DEF TypeOK, StoreTypeOK
<1>2. until \in Nat
  BY StoreAssumption
<1>3. FreshRecord(c, h, when) \in Record
  BY StoreAssumption DEF FreshRecord, Record
<1>4. [r EXCEPT !.owner = c, !.lease = until] \in Record
  <2>. HIDE DEF until, r
  <2>. QED
    BY <1>1, <1>2 DEF Record
<1>. QED
  BY <1>3, <1>4 DEF GrantedRecord, ReclaimedRecord

(* A granted claim leaves a table.                                         *)
LEMMA GrantType ==
  ASSUME TypeOK, NEW c \in Callers, NEW k \in Keys,
         NEW h \in Fingerprints \cup {NoCaller},
         NEW when \in Nat, Grant(c, k, h, when)
  PROVE  records' \in [Keys -> Record]
BY PurgedType, GrantedType DEF Grant

(* The granted record is pending, with the caller's token and a lease.     *)
LEMMA GrantedFields ==
  ASSUME TypeOK, NEW c \in Callers, NEW k \in Keys, NEW h, NEW when \in Nat,
         Grant(c, k, h, when)
  PROVE  /\ records'[k].state = "pending" /\ records'[k].owner = c
         /\ records'[k].lease > 0
<1>1. records[k] \in Record /\ when + Lease > 0
  BY StoreAssumption DEF TypeOK, StoreTypeOK
<1>2. records'[k] = GrantedRecord(c, k, h, when)
  BY DEF Grant, Purged
<1>3. CASE IsVacant(k, when)
  BY <1>1, <1>2, <1>3 DEF GrantedRecord, FreshRecord
<1>4. CASE ~IsVacant(k, when)
  <2>1. records[k].state = "pending"
    BY <1>4 DEF Grant, IsLapsed
  <2>. QED
    BY <1>1, <1>2, <1>4, <2>1 DEF GrantedRecord, ReclaimedRecord, Record
<1>. QED
  BY <1>3, <1>4

(* A completed or released claim leaves a table.                           *)
LEMMA CompleteType ==
  ASSUME TypeOK, NEW c \in Callers, NEW k \in Keys, NEW when \in Nat,
         NEW ambiguous, Complete(c, k, when, ambiguous)
  PROVE  records' \in [Keys -> Record]
<1>1. records \in [Keys -> Record]
  BY DEF TypeOK, StoreTypeOK
<1>2. CompletedRecord(c, records[k]) \in Record /\ NoRecord \in Record
  BY <1>1, RecordTypes
<1>. QED
  BY <1>1, <1>2 DEF Complete

-----------------------------------------------------------------------------
(* Quiet steps: no claim is granted or settled, records only disappear     *)
(* after their expiry. The invariants that relate claims to records        *)
(* survive every such step.                                                *)
Quiet ==
  /\ now' \in Nat /\ now' >= now
  /\ held' = held
  /\ \/ records' = records
     \/ \E when \in Nat : when <= now /\ records' = Purged(when)
  /\ \A c \in Callers :
       /\ HadClaim(c) => key'[c] = key[c]
       /\ Stored(c)' <=> Stored(c)
       /\ Released(c)' <=> Released(c)
       /\ pc[c] = "done" => pc'[c] = "done"

(* A quiet step keeps every unexpired record and invents none.             *)
LEMMA QuietRecords ==
  ASSUME TypeOK, Quiet, NEW k \in Keys
  PROVE  /\ now < records[k].expires => records'[k] = records[k]
         /\ records'[k].state # "absent" => records'[k] = records[k]
<1>1. CASE records' = records
  BY <1>1
<1>2. CASE \E when \in Nat : when <= now /\ records' = Purged(when)
  BY <1>2, PurgedKeeps, PurgedOnly
<1>. QED
  BY <1>1, <1>2 DEF Quiet

(* A quiet step keeps the reasons for a second grant.                      *)
LEMMA QuietRightlyAfter ==
  ASSUME TypeOK, Quiet, NEW c \in Callers, NEW d \in Callers,
         RightlyAfter(c, d)
  PROVE  RightlyAfter(c, d)'
BY DEF Quiet, RightlyAfter, Deadline

(* A quiet step preserves what relates claims to records.                  *)
LEMMA QuietStep ==
  ASSUME TypeOK, StageInv, ClaimInv, StoredInv, RecordInv, OrderInv, Quiet
  PROVE  ClaimInv' /\ StoredInv' /\ RecordInv' /\ OrderInv'
<1>0. \A c \in Callers : HadClaim(c)' <=> HadClaim(c)
  BY DEF Quiet, HadClaim
<1>1. ClaimInv'
  BY <1>0, QuietRecords DEF ClaimInv, Quiet, Unsettled, Deadline, StageInv, TypeOK, Min2
<1>2. StoredInv'
  BY <1>0, QuietRecords DEF StoredInv, Quiet, StageInv, TypeOK, Stored
<1>3. RecordInv'
  BY <1>0, QuietRecords, QuietRightlyAfter DEF RecordInv, Quiet, StageInv, Unsettled, Stored
<1>4. OrderInv'
  BY <1>0, QuietRightlyAfter DEF OrderInv, Quiet
<1>. QED
  BY <1>1, <1>2, <1>3, <1>4

-----------------------------------------------------------------------------
(* The invariant holds initially.                                          *)

LEMMA InitIInv == Init => IInv
<1>. SUFFICES ASSUME Init
              PROVE  IInv
  OBVIOUS
<1>1. TypeOK
  BY DEF Init, StoreInit, IdleTasks, TypeOK, StoreTypeOK, Record, NoRecord,
         NoClaim, Stages, Replies, Outcomes, Definitive
<1>2. ClockInv /\ StageInv
  BY StoreAssumption, SubmissionAssumption
     DEF Init, IdleTasks, ClockInv, StageInv, HadClaim, NoClaim
<1>3. \A c \in Callers : ~HadClaim(c) /\ ~Stored(c)
  BY StoreAssumption DEF Init, IdleTasks, HadClaim, NoClaim, Stored
<1>4. ClaimInv /\ StoredInv /\ OrderInv
  BY <1>3 DEF ClaimInv, StoredInv, OrderInv, Unsettled
<1>5. RecordInv
  BY DEF Init, StoreInit, RecordInv, NoRecord
<1>6. SourceInv
  BY DEF Init, IdleTasks, SourceInv, ReplayIsTruthful, LostOnlyAfterDeadline
<1>. QED
  BY <1>1, <1>2, <1>4, <1>5, <1>6 DEF IInv

-----------------------------------------------------------------------------
(* Steps that answer a row without settling a claim: refusals, outages,    *)
(* replays.                                                                *)

QuietStore ==
  /\ UNCHANGED backend
  /\ \/ records' = records
     \/ \E when \in Nat : when <= now /\ records' = Purged(when)

(* An answer that settles nothing leaves a table.                          *)
LEMMA QuietStoreType ==
  ASSUME TypeOK, QuietStore
  PROVE  StoreTypeOK'
BY PurgedType DEF TypeOK, StoreTypeOK, QuietStore

(* Any refusal, outage or replay of a settled row preserves the invariant. *)
LEMMA AnswerStep ==
  ASSUME IInv, QuietStore,
         NEW c \in Callers, NEW from \in {"claiming", "waiting", "completing"},
         NEW what \in Replies, NEW by \in Callers \cup {NoCaller},
         Answer(c, from, what, by),
         what \notin Outcomes \cup {"none"} \/ by # NoCaller,
         what = "claim_lost" => Deadline(c) <= now,
         by # NoCaller => /\ key[by] = key[c] /\ pc[by] = "done"
                          /\ Stored(by) /\ what = outcome[by]
  PROVE  IInv'
<1>. USE DEF Stages
<1>1. /\ pc[c] = from /\ pc' = [pc EXCEPT ![c] = "done"]
      /\ reply' = [reply EXCEPT ![c] = what]
      /\ source' = [source EXCEPT ![c] = by]
      /\ at' = [at EXCEPT ![c] = 0] /\ left' = [left EXCEPT ![c] = 0]
      /\ UNCHANGED <<now, key, hash, outcome, sent, held>>
  BY DEF Answer, Move
<1>2. TypeOK'
  BY <1>1, QuietStoreType DEF IInv, TypeOK
<1>3. by # c
  BY <1>1, StoreAssumption
<1>4. \A d \in Callers : /\ Stored(d)' <=> Stored(d)
                         /\ Released(d)' <=> Released(d)
  BY <1>1, <1>3 DEF IInv, TypeOK, StageInv, Stored, Released, Outcomes, Definitive, IsAmbiguous
<1>5. Quiet
  BY <1>1, <1>4 DEF Quiet, QuietStore, IInv, TypeOK
<1>6. ClockInv'
  BY <1>1 DEF IInv, ClockInv, TypeOK
<1>7. StageInv'
  BY <1>1, <1>3 DEF IInv, StageInv, TypeOK, HadClaim
<1>8. ReplayIsTruthful'
  BY <1>1, <1>3, <1>4 DEF IInv, SourceInv, ReplayIsTruthful, TypeOK, StageInv, Stored
<1>9. LostOnlyAfterDeadline'
  BY <1>1 DEF IInv, SourceInv, LostOnlyAfterDeadline, TypeOK, Deadline
<1>. QED
  BY <1>2, <1>5, <1>6, <1>7, <1>8, <1>9, QuietStep DEF IInv, SourceInv

-----------------------------------------------------------------------------
(* The other quiet steps, one lemma per action.                            *)

(* A row enters store.claim.                                               *)
LEMMA SubmitStep ==
  ASSUME IInv, NEW c \in Callers, NEW k \in Keys, NEW h \in Fingerprints,
         Submit(c, k, h)
  PROVE  IInv'
<1>. USE DEF Stages
<1>1. ~HadClaim(c) /\ source[c] = NoCaller /\ reply[c] = "none"
  BY DEF IInv, StageInv, Submit, Move
<1>2. TypeOK'
  BY DEF IInv, TypeOK, StoreTypeOK, Submit, Move
<1>3. Quiet
  BY <1>1, StoreAssumption
     DEF Submit, Move, Quiet, IInv, TypeOK, Stored, Released, HadClaim
<1>4. ClockInv' /\ StageInv'
  BY <1>1, StoreAssumption
     DEF Submit, Move, IInv, TypeOK, ClockInv, StageInv, HadClaim
<1>5. SourceInv'
  BY <1>1, StoreAssumption
     DEF Submit, Move, IInv, TypeOK, SourceInv, ReplayIsTruthful,
         LostOnlyAfterDeadline, Deadline, Stored, StageInv
<1>. QED
  BY <1>2, <1>3, <1>4, <1>5, QuietStep DEF IInv

(* A row without a requestId goes to the POST.                             *)
LEMMA SubmitUnkeyedStep ==
  ASSUME IInv, NEW c \in Callers, NEW h \in Fingerprints, SubmitUnkeyed(c, h)
  PROVE  IInv'
<1>. USE DEF Stages
<1>1. TypeOK'
  BY DEF IInv, TypeOK, StoreTypeOK, SubmitUnkeyed, Move
<1>2. Quiet
  BY StoreAssumption
     DEF SubmitUnkeyed, Move, Quiet, IInv, TypeOK, Stored, Released, StageInv
<1>3. ClockInv' /\ StageInv'
  BY StoreAssumption, SubmissionAssumption
     DEF SubmitUnkeyed, Move, IInv, TypeOK, ClockInv, StageInv, HadClaim
<1>4. SourceInv'
  BY StoreAssumption
     DEF SubmitUnkeyed, Move, IInv, TypeOK, SourceInv, ReplayIsTruthful,
         LostOnlyAfterDeadline, Deadline, Stored, StageInv
<1>. QED
  BY <1>1, <1>2, <1>3, <1>4, QuietStep DEF IInv

(* A claimed row sends its POST.                                           *)
LEMMA SendStep ==
  ASSUME IInv, NEW c \in Callers, Send(c)
  PROVE  IInv'
<1>. USE DEF Stages
<1>1. TypeOK'
  BY DEF IInv, TypeOK, StoreTypeOK, Send, Move
<1>2. Quiet
  BY StoreAssumption
     DEF Send, Move, Quiet, IInv, TypeOK, Stored, Released, StageInv
<1>3. ClockInv' /\ StageInv'
  BY StoreAssumption, SubmissionAssumption
     DEF Send, Move, IInv, TypeOK, ClockInv, StageInv, HadClaim
<1>4. SourceInv'
  BY StoreAssumption
     DEF Send, Move, IInv, TypeOK, SourceInv, ReplayIsTruthful,
         LostOnlyAfterDeadline, Deadline, Stored, StageInv
<1>. QED
  BY <1>1, <1>2, <1>3, <1>4, QuietStep DEF IInv

(* There is an outcome: the row is answered, or enters store.complete.     *)
LEMMA SettleStep ==
  ASSUME IInv, NEW c \in Callers, NEW o \in Outcomes,
         NEW from \in {"claimed", "posted"}, Settle(c, from, o),
         from = "posted" \/ o = Unposted
  PROVE  IInv'
<1>. USE DEF Stages
<1>0. /\ pc[c] = from /\ (sent[c] \/ o = Unposted)
      /\ outcome' = [outcome EXCEPT ![c] = o]
      /\ UNCHANGED <<backend, records, now, key, hash, left, sent, held>>
      /\ reply[c] = "none" /\ source[c] = NoCaller
  BY DEF Settle, IInv, StageInv
<1>1. CASE key[c] = NoKey
  <2>1. /\ pc' = [pc EXCEPT ![c] = "done"]
        /\ reply' = [reply EXCEPT ![c] = o]
        /\ source' = [source EXCEPT ![c] = c]
        /\ UNCHANGED at
    BY <1>1 DEF Settle
  <2>2. TypeOK'
    BY <1>0, <2>1 DEF IInv, TypeOK, StoreTypeOK, Replies, Outcomes
  <2>3. Quiet
    BY <1>0, <1>1, <2>1 DEF Quiet, IInv, TypeOK, Stored, Released
  <2>4. ClockInv' /\ StageInv'
    BY <1>0, <1>1, <2>1, SubmissionAssumption, StoreAssumption
       DEF IInv, TypeOK, ClockInv, StageInv, HadClaim
  <2>5. SourceInv'
    BY <1>0, <1>1, <2>1, StoreAssumption
       DEF IInv, TypeOK, SourceInv, ReplayIsTruthful, LostOnlyAfterDeadline,
           Deadline, Stored, StageInv, Outcomes, Definitive
  <2>. QED
    BY <2>2, <2>3, <2>4, <2>5, QuietStep DEF IInv
<1>2. CASE key[c] # NoKey
  <2>1. /\ pc' = [pc EXCEPT ![c] = "completing"]
        /\ at' = [at EXCEPT ![c] = now]
        /\ UNCHANGED <<reply, source>>
    BY <1>2 DEF Settle
  <2>2. TypeOK'
    BY <1>0, <2>1 DEF IInv, TypeOK, StoreTypeOK
  <2>3. Quiet
    BY <1>0, <2>1 DEF Quiet, IInv, TypeOK, Stored, Released
  <2>4. ClockInv' /\ StageInv'
    BY <1>0, <1>2, <2>1, StoreAssumption
       DEF IInv, TypeOK, ClockInv, StageInv, HadClaim
  <2>5. SourceInv'
    BY <1>0, <2>1, StoreAssumption
       DEF IInv, TypeOK, SourceInv, ReplayIsTruthful, LostOnlyAfterDeadline,
           Deadline, Stored, StageInv
  <2>. QED
    BY <2>2, <2>3, <2>4, <2>5, QuietStep DEF IInv
<1>. QED
  BY <1>1, <1>2

(* The POST returns, or the row sends none.                                *)
LEMMA PostReturnsStep ==
  ASSUME IInv, NEW c \in Callers, NEW o \in Outcomes, PostReturns(c, o)
  PROVE  IInv'
BY SettleStep DEF PostReturns

LEMMA NoPostStep ==
  ASSUME IInv, NEW c \in Callers, NoPost(c)
  PROVE  IInv'
<1>1. Unposted \in Outcomes
  BY DEF Unposted, Outcomes, Definitive
<1>. QED
  BY <1>1, SettleStep DEF NoPost

(* The process serving a row is killed.                                    *)
LEMMA DieStep ==
  ASSUME IInv, NEW c \in Callers, Die(c)
  PROVE  IInv'
<1>. USE DEF Stages
<1>1. TypeOK'
  BY DEF IInv, TypeOK, StoreTypeOK, Die, Move
<1>2. Quiet
  BY StoreAssumption
     DEF Die, Move, Quiet, IInv, TypeOK, Stored, Released, StageInv
<1>3. ClockInv' /\ StageInv'
  BY StoreAssumption, SubmissionAssumption
     DEF Die, Move, IInv, TypeOK, ClockInv, StageInv, HadClaim
<1>4. SourceInv'
  BY StoreAssumption
     DEF Die, Move, IInv, TypeOK, SourceInv, ReplayIsTruthful,
         LostOnlyAfterDeadline, Deadline, Stored, StageInv
<1>. QED
  BY <1>1, <1>2, <1>3, <1>4, QuietStep DEF IInv

(* The clock advances.                                                     *)
LEMMA TickStep ==
  ASSUME IInv, Tick
  PROVE  IInv'
<1>. USE DEF Stages
<1>1. TypeOK'
  BY SubmissionAssumption DEF IInv, TypeOK, StoreTypeOK, Tick, Move, Remaining
<1>2. Quiet
  BY StoreAssumption
     DEF Tick, Move, Quiet, IInv, TypeOK, Stored, Released, StageInv, Remaining
<1>3. ClockInv' /\ StageInv'
  BY StoreAssumption, SubmissionAssumption
     DEF Tick, Move, IInv, TypeOK, ClockInv, StageInv, HadClaim, Remaining
<1>4. SourceInv'
  BY StoreAssumption
     DEF Tick, Move, IInv, TypeOK, SourceInv, ReplayIsTruthful,
         LostOnlyAfterDeadline, Deadline, Min2, Stored, StageInv, Remaining
<1>. QED
  BY <1>1, <1>2, <1>3, <1>4, QuietStep DEF IInv

(* A row finds a live claim and waits.                                     *)
LEMMA ClaimPendingStep ==
  ASSUME IInv, NEW c \in Callers, ClaimPending(c)
  PROVE  IInv'
<1>. USE DEF Stages
<1>1. TypeOK'
  BY SubmissionAssumption, PurgedType DEF IInv, TypeOK, StoreTypeOK, ClaimPending, Move, Purge, ClockInv
<1>2. Quiet
  BY StoreAssumption
     DEF ClaimPending, Move, Quiet, IInv, TypeOK, Stored, Released, StageInv, Purge, ClockInv
<1>3. ClockInv' /\ StageInv'
  BY StoreAssumption, SubmissionAssumption
     DEF ClaimPending, Move, IInv, TypeOK, ClockInv, StageInv, HadClaim, Purge, ClockInv
<1>4. SourceInv'
  BY StoreAssumption
     DEF ClaimPending, Move, IInv, TypeOK, SourceInv, ReplayIsTruthful,
         LostOnlyAfterDeadline, Deadline, Stored, StageInv, Purge, ClockInv
<1>. QED
  BY <1>1, <1>2, <1>3, <1>4, QuietStep DEF IInv

(* A waiting row reads, finds nothing and sleeps.                          *)
LEMMA PollAgainStep ==
  ASSUME IInv, NEW c \in Callers, NEW seen \in at[c]..now, PollAgain(c, seen)
  PROVE  IInv'
<1>. USE DEF Stages
<1>0. seen \in Nat /\ seen <= now
  BY DEF IInv, TypeOK
<1>1. TypeOK'
  BY <1>0, PurgedType DEF IInv, TypeOK, StoreTypeOK, PollAgain, Move, Purge, taskVars, ClockInv
<1>2. Quiet
  BY <1>0, StoreAssumption
     DEF PollAgain, Move, Quiet, IInv, TypeOK, Stored, Released, StageInv, Purge, taskVars, ClockInv
<1>3. ClockInv' /\ StageInv'
  BY StoreAssumption, SubmissionAssumption
     DEF PollAgain, Move, IInv, TypeOK, ClockInv, StageInv, HadClaim, Purge, taskVars, ClockInv
<1>4. SourceInv'
  BY StoreAssumption
     DEF PollAgain, Move, IInv, TypeOK, SourceInv, ReplayIsTruthful,
         LostOnlyAfterDeadline, Deadline, Stored, StageInv, Purge, taskVars, ClockInv
<1>. QED
  BY <1>1, <1>2, <1>3, <1>4, QuietStep DEF IInv

-----------------------------------------------------------------------------
(* Steps that answer without settling a claim, by AnswerStep.              *)

(* A complete record seen through a purge names a row that was told so.    *)
LEMMA WriterFacts ==
  ASSUME IInv, NEW k \in Keys, records[k].state = "complete"
  PROVE  LET w == records[k].writer IN
           /\ w \in Callers /\ w # NoCaller
           /\ key[w] = k /\ pc[w] = "done" /\ Stored(w)
           /\ outcome[w] \in Replies
BY StoreAssumption DEF IInv, RecordInv, TypeOK, Replies, Outcomes

(* claim answers at once: a conflict, a replay or an outage.               *)
LEMMA ClaimAnswers ==
  ASSUME IInv, NEW c \in Callers,
         ClaimConflict(c) \/ ClaimReplay(c) \/ ClaimUnavailable(c)
  PROVE  IInv'
<1>. USE DEF Replies, Outcomes, Definitive
<1>0. at[c] \in Nat /\ at[c] <= now
  BY DEF IInv, TypeOK, ClockInv
<1>1. CASE ClaimConflict(c)
  <2>1. QuietStore
    BY <1>0, <1>1 DEF ClaimConflict, QuietStore, Purge
  <2>. QED
    BY <1>1, <2>1, AnswerStep DEF ClaimConflict
<1>2. CASE ClaimUnavailable(c)
  <2>1. QuietStore
    BY <1>2 DEF ClaimUnavailable, QuietStore
  <2>. QED
    BY <1>2, <2>1, AnswerStep DEF ClaimUnavailable
<1>3. CASE ClaimReplay(c)
  <2>1. QuietStore
    BY <1>0, <1>3 DEF ClaimReplay, QuietStore, Purge
  <2>2. key[c] \in Keys /\ records[key[c]].state = "complete"
    BY <1>3 DEF ClaimReplay, IsReplay, IInv, StageInv
  <2>. DEFINE w == records[key[c]].writer
  <2>3. Answer(c, "claiming", outcome[w], w)
    BY <1>3 DEF ClaimReplay
  <2>4. /\ w \in Callers /\ w # NoCaller /\ key[w] = key[c] /\ pc[w] = "done"
        /\ Stored(w) /\ outcome[w] \in Replies
    BY <2>2, WriterFacts
  <2>5. outcome[w] # "claim_lost"
    BY <2>4 DEF IInv, TypeOK
  <2>. HIDE DEF w
  <2>. QED
    BY <2>1, <2>3, <2>4, <2>5, AnswerStep
<1>. QED
  BY <1>1, <1>2, <1>3

(* wait_for_result ends: a result, a timeout or an outage.                 *)
LEMMA PollAnswers ==
  ASSUME IInv, NEW c \in Callers, NEW seen \in at[c]..now,
         PollHit(c, seen) \/ PollTimeout(c, seen) \/ PollUnavailable(c)
  PROVE  IInv'
<1>. USE DEF Replies, Outcomes, Definitive
<1>0. seen \in Nat /\ seen <= now
  BY DEF IInv, TypeOK
<1>1. CASE PollTimeout(c, seen)
  <2>1. QuietStore
    BY <1>0, <1>1 DEF PollTimeout, QuietStore, Purge
  <2>. QED
    BY <1>1, <2>1, AnswerStep DEF PollTimeout
<1>2. CASE PollUnavailable(c)
  <2>1. QuietStore
    BY <1>2 DEF PollUnavailable, QuietStore
  <2>. QED
    BY <1>2, <2>1, AnswerStep DEF PollUnavailable
<1>3. CASE PollHit(c, seen)
  <2>1. QuietStore
    BY <1>0, <1>3 DEF PollHit, QuietStore, Purge
  <2>2. key[c] \in Keys /\ records[key[c]].state = "complete"
    <3>1. key[c] \in Keys /\ Purged(seen)[key[c]].state = "complete"
      BY <1>3 DEF PollHit, CanRead, IInv, StageInv
    <3>. QED
      BY <1>0, <3>1, PurgedOnly
  <2>. DEFINE w == records[key[c]].writer
  <2>3. Answer(c, "waiting", outcome[w], w)
    BY <1>3 DEF PollHit
  <2>4. /\ w \in Callers /\ w # NoCaller /\ key[w] = key[c] /\ pc[w] = "done"
        /\ Stored(w) /\ outcome[w] \in Replies
    BY <2>2, WriterFacts
  <2>5. outcome[w] # "claim_lost"
    BY <2>4 DEF IInv, TypeOK
  <2>. HIDE DEF w
  <2>. QED
    BY <2>1, <2>3, <2>4, <2>5, AnswerStep
<1>. QED
  BY <1>1, <1>2, <1>3

(* complete() fails only for a claimant whose claim has lapsed: a live one *)
(* owns its pending record, so the precondition holds.                     *)
LEMMA FinishAnswers ==
  ASSUME IInv, NEW c \in Callers, CompleteLost(c) \/ CompleteUnavailable(c)
  PROVE  IInv'
<1>. USE DEF Replies, Outcomes, Definitive
<1>1. QuietStore
  BY DEF CompleteLost, CompleteUnavailable, QuietStore
<1>2. CASE CompleteUnavailable(c)
  BY <1>1, <1>2, AnswerStep DEF CompleteUnavailable
<1>3. CASE CompleteLost(c)
  <2>1. pc[c] = "completing" /\ ~CanComplete(c, key[c], at[c], IsAmbiguous(outcome[c]))
    BY <1>3 DEF CompleteLost
  <2>2. Unsettled(c) /\ at[c] \in Nat /\ at[c] <= now
    BY <2>1, StoreAssumption
       DEF IInv, TypeOK, StageInv, ClockInv, Unsettled, Stored, Released
  <2>3. Deadline(c) \in Nat /\ Deadline(c) <= held[c].lease /\ Deadline(c) <= held[c].expires
    BY DEF IInv, TypeOK, Deadline, Min2
  <2>4. ASSUME now < Deadline(c)
        PROVE  FALSE
    <3>1. /\ records[key[c]].state = "pending" /\ records[key[c]].owner = c
          /\ records[key[c]].lease = held[c].lease
          /\ records[key[c]].expires = held[c].expires
      BY <2>2, <2>4 DEF IInv, ClaimInv
    <3>2. at[c] < held[c].lease /\ at[c] < held[c].expires
      BY <2>2, <2>3, <2>4 DEF IInv, TypeOK
    <3>. QED
      BY <2>1, <3>1, <3>2 DEF CanComplete
  <2>5. Deadline(c) <= now
    BY <2>3, <2>4 DEF IInv, TypeOK
  <2>. QED
    BY <1>1, <1>3, <2>5, AnswerStep DEF CompleteLost
<1>. QED
  BY <1>2, <1>3

-----------------------------------------------------------------------------
(* A claim is granted.                                                     *)

(* A row is granted its key, fresh or by reclaiming a lapsed claim.        *)
LEMMA ClaimGrantedStep ==
  ASSUME IInv, NEW c \in Callers, ClaimGranted(c)
  PROVE  IInv'
<1>. USE DEF Stages
<1>. DEFINE k == key[c]
<1>1. /\ pc[c] = "claiming" /\ pc' = [pc EXCEPT ![c] = "claimed"]
      /\ Grant(c, k, hash[c], at[c])
      /\ held' = [held EXCEPT ![c] = [from |-> now, lease |-> records'[k].lease,
                                      expires |-> records'[k].expires]]
      /\ UNCHANGED <<backend, now, key, hash, at, left, outcome, sent, reply, source>>
  BY DEF ClaimGranted, Move
<1>2. /\ k \in Keys /\ at[c] \in Nat /\ at[c] <= now /\ ~HadClaim(c)
      /\ reply[c] = "none" /\ source[c] = NoCaller /\ ~sent[c]
  BY <1>1 DEF IInv, TypeOK, StageInv, ClockInv
<1>3. records' \in [Keys -> Record]
  BY <1>1, <1>2, GrantType DEF IInv, TypeOK
<1>4. TypeOK'
  BY <1>1, <1>2, <1>3 DEF IInv, TypeOK, StoreTypeOK, Record
\* What the granted record is, and that the others are only purged.
<1>5. /\ records'[k].state = "pending" /\ records'[k].owner = c
      /\ records'[k].lease > 0
  BY <1>1, <1>2, GrantedFields DEF IInv
<1>6. \A j \in Keys \ {k} : records'[j] = Purged(at[c])[j]
  BY <1>1 DEF Grant, Purged
\* The key was not protected by a live claim or a memoised result.
<1>7. \/ records[k].expires <= now
      \/ records[k].state = "absent"
      \/ records[k].state = "pending" /\ records[k].lease <= now
  <2>1. /\ records[k].expires \in Nat /\ records[k].lease \in Nat /\ now \in Nat
        /\ at[c] \in Nat /\ at[c] <= now
    BY <1>2 DEF IInv, TypeOK, StoreTypeOK, Record
  <2>2. CASE IsVacant(k, at[c])
    BY <1>2, <2>1, <2>2 DEF IsVacant, Purged
  <2>3. CASE IsLapsed(k, hash[c], at[c])
    BY <2>1, <2>3 DEF IsLapsed
  <2>. QED
    BY <1>1, <2>2, <2>3 DEF Grant
<1>8. \A d \in Callers \ {c} : HadClaim(d) /\ key[d] = k => RightlyAfter(d, c)'
  <2>. SUFFICES ASSUME NEW d \in Callers \ {c}, HadClaim(d), key[d] = k
                PROVE  RightlyAfter(d, c)'
    OBVIOUS
  <2>1. held'[c].from = now /\ held'[d] = held[d]
    BY <1>1 DEF IInv, TypeOK
  <2>2. Deadline(d) <= held[d].lease /\ Deadline(d) <= held[d].expires /\ Deadline(d) \in Nat
    BY DEF IInv, TypeOK, Deadline, Min2
  <2>3. CASE Released(d)
    BY <1>1, <2>3 DEF RightlyAfter, Released
  <2>4. CASE Stored(d)
    <3>1. held[d].expires <= now
      BY <1>7, <2>4 DEF IInv, StoredInv, TypeOK
    <3>. QED
      BY <1>1, <2>1, <2>4, <3>1 DEF RightlyAfter, Stored
  <2>5. CASE ~Released(d) /\ ~Stored(d)
    <3>1. Deadline(d) <= now
      BY <1>7, <2>2, <2>5 DEF IInv, ClaimInv, Unsettled, TypeOK
    <3>. QED
      BY <1>1, <2>1, <2>5, <3>1 DEF RightlyAfter, Stored, Deadline
  <2>. QED
    BY <2>3, <2>4, <2>5
<1>9. /\ \A d \in Callers : Stored(d)' <=> Stored(d)
      /\ \A d \in Callers : Released(d)' <=> Released(d)
      /\ \A d \in Callers \ {c} : /\ held'[d] = held[d]
                                  /\ HadClaim(d)' <=> HadClaim(d)
                                  /\ Deadline(d)' = Deadline(d)
      /\ HadClaim(c)' /\ ~Stored(c) /\ ~Released(c)
      /\ held'[c].lease = records'[k].lease /\ held'[c].expires = records'[k].expires
  BY <1>1, <1>2, <1>5, StoreAssumption
     DEF Stored, Released, HadClaim, Deadline, IInv, TypeOK
<1>10. \A d, e \in Callers \ {c} : RightlyAfter(d, e) => RightlyAfter(d, e)'
  BY <1>9 DEF RightlyAfter
<1>11. ClockInv' /\ StageInv'
  BY <1>1, <1>2, <1>9 DEF IInv, TypeOK, ClockInv, StageInv, HadClaim
<1>12. ClaimInv'
  <2>. SUFFICES ASSUME NEW d \in Callers, Unsettled(d)', (now < Deadline(d))'
                PROVE  (/\ records[key[d]].state = "pending"
                        /\ records[key[d]].owner = d
                        /\ records[key[d]].lease = held[d].lease
                        /\ records[key[d]].expires = held[d].expires)'
    BY DEF ClaimInv
  <2>1. CASE d = c
    BY <1>1, <1>5, <1>9, <2>1
  <2>2. CASE d # c
    <3>1. Unsettled(d) /\ now < Deadline(d) /\ held'[d] = held[d] /\ key'[d] = key[d]
      BY <1>1, <1>9, <2>2 DEF Unsettled
    <3>2. key[d] \in Keys
      BY <3>1 DEF IInv, StageInv, Unsettled
    <3>3. /\ records[key[d]].state = "pending" /\ records[key[d]].owner = d
          /\ records[key[d]].lease = held[d].lease
          /\ records[key[d]].expires = held[d].expires
      BY <3>1 DEF IInv, ClaimInv
    <3>4. now < records[key[d]].expires /\ now < records[key[d]].lease
      <4>1. held[d].lease \in Nat /\ held[d].expires \in Nat /\ now \in Nat
        BY DEF IInv, TypeOK
      <4>. QED
        BY <3>1, <3>3, <4>1 DEF Deadline, Min2
    <3>5. key[d] # k
      <4>1. now \in Nat /\ records[k].expires \in Nat /\ records[k].lease \in Nat
        BY <1>2 DEF IInv, TypeOK, StoreTypeOK, Record
      <4>. QED
        BY <1>7, <3>3, <3>4, <4>1
    <3>6. records'[key[d]] = records[key[d]]
      BY <1>2, <1>6, <3>2, <3>4, <3>5, PurgedKeeps DEF IInv
    <3>. QED
      BY <3>1, <3>3, <3>6
  <2>. QED
    BY <2>1, <2>2
<1>13. StoredInv'
  BY <1>1, <1>2, <1>6, <1>7, <1>9, PurgedKeeps
     DEF IInv, TypeOK, StoredInv, Stored
<1>14. RecordInv'
  <2>1. ASSUME NEW j \in Keys \ {k}, records'[j].state # "absent"
        PROVE  records'[j] = records[j]
    BY <1>2, <1>6, <2>1, PurgedOnly
  <2>. QED
    BY <1>1, <1>2, <1>5, <1>8, <1>9, <1>10, <2>1
       DEF IInv, RecordInv, Unsettled, StageInv, Stored
<1>15. OrderInv'
  BY <1>1, <1>8, <1>9, <1>10 DEF IInv, OrderInv
<1>16. SourceInv'
  <2>1. ReplayIsTruthful'
    BY <1>1 DEF IInv, SourceInv, ReplayIsTruthful, Stored
  <2>2. LostOnlyAfterDeadline'
    <3>. SUFFICES ASSUME NEW d \in Callers, reply'[d] = "claim_lost"
                  PROVE  Deadline(d)' <= now'
      BY DEF LostOnlyAfterDeadline
    <3>1. d # c /\ reply[d] = "claim_lost"
      BY <1>1, <1>2
    <3>. QED
      BY <1>1, <1>9, <3>1 DEF IInv, SourceInv, LostOnlyAfterDeadline
  <2>. QED
    BY <2>1, <2>2 DEF SourceInv
<1>. QED
  BY <1>4, <1>11, <1>12, <1>13, <1>14, <1>15, <1>16 DEF IInv

-----------------------------------------------------------------------------
(* A claim is settled: its owner memoises the result or releases the key.  *)

(* The owner of a claim completes or releases it.                          *)
LEMMA CompleteStoredStep ==
  ASSUME IInv, NEW c \in Callers, CompleteStored(c)
  PROVE  IInv'
<1>. USE DEF Stages
<1>. DEFINE k   == key[c]
            amb == IsAmbiguous(outcome[c])
<1>1. /\ pc[c] = "completing" /\ pc' = [pc EXCEPT ![c] = "done"]
      /\ Complete(c, k, at[c], amb)
      /\ reply' = [reply EXCEPT ![c] = outcome[c]]
      /\ source' = [source EXCEPT ![c] = c]
      /\ at' = [at EXCEPT ![c] = 0] /\ left' = [left EXCEPT ![c] = 0]
      /\ UNCHANGED <<backend, now, key, hash, outcome, sent, held>>
  BY DEF CompleteStored, Answer, Move
<1>2. /\ k \in Keys /\ at[c] \in Nat /\ HadClaim(c)
      /\ (sent[c] \/ outcome[c] = Unposted)
      /\ outcome[c] \in Outcomes /\ reply[c] = "none" /\ source[c] = NoCaller
      /\ ~Stored(c) /\ ~Released(c)
  BY <1>1, StoreAssumption DEF IInv, TypeOK, StageInv, Stored, Released
<1>3. /\ records[k].state = "pending" /\ records[k].owner = c
      /\ records' = [records EXCEPT ![k] =
                       IF amb THEN NoRecord ELSE CompletedRecord(c, records[k])]
  BY <1>1 DEF Complete, CanComplete
<1>4. /\ records[k].expires = held[c].expires
      /\ \A d \in Callers \ {c} : HadClaim(d) /\ key[d] = k => RightlyAfter(d, c)
  BY <1>2, <1>3 DEF IInv, RecordInv
<1>5. records \in [Keys -> Record] /\ records' \in [Keys -> Record]
  BY <1>1, <1>2, CompleteType DEF IInv, TypeOK, StoreTypeOK
<1>6. TypeOK'
  BY <1>1, <1>2, <1>5 DEF IInv, TypeOK, StoreTypeOK, Replies
\* What settling changes, and what it leaves alone.
<1>7. /\ \A d \in Callers : HadClaim(d)' <=> HadClaim(d)
      /\ \A d \in Callers : Deadline(d)' = Deadline(d)
      /\ \A d \in Callers \ {c} : Stored(d)' <=> Stored(d)
      /\ \A d \in Callers \ {c} : Released(d)' <=> Released(d)
      /\ Stored(c)' <=> ~amb
      /\ Released(c)' <=> amb
  BY <1>1, <1>2, SubmissionAssumption
     DEF IInv, TypeOK, HadClaim, Deadline, Stored, Released, Outcomes,
         Definitive, IsAmbiguous
<1>8. \A d \in Callers \ {c}, e \in Callers : RightlyAfter(d, e) => RightlyAfter(d, e)'
  BY <1>1, <1>7 DEF RightlyAfter
<1>9. \A d \in Callers \ {c} : key[d] = k =>
        /\ ~(Unsettled(d) /\ now < Deadline(d))
        /\ ~(Stored(d) /\ now < held[d].expires)
  BY <1>3 DEF IInv, ClaimInv, StoredInv
<1>10. /\ \A j \in Keys \ {k} : records'[j] = records[j]
       /\ records'[k] = IF amb THEN NoRecord ELSE CompletedRecord(c, records[k])
  BY <1>2, <1>3, <1>5
<1>11. /\ amb => records'[k].state = "absent"
       /\ ~amb => /\ records'[k].state = "complete" /\ records'[k].writer = c
                  /\ records'[k].expires = held[c].expires
  <2>1. records[k] \in Record
    BY <1>2, <1>5
  <2>. QED
    BY <1>4, <1>10, <2>1 DEF NoRecord, CompletedRecord, Record
<1>12. ClockInv' /\ StageInv'
  BY <1>1, <1>2, <1>7 DEF IInv, TypeOK, ClockInv, StageInv
<1>13. ClaimInv'
  BY <1>1, <1>7, <1>9, <1>10 DEF IInv, ClaimInv, StageInv, Unsettled
<1>14. StoredInv'
  <2>1. \A d \in Callers : Stored(d) => key[d] \in Keys
    BY DEF IInv, TypeOK, Stored
  <2>. QED
    BY <1>1, <1>2, <1>7, <1>9, <1>10, <1>11, <2>1 DEF IInv, StoredInv
<1>15. RecordInv'
  BY <1>1, <1>2, <1>7, <1>8, <1>10, <1>11 DEF IInv, RecordInv, Unsettled, TypeOK
<1>16. OrderInv'
  BY <1>1, <1>4, <1>7, <1>8 DEF IInv, OrderInv
<1>17. SourceInv'
  <2>1. ReplayIsTruthful'
    BY <1>1, <1>2 DEF IInv, TypeOK, SourceInv, ReplayIsTruthful, Stored
  <2>2. LostOnlyAfterDeadline'
    BY <1>1, <1>2, <1>7
       DEF IInv, TypeOK, SourceInv, LostOnlyAfterDeadline, Outcomes, Definitive
  <2>. QED
    BY <2>1, <2>2 DEF SourceInv
<1>. QED
  BY <1>6, <1>12, <1>13, <1>14, <1>15, <1>16, <1>17 DEF IInv

(* The memory backend's process restarts: as in the initial state, later.  *)
LEMMA RestartStep ==
  ASSUME IInv, Restart
  PROVE  IInv'
<1>1. TypeOK'
  BY DEF IInv, Restart, TypeOK, StoreTypeOK, Record, NoRecord,
         NoClaim, Stages, Replies, Outcomes, Definitive
<1>2. ClockInv' /\ StageInv'
  BY StoreAssumption, SubmissionAssumption
     DEF Restart, ClockInv, StageInv, HadClaim, NoClaim, IInv, TypeOK
<1>3. \A c \in Callers : ~HadClaim(c)' /\ ~Stored(c)'
  BY StoreAssumption DEF Restart, HadClaim, NoClaim, Stored
<1>4. ClaimInv' /\ StoredInv' /\ OrderInv'
  BY <1>3 DEF ClaimInv, StoredInv, OrderInv, Unsettled
<1>5. RecordInv'
  BY DEF Restart, RecordInv, NoRecord
<1>6. SourceInv'
  BY DEF Restart, SourceInv, ReplayIsTruthful, LostOnlyAfterDeadline
<1>. QED
  BY <1>1, <1>2, <1>4, <1>5, <1>6 DEF IInv

-----------------------------------------------------------------------------
(* Every step preserves the invariant.                                     *)

(* Stuttering preserves the invariant.                                     *)
LEMMA StutterStep ==
  ASSUME IInv, UNCHANGED vars
  PROVE  IInv'
<1>1. TypeOK'
  BY DEF vars, taskVars, IInv, TypeOK, StoreTypeOK
<1>2. Quiet
  BY DEF vars, taskVars, Quiet, IInv, TypeOK, Stored, Released
<1>3. ClockInv' /\ StageInv'
  BY DEF vars, taskVars, IInv, ClockInv, StageInv, HadClaim
<1>4. SourceInv'
  BY DEF vars, taskVars, IInv, SourceInv, ReplayIsTruthful,
         LostOnlyAfterDeadline, Deadline, Stored
<1>. QED
  BY <1>1, <1>2, <1>3, <1>4, QuietStep DEF IInv

(* One step, whichever it is, preserves the invariant.                     *)
LEMMA NextIInv == IInv /\ [Next]_vars => IInv'
<1>. SUFFICES ASSUME IInv, [Next]_vars
              PROVE  IInv'
  OBVIOUS
<1>1. ASSUME NEW c \in Callers, Claim(c)
      PROVE  IInv'
  BY <1>1, ClaimGrantedStep, ClaimAnswers, ClaimPendingStep DEF Claim
<1>2. ASSUME NEW c \in Callers, Finish(c)
      PROVE  IInv'
  BY <1>2, CompleteStoredStep, FinishAnswers DEF Finish
<1>3. ASSUME NEW c \in Callers, Poll(c)
      PROVE  IInv'
  <2>1. CASE PollUnavailable(c)
    <3>1. now \in at[c]..now
      BY DEF IInv, TypeOK, ClockInv
    <3>. QED
      BY <2>1, <3>1, PollAnswers
  <2>2. CASE \E seen \in at[c]..now :
               PollHit(c, seen) \/ PollTimeout(c, seen) \/ PollAgain(c, seen)
    BY <2>2, PollAnswers, PollAgainStep
  <2>. QED
    BY <1>3, <2>1, <2>2 DEF Poll
<1>. QED
  BY <1>1, <1>2, <1>3, SubmitStep, SubmitUnkeyedStep, SendStep, NoPostStep, PostReturnsStep,
     DieStep, RestartStep, TickStep, StutterStep DEF Next

(* The inductive invariant holds in every reachable state.                 *)
THEOREM Invariant == Spec => []IInv
BY InitIInv, NextIInv, PTL DEF Spec

-----------------------------------------------------------------------------
(* The consequences.                                                       *)

(* Every variable keeps its type: no row ever leaves the states that       *)
(* _submit_single can be in.                                               *)
THEOREM TypeCorrect == Spec => []TypeOK
<1>1. IInv => TypeOK
  BY DEF IInv
<1>. QED
  BY <1>1, Invariant, PTL

(* Two rows never hold live claims of one key (claim, both backends).      *)
THEOREM OneLiveClaimPerKey == Spec => []ExclusiveClaim
<1>1. IInv => ExclusiveClaim
  <2>. SUFFICES ASSUME IInv, NEW c \in Callers, NEW d \in Callers,
                       Holding(c), Holding(d), key[c] = key[d],
                       now < Deadline(c), now < Deadline(d)
                PROVE  c = d
    BY DEF ExclusiveClaim
  <2>1. Unsettled(c) /\ Unsettled(d)
    BY StoreAssumption
       DEF IInv, TypeOK, StageInv, Holding, Unsettled, Stored, Released
  <2>. QED
    BY <2>1 DEF IInv, ClaimInv
<1>. QED
  BY <1>1, Invariant, PTL

(* A second POST of a key goes out only after the first row's release, or  *)
(* the end of its claim, or the expiry of its memoised result.             *)
THEOREM SecondPostOnlyWhenJustified == Spec => []SecondPostIsJustified
<1>1. IInv => SecondPostIsJustified
  <2>. SUFFICES ASSUME IInv, NEW c \in Callers, NEW d \in Callers,
                       c # d, key[c] = key[d], key[c] # NoKey, sent[c], sent[d]
                PROVE  RightlyAfter(c, d) \/ RightlyAfter(d, c)
    BY DEF SecondPostIsJustified
  <2>1. HadClaim(c) /\ HadClaim(d)
    BY DEF IInv, TypeOK, StageInv
  <2>. QED
    BY <2>1 DEF IInv, OrderInv
<1>. QED
  BY <1>1, Invariant, PTL

(* A row answered from the store reports the definitive outcome of a row   *)
(* of its key that was granted a claim: one whose POST went out, or one    *)
(* that acreate_timecard_entry answered without a POST.                    *)
THEOREM ReplaysAreTruthful == Spec => []ReplayIsTruthful
<1>1. IInv => ReplayIsTruthful
  BY DEF IInv, SourceInv
<1>. QED
  BY <1>1, Invariant, PTL

(* complete() answers idempotency_claim_lost only to a row whose lease or  *)
(* record has run out.                                                     *)
THEOREM LiveClaimsAreNotLost == Spec => []LostOnlyAfterDeadline
<1>1. IInv => LostOnlyAfterDeadline
  BY DEF IInv, SourceInv
<1>. QED
  BY <1>1, Invariant, PTL

(* A result that complete() memoised is neither changed nor reopened by    *)
(* any claim, completion or purge before its record expires: only the      *)
(* memory backend's restart loses it early.                                *)
THEOREM MemoisedResultsAreFinal == Spec => MemoisedResultIsFinal
<1>. DEFINE Final == \A k \in Keys :
                       records[k].state = "complete" /\ now < records[k].expires
                         => records'[k] = records[k]
<1>1. ASSUME IInv, [Next]_vars
      PROVE  [Restart \/ Final]_vars
  <2>1. records \in [Keys -> Record] /\ now \in Nat
    BY <1>1 DEF IInv, TypeOK, StoreTypeOK
  <2>2. \A when \in Nat : when <= now /\ records' = Purged(when) => Final
    BY <1>1, PurgedKeeps DEF IInv
  <2>3. \A c \in Callers : at[c] \in Nat /\ at[c] <= now
    BY <1>1 DEF IInv, TypeOK, ClockInv
  <2>4. ASSUME NEW c \in Callers, Claim(c)
        PROVE  Final
    <3>1. CASE ClaimGranted(c)
      <4>. SUFFICES ASSUME NEW k \in Keys, records[k].state = "complete",
                           now < records[k].expires
                    PROVE  records'[k] = records[k]
        OBVIOUS
      <4>1. Purged(at[c])[k] = records[k]
        BY <1>1, <2>3, PurgedKeeps DEF IInv
      <4>2. k # key[c]
        BY <3>1, <4>1 DEF ClaimGranted, Grant, IsVacant, IsLapsed
      <4>. QED
        BY <3>1, <4>1, <4>2 DEF ClaimGranted, Grant, Purged
    <3>2. CASE ClaimConflict(c) \/ ClaimReplay(c) \/ ClaimPending(c)
      BY <2>2, <2>3, <3>2 DEF ClaimConflict, ClaimReplay, ClaimPending, Purge
    <3>3. CASE ClaimUnavailable(c)
      BY <3>3 DEF ClaimUnavailable
    <3>. QED
      BY <2>4, <3>1, <3>2, <3>3 DEF Claim
  <2>5. ASSUME NEW c \in Callers, Finish(c)
        PROVE  Final
    BY <2>1, <2>5
       DEF Finish, CompleteStored, CompleteLost, CompleteUnavailable, Complete,
           CanComplete
  <2>6. ASSUME NEW c \in Callers, Poll(c)
        PROVE  Final
    <3>1. \A seen \in at[c]..now : seen \in Nat /\ seen <= now
      BY <2>1, <2>3
    <3>. QED
      BY <2>2, <2>6, <3>1
         DEF Poll, PollHit, PollTimeout, PollAgain, PollUnavailable, Purge
  <2>. QED
    BY <1>1, <2>4, <2>5, <2>6
       DEF Next, Submit, SubmitUnkeyed, Send, NoPost, PostReturns, Settle, Die, Tick, vars
<1>. QED
  BY <1>1, Invariant, PTL DEF MemoisedResultIsFinal, Spec

-----------------------------------------------------------------------------
(* Whose data a record is about: its hash is that of its owner, as long as *)
(* the owner's process lives, and of its writer.                           *)
HashInv ==
  \A k \in Keys : LET r == records[k] IN
    /\ r.state = "pending"  => pc[r.owner] = "dead" \/ hash[r.owner] = r.hash
    /\ r.state = "complete" => hash[r.writer] = r.hash

(* A step that at most forgets records, and lets rows start or die.        *)
LEMMA HashesKept ==
  ASSUME IInv, HashInv,
         \A k \in Keys : records'[k] = records[k] \/ records'[k].state = "absent",
         \A c \in Callers : pc[c] # "idle" =>
           /\ hash'[c] = hash[c] \/ (pc[c] # "done" /\ pc'[c] = "dead")
           /\ pc[c] = "dead" => pc'[c] = "dead"
  PROVE  HashInv'
<1> SUFFICES ASSUME NEW k \in Keys, records'[k] = records[k]
             PROVE  /\ records[k].state = "pending" =>
                         pc'[records[k].owner] = "dead" \/ hash'[records[k].owner] = records[k].hash
                    /\ records[k].state = "complete" => hash'[records[k].writer] = records[k].hash
  BY DEF HashInv
<1>1. ASSUME records[k].state = "pending", NEW c, c = records[k].owner
      PROVE  c \in Callers /\ pc[c] # "idle"
  BY <1>1 DEF IInv, RecordInv, StageInv, Unsettled
<1>2. ASSUME records[k].state = "complete", NEW c, c = records[k].writer
      PROVE  c \in Callers /\ pc[c] = "done"
  BY <1>2 DEF IInv, RecordInv
<1>. QED
  BY <1>1, <1>2 DEF HashInv

(* A purge forgets records and changes none.                               *)
LEMMA PurgedHashes ==
  ASSUME IInv, HashInv, NEW when \in Nat, Purge(when), UNCHANGED hash,
         NEW c \in Callers, NEW to \in Stages, pc[c] # "dead", pc' \in {pc, [pc EXCEPT ![c] = to]}
  PROVE  HashInv'
<1>1. \A k \in Keys : records'[k] = records[k] \/ records'[k].state = "absent"
  BY DEF Purge, Purged, NoRecord
<1>2. \A d \in Callers : pc[d] = "dead" => pc'[d] = "dead"
  BY DEF IInv, TypeOK
<1>. QED
  BY <1>1, <1>2, HashesKept

LEMMA GrantedHashes ==
  ASSUME IInv, HashInv, NEW c \in Callers, ClaimGranted(c)
  PROVE  HashInv'
<1>1. /\ pc[c] = "claiming" /\ key[c] \in Keys /\ at[c] \in Nat
      /\ pc' = [pc EXCEPT ![c] = "claimed"] /\ UNCHANGED hash
      /\ Grant(c, key[c], hash[c], at[c])
  BY DEF ClaimGranted, Move, IInv, TypeOK, StageInv
<1>2. \A d \in Callers : pc[d] = "dead" => pc'[d] = "dead"
  BY <1>1 DEF IInv, TypeOK
<1> DEFINE k == key[c]
           r == records'[k]
<1>3. /\ r = GrantedRecord(c, k, hash[c], at[c])
      /\ \A i \in Keys \ {k} : records'[i] = records[i] \/ records'[i].state = "absent"
  BY <1>1 DEF Grant, Purged, NoRecord
<1>4. r.owner = c /\ r.state = "pending" /\ r.hash = hash[c]
  <2>1. CASE IsVacant(k, at[c])
    BY <1>3, <2>1 DEF GrantedRecord, FreshRecord
  <2>2. CASE ~ IsVacant(k, at[c])
    <3>1. IsLapsed(k, hash[c], at[c]) /\ records[k] \in Record
      BY <1>1, <2>2 DEF Grant, IInv, TypeOK, StoreTypeOK
    <3>2. r = [records[k] EXCEPT !.owner = c, !.lease = at[c] + Lease]
      BY <1>3, <2>2 DEF GrantedRecord, ReclaimedRecord
    <3>3. records[k].hash = hash[c] /\ records[k].state = "pending"
      BY <3>1 DEF IsLapsed
    <3>. QED
      BY <3>1, <3>2, <3>3 DEF Record
  <2>. QED
    BY <2>1, <2>2
<1>5. ASSUME NEW i \in Keys, i # k, records'[i] = records[i]
      PROVE  /\ records[i].state = "pending" => records[i].owner \in Callers
             /\ records[i].state = "complete" => records[i].writer \in Callers
  BY DEF IInv, RecordInv
<1> HIDE DEF r, k
<1>6. ASSUME NEW i \in Keys
      PROVE  /\ records'[i].state = "pending" =>
                  pc'[records'[i].owner] = "dead" \/ hash'[records'[i].owner] = records'[i].hash
             /\ records'[i].state = "complete" => hash'[records'[i].writer] = records'[i].hash
  <2>1. CASE i = k
    BY <1>1, <1>4, <2>1 DEF r
  <2>2. CASE i # k
    BY <1>1, <1>2, <1>3, <1>5, <2>2 DEF HashInv
  <2>. QED
    BY <2>1, <2>2
<1>. QED
  BY <1>6 DEF HashInv

LEMMA CompletedHashes ==
  ASSUME IInv, HashInv, NEW c \in Callers, CompleteStored(c)
  PROVE  HashInv'
<1>1. /\ pc[c] = "completing" /\ key[c] \in Keys /\ UNCHANGED hash
      /\ pc' = [pc EXCEPT ![c] = "done"]
      /\ Complete(c, key[c], at[c], IsAmbiguous(outcome[c]))
  BY DEF CompleteStored, Answer, Move, IInv, StageInv
<1>2. \A d \in Callers : pc[d] = "dead" => pc'[d] = "dead"
  BY <1>1 DEF IInv, TypeOK
<1> DEFINE k == key[c]
<1>3. /\ records[k].state = "pending" /\ records[k].owner = c /\ records[k] \in Record
      /\ records'[k] \in {NoRecord, CompletedRecord(c, records[k])}
      /\ \A i \in Keys \ {k} : records'[i] = records[i]
  BY <1>1 DEF Complete, CanComplete, IInv, TypeOK, StoreTypeOK
<1>4. hash[c] = records[k].hash
  BY <1>1, <1>3 DEF HashInv
<1>5. \/ records'[k].state = "absent"
      \/ /\ records'[k].state = "complete" /\ records'[k].writer = c
         /\ records'[k].hash = records[k].hash
  <2>1. CASE records'[k] = NoRecord
    BY <2>1 DEF NoRecord
  <2>2. CASE records'[k] = CompletedRecord(c, records[k])
    <3> DEFINE r == records[k]
    <3>1. r \in Record /\ records'[k] = CompletedRecord(c, r)
      BY <1>3, <2>2
    <3> HIDE DEF r, k
    <3>2. /\ CompletedRecord(c, r).state = "complete" /\ CompletedRecord(c, r).writer = c
          /\ CompletedRecord(c, r).hash = r.hash
      BY <3>1 DEF CompletedRecord, Record
    <3>. QED
      BY <3>1, <3>2 DEF r
  <2>. QED
    BY <1>3, <2>1, <2>2
<1>6. ASSUME NEW i \in Keys, i # k
      PROVE  records[i].state = "pending" => records[i].owner \in Callers
  BY DEF IInv, RecordInv
<1> HIDE DEF k
<1>7. ASSUME NEW i \in Keys
      PROVE  /\ records'[i].state = "pending" =>
                  pc'[records'[i].owner] = "dead" \/ hash'[records'[i].owner] = records'[i].hash
             /\ records'[i].state = "complete" => hash'[records'[i].writer] = records'[i].hash
  <2>1. CASE i = k
    BY <1>1, <1>4, <1>5, <2>1
  <2>2. CASE i # k
    BY <1>1, <1>2, <1>3, <1>6, <2>2 DEF HashInv
  <2>. QED
    BY <2>1, <2>2
<1>. QED
  BY <1>7 DEF HashInv

LEMMA NextHashes ==
  ASSUME IInv, HashInv, [Next]_vars
  PROVE  HashInv'
<1> USE DEF Stages
<1>1. \A c \in Callers : at[c] \in Nat /\ pc[c] \in Stages
  BY DEF IInv, TypeOK
<1>2. ASSUME NEW c \in Callers, Claim(c)
      PROVE  HashInv'
  <2>1. CASE ClaimConflict(c) \/ ClaimReplay(c) \/ ClaimPending(c)
    <3>1. /\ pc[c] # "dead" /\ Purge(at[c]) /\ UNCHANGED hash
          /\ \E to \in Stages : pc' = [pc EXCEPT ![c] = to]
      BY <2>1 DEF ClaimConflict, ClaimReplay, ClaimPending, Answer, Move
    <3>. QED
      BY <1>1, <3>1, PurgedHashes
  <2>2. CASE ClaimUnavailable(c)
    <3>1. \A d \in Callers : pc[d] = "dead" => pc'[d] = "dead"
      BY <1>1, <2>2 DEF ClaimUnavailable, Answer, Move, IInv, TypeOK
    <3>. QED
      BY <2>2, <3>1, HashesKept DEF ClaimUnavailable, Answer
  <2>. QED
    BY <1>2, <2>1, <2>2, GrantedHashes DEF Claim
<1>3. ASSUME NEW c \in Callers, Finish(c)
      PROVE  HashInv'
  <2>1. CASE CompleteLost(c) \/ CompleteUnavailable(c)
    <3>1. \A d \in Callers : pc[d] = "dead" => pc'[d] = "dead"
      BY <2>1 DEF CompleteLost, CompleteUnavailable, Answer, Move, IInv, TypeOK
    <3>. QED
      BY <2>1, <3>1, HashesKept DEF CompleteLost, CompleteUnavailable, Answer
  <2>. QED
    BY <1>3, <2>1, CompletedHashes DEF Finish
<1>4. ASSUME NEW c \in Callers, Poll(c)
      PROVE  HashInv'
  <2>1. CASE PollUnavailable(c)
    <3>1. \A d \in Callers : pc[d] = "dead" => pc'[d] = "dead"
      BY <2>1 DEF PollUnavailable, Answer, Move, IInv, TypeOK
    <3>. QED
      BY <2>1, <3>1, HashesKept DEF PollUnavailable, Answer
  <2>2. ASSUME NEW seen \in at[c]..now,
               PollHit(c, seen) \/ PollTimeout(c, seen) \/ PollAgain(c, seen)
        PROVE  HashInv'
    <3>1. seen \in Nat
      BY <1>1 DEF IInv, TypeOK
    <3>2. /\ pc[c] # "dead" /\ Purge(seen) /\ UNCHANGED hash
          /\ \E to \in Stages : pc' \in {pc, [pc EXCEPT ![c] = to]}
      BY <2>2 DEF PollHit, PollTimeout, PollAgain, Answer, Move, taskVars
    <3>. QED
      BY <3>1, <3>2, PurgedHashes
  <2>. QED
    BY <1>4, <2>1, <2>2 DEF Poll
<1>5. ASSUME NEW c \in Callers,
             \/ \E k \in Keys, h \in Fingerprints : Submit(c, k, h)
             \/ \E h \in Fingerprints : SubmitUnkeyed(c, h)
             \/ Send(c) \/ NoPost(c) \/ Die(c) \/ \E o \in Outcomes : PostReturns(c, o)
      PROVE  HashInv'
  <2>1. UNCHANGED records
    BY <1>5 DEF Submit, SubmitUnkeyed, Send, NoPost, Settle, Die, PostReturns
  <2>2. \A d \in Callers : pc[d] # "idle" =>
           /\ hash'[d] = hash[d] \/ (pc[d] # "done" /\ pc'[d] = "dead")
           /\ pc[d] = "dead" => pc'[d] = "dead"
    BY <1>1, <1>5 DEF Submit, SubmitUnkeyed, Send, NoPost, Settle, Die, PostReturns, Move, IInv, TypeOK
  <2>. QED
    BY <2>1, <2>2, HashesKept
<1>6. CASE Restart
  BY <1>6 DEF Restart, HashInv, NoRecord
<1>7. CASE UNCHANGED <<records, pc, hash>>
  BY <1>7, HashesKept
<1>. QED
  BY <1>2, <1>3, <1>4, <1>5, <1>6, <1>7 DEF Next, Tick, vars, taskVars

OtherDataOnlyForWaiters ==
  [][\A c \in Callers : /\ source'[c] # source[c] /\ source'[c] \notin {c, NoCaller}
                        /\ hash[source'[c]] # hash[c]
                        => pc[c] = "waiting"]_vars

(* otl_client.py: a row is handed the result of another payload only when  *)
(* it was waiting for its key, as the answers of claim itself are always   *)
(* of the same data: ReplayIsForTheSameData fails in no other way.         *)
THEOREM OnlyWaitersGetOtherData == Spec => OtherDataOnlyForWaiters
<1>1. Init => HashInv
  <2> SUFFICES ASSUME Init PROVE HashInv
    OBVIOUS
  <2>1. \A k \in Keys : records[k].state = "absent"
    BY DEF Init, StoreInit, NoRecord
  <2>. QED
    BY <2>1 DEF HashInv
<1>2. IInv /\ HashInv /\ [Next]_vars => HashInv'
  BY NextHashes
<1>3. ASSUME IInv, HashInv, Next, NEW c \in Callers,
             source'[c] # source[c], source'[c] \notin {c, NoCaller},
             hash[source'[c]] # hash[c]
      PROVE  pc[c] = "waiting"
  <2>1. ASSUME NEW d \in Callers, Claim(d)
        PROVE  FALSE
    <3>1. ClaimReplay(d) /\ d = c /\ source'[c] = records[key[c]].writer
      BY <1>3, <2>1 DEF Claim, ClaimGranted, ClaimConflict, ClaimReplay, ClaimPending,
                        ClaimUnavailable, Answer, IInv, TypeOK
    <3>2. key[c] \in Keys /\ records[key[c]].state = "complete" /\ records[key[c]].hash = hash[c]
      BY <1>3, <3>1 DEF ClaimReplay, IsReplay, IInv, StageInv
    <3>. QED
      BY <1>3, <3>1, <3>2 DEF HashInv
  <2>2. ASSUME NEW d \in Callers, Poll(d)
        PROVE  pc[c] = "waiting"
    BY <1>3, <2>2 DEF Poll, PollHit, PollTimeout, PollAgain, PollUnavailable, Answer, taskVars,
                      Move, IInv, TypeOK
  <2>3. ASSUME NEW d \in Callers, Finish(d) \/ NoPost(d) \/ \E o \in Outcomes : PostReturns(d, o)
        PROVE  FALSE
    BY <1>3, <2>3 DEF Finish, CompleteStored, CompleteLost, CompleteUnavailable, PostReturns,
                      NoPost, Settle,
                      Answer, IInv, TypeOK
  <2>4. ~ Restart
    BY <1>3 DEF Restart
  <2>5. ASSUME UNCHANGED source
        PROVE  FALSE
    BY <1>3, <2>5
  <2>. QED
    BY <1>3, <2>1, <2>2, <2>3, <2>4, <2>5
       DEF Next, Submit, SubmitUnkeyed, Send, Die, Tick
<1>4. IInv /\ HashInv /\ [Next]_vars =>
        [\A c \in Callers :
            /\ source'[c] # source[c] /\ source'[c] \notin {c, NoCaller}
            /\ hash[source'[c]] # hash[c]
            => pc[c] = "waiting"]_vars
  BY <1>3
<1>. QED
  BY <1>1, <1>2, <1>4, Invariant, PTL DEF OtherDataOnlyForWaiters, Spec

-----------------------------------------------------------------------------
(* The store under concurrent rows implements WriteOnce.                   *)

Slots == [k \in Keys |-> SlotOf(records[k])]
Tolds == [c \in Callers |-> ToldTo(c)]

(* The slots that a purge with clock reading `when` frees.                 *)
Expired(when) == {k \in Keys : records[k].expires <= when}

(* What the refinement mapping makes of each kind of record.               *)
LEMMA SlotCases ==
  ASSUME NEW r
  PROVE  /\ r.state = "absent" => SlotOf(r) = Once!Free
         /\ r.state = "pending" => SlotOf(r) = Once!HeldBy(r.owner)
         /\ r.state = "complete" => SlotOf(r) = Once!WroteBy(r.writer)
         /\ SlotOf(NoRecord) = Once!Free
BY DEF SlotOf, NoRecord, Once!Free, Once!HeldBy, Once!WroteBy

(* A purge forgets the expired slots.                                      *)
LEMMA PurgedSlots ==
  ASSUME NEW when \in Nat
  PROVE  [k \in Keys |-> SlotOf(Purged(when)[k])] = Once!Forgotten(Expired(when))
BY SlotCases DEF Purged, Expired, Once!Forgotten, Slots

LEMMA PurgeForgets ==
  ASSUME NEW when \in Nat, records' = Purged(when)
  PROVE  Slots' = Once!Forgotten(Expired(when)) /\ Expired(when) \in SUBSET Keys
BY PurgedSlots DEF Slots, Expired

(* An answered row is told once: it had been told nothing.                 *)
LEMMA AnswerTells ==
  ASSUME IInv, NEW c \in Callers, pc[c] # "done", NEW what \in Replies \ {"none"},
         NEW by \in Callers \cup {NoCaller},
         reply' = [reply EXCEPT ![c] = what],
         source' = [source EXCEPT ![c] = by]
  PROVE  /\ by = NoCaller => Once!Tell(c, "refused", NoCaller)
         /\ by = c => Once!Tell(c, "own", c)
         /\ by \notin {c, NoCaller} => Once!Tell(c, "echo", by)
<1>1. reply[c] = "none" /\ source[c] = NoCaller
  BY DEF IInv, StageInv
<1>2. /\ Tolds \in [Callers -> [kind : {"nothing", "own", "echo", "refused"},
                                by : Callers \cup {NoCaller}]]
      /\ Tolds[c] = Once!Nothing
  BY <1>1, StoreAssumption DEF Tolds, ToldTo, Once!Nothing, IInv, TypeOK
<1>3. /\ Tolds' = [Tolds EXCEPT ![c] = Tolds'[c]]
      /\ by = NoCaller => Tolds'[c] = [kind |-> "refused", by |-> NoCaller]
      /\ by = c => Tolds'[c] = [kind |-> "own", by |-> c]
      /\ by \notin {c, NoCaller} => Tolds'[c] = [kind |-> "echo", by |-> by]
  BY StoreAssumption DEF Tolds, ToldTo, IInv, TypeOK
<1>. QED
  BY <1>2, <1>3 DEF Once!Tell, Tolds

(* A granted claim takes a slot that is free, expired or held.             *)
LEMMA GrantRefines ==
  ASSUME IInv, NEW c \in Callers, ClaimGranted(c)
  PROVE  Once!Grant(c, key[c], Expired(at[c]))
<1>. DEFINE k == key[c]
<1>1. /\ pc[c] = "claiming" /\ Grant(c, k, hash[c], at[c])
      /\ UNCHANGED <<reply, source>>
      /\ k \in Keys /\ at[c] \in Nat
      /\ reply[c] = "none" /\ source[c] = NoCaller
  BY DEF ClaimGranted, Move, IInv, TypeOK, StageInv
<1>2. Tolds[c] = Once!Nothing /\ Tolds' = Tolds
  BY <1>1 DEF Tolds, ToldTo, Once!Nothing
<1>3. Once!Forgotten(Expired(at[c]))[k].kind \in {"free", "held"}
  <2>1. Once!Forgotten(Expired(at[c]))[k] = SlotOf(Purged(at[c])[k])
    BY <1>1, PurgedSlots
  <2>2. Purged(at[c])[k].state \in {"absent", "pending"}
    BY <1>1, PurgedOnly DEF Grant, IsVacant, IsLapsed
  <2>. QED
    BY <2>1, <2>2, SlotCases DEF Once!Free, Once!HeldBy
<1>4. records'[k].state = "pending" /\ records'[k].owner = c
  BY <1>1, GrantedFields DEF IInv
<1>5. Slots' = [Once!Forgotten(Expired(at[c])) EXCEPT ![k] = Once!HeldBy(c)]
  <2>1. \A j \in Keys \ {k} : records'[j] = Purged(at[c])[j]
    BY <1>1 DEF Grant, Purged
  <2>2. Slots' = [[j \in Keys |-> SlotOf(Purged(at[c])[j])] EXCEPT ![k] = Once!HeldBy(c)]
    BY <1>1, <1>4, <2>1, SlotCases DEF Slots
  <2>. QED
    BY <1>1, <2>2, PurgedSlots
<1>. QED
  BY <1>2, <1>3, <1>5 DEF Once!Grant, Slots, Tolds

(* A claim settled by its owner writes or releases its slot.               *)
LEMMA CompleteRefines ==
  ASSUME IInv, NEW c \in Callers, CompleteStored(c)
  PROVE  Once!Write(c, key[c]) \/ Once!Release(c, key[c])
<1>. DEFINE k == key[c]
<1>1. /\ pc[c] = "completing" /\ k \in Keys
      /\ records[k].state = "pending" /\ records[k].owner = c
      /\ records' = [records EXCEPT ![k] =
                       IF IsAmbiguous(outcome[c]) THEN NoRecord
                                                  ELSE CompletedRecord(c, records[k])]
      /\ reply' = [reply EXCEPT ![c] = outcome[c]]
      /\ source' = [source EXCEPT ![c] = c]
      /\ outcome[c] \in Outcomes
      /\ records \in [Keys -> Record]
  BY DEF CompleteStored, Complete, CanComplete, Answer, IInv, StageInv, TypeOK,
         StoreTypeOK
<1>2. Once!Tell(c, "own", c)
  BY <1>1, AnswerTells DEF Replies, Outcomes, Definitive
<1>3. Slots[k] = Once!HeldBy(c)
  BY <1>1, SlotCases DEF Slots
<1>4. Slots' = [Slots EXCEPT ![k] = SlotOf(records'[k])]
  BY <1>1 DEF Slots
<1>5. CASE IsAmbiguous(outcome[c])
  <2>1. SlotOf(records'[k]) = Once!Free
    BY <1>1, <1>5, SlotCases
  <2>. QED
    BY <1>2, <1>3, <1>4, <2>1 DEF Once!Release, Slots
<1>6. CASE ~IsAmbiguous(outcome[c])
  <2>1. records'[k].state = "complete" /\ records'[k].writer = c
    BY <1>1, <1>6 DEF CompletedRecord, Record
  <2>2. SlotOf(records'[k]) = Once!WroteBy(c)
    BY <2>1, SlotCases
  <2>. QED
    BY <1>2, <1>3, <1>4, <2>2 DEF Once!Write, Slots
<1>. QED
  BY <1>5, <1>6

(* A replay echoes the slot's writer, through claim or through a poll.     *)
LEMMA ReplayRefines ==
  ASSUME IInv, NEW c \in Callers, pc[c] \in {"claiming", "waiting"},
         NEW when \in Nat, CanRead(key[c], when), records' = Purged(when),
         NEW from, LET by == records[key[c]].writer IN Answer(c, from, outcome[by], by)
  PROVE  Once!Echo(c, key[c], Expired(when))
<1>. DEFINE k == key[c]
            w == records[k].writer
<1>1. k \in Keys /\ Purged(when)[k].state = "complete"
  BY DEF CanRead, IInv, StageInv
<1>2. records[k].state = "complete" /\ Purged(when)[k] = records[k]
  BY <1>1, PurgedOnly
<1>3. /\ w \in Callers /\ w # NoCaller /\ pc[w] = "done" /\ Stored(w)
  BY <1>1, <1>2, WriterFacts
<1>4. /\ reply' = [reply EXCEPT ![c] = outcome[w]]
      /\ source' = [source EXCEPT ![c] = w]
  BY DEF Answer
<1>5. outcome[w] \in Replies \ {"none"}
  BY <1>3, StoreAssumption, SubmissionAssumption
     DEF IInv, TypeOK, StageInv, Stored, Replies, Outcomes, Definitive
<1>6. Once!Tell(c, "echo", w)
  BY <1>3, <1>4, <1>5, AnswerTells
<1>7. Slots[k] = Once!WroteBy(w) /\ Once!Forgotten(Expired(when))[k] = Once!WroteBy(w)
  BY <1>1, <1>2, SlotCases, PurgedSlots DEF Slots
<1>. QED
  BY <1>6, <1>7, PurgeForgets DEF Once!Echo, Once!WroteBy, Slots, Tolds

(* Every other answer is a refusal, with or without a purge.               *)
LEMMA RefusalRefines ==
  ASSUME IInv, NEW c \in Callers, NEW from \in Stages \ {"done"},
         NEW what \in Replies \ {"none"}, Answer(c, from, what, NoCaller),
         QuietStore
  PROVE  \E S \in SUBSET Keys : Once!Refuse(c, S)
<1>1. Once!Tell(c, "refused", NoCaller)
  BY AnswerTells DEF Answer, Move, Stages
<1>2. CASE records' = records
  <2>1. Slots' = Once!Forgotten({})
    BY <1>2 DEF Slots, Once!Forgotten
  <2>. QED
    BY <1>1, <2>1 DEF Once!Refuse, Slots, Tolds
<1>3. CASE \E when \in Nat : when <= now /\ records' = Purged(when)
  BY <1>1, <1>3, PurgeForgets DEF Once!Refuse, Slots, Tolds
<1>. QED
  BY <1>2, <1>3 DEF QuietStore

(* A purge alone forgets.                                                  *)
LEMMA PurgeRefines ==
  ASSUME NEW when \in Nat, records' = Purged(when), UNCHANGED <<reply, source>>
  PROVE  \E S \in SUBSET Keys : Once!Forget(S)
<1>1. Tolds' = Tolds
  BY DEF Tolds, ToldTo
<1>. QED
  BY <1>1, PurgeForgets DEF Once!Forget, Slots, Tolds

(* Steps that touch neither the records nor an answer are stutters.        *)
LEMMA StutterRefines ==
  ASSUME UNCHANGED <<records, reply, source>>
  PROVE  UNCHANGED <<Slots, Tolds>>
BY DEF Slots, Tolds, ToldTo

(* A row without a requestId reports its own result.                       *)
LEMMA PostRefines ==
  ASSUME IInv, NEW c \in Callers, NEW o \in Outcomes,
         NEW from \in {"claimed", "posted"}, Settle(c, from, o)
  PROVE  Once!Bypass(c) \/ UNCHANGED <<Slots, Tolds>>
<1>1. CASE key[c] = NoKey
  <2>1. Once!Tell(c, "own", c)
    BY <1>1, AnswerTells DEF Settle, Replies, Outcomes, Definitive
  <2>. QED
    BY <2>1 DEF Settle, Once!Bypass, Slots
<1>2. CASE key[c] # NoKey
  BY <1>2, StutterRefines DEF Settle
<1>. QED
  BY <1>1, <1>2

(* A restart starts the slots and the answers over.                        *)
LEMMA RestartRefines ==
  ASSUME Restart
  PROVE  Once!StartOver
BY SlotCases DEF Restart, Once!StartOver, ToldTo, Once!Nothing

(* One step of the rows and the store is a step of WriteOnce, or none.     *)
LEMMA StepRefines ==
  ASSUME IInv, [Next]_vars
  PROVE  [Once!Next]_<<Slots, Tolds>>
<1>. USE DEF Stages, Replies, Outcomes, Definitive
<1>. DEFINE Refined == [Once!Next]_<<Slots, Tolds>>
<1>1. \A c \in Callers : at[c] \in Nat /\ at[c] <= now /\ Expired(at[c]) \in SUBSET Keys
  BY DEF IInv, TypeOK, ClockInv, Expired
<1>2. ASSUME NEW c \in Callers, NEW S \in SUBSET Keys,
             Once!Refuse(c, S) \/ Once!Forget(S)
      PROVE  Refined
  BY <1>2 DEF Once!Next, Slots, Tolds
<1>3. ASSUME NEW c \in Callers, Claim(c)
      PROVE  Refined
  <2>0. pc[c] = "claiming" /\ key[c] \in Keys
    BY <1>3 DEF Claim, ClaimGranted, ClaimConflict, ClaimReplay, ClaimPending,
                ClaimUnavailable, Answer, Move, IInv, StageInv
  <2>1. CASE ClaimGranted(c)
    BY <1>1, <2>0, <2>1, GrantRefines DEF Once!Next, Slots, Tolds
  <2>2. CASE ClaimConflict(c)
    <3>1. QuietStore
      BY <1>1, <2>2 DEF ClaimConflict, QuietStore, Purge
    <3>. QED
      BY <1>2, <2>2, <3>1, RefusalRefines DEF ClaimConflict
  <2>3. CASE ClaimReplay(c)
    <3>1. CanRead(key[c], at[c])
      BY <1>1, <2>0, <2>3, PurgedOnly
         DEF ClaimReplay, IsReplay, IsVacant, CanRead, Purged, NoRecord
    <3>2. Once!Echo(c, key[c], Expired(at[c]))
      BY <1>1, <2>0, <2>3, <3>1, ReplayRefines DEF ClaimReplay, Purge
    <3>. QED
      BY <1>1, <2>0, <3>2 DEF Once!Next, Slots, Tolds
  <2>4. CASE ClaimPending(c)
    <3>1. \E S \in SUBSET Keys : Once!Forget(S)
      BY <1>1, <2>4, PurgeRefines DEF ClaimPending, Purge
    <3>. QED
      BY <1>2, <3>1
  <2>5. CASE ClaimUnavailable(c)
    <3>1. QuietStore
      BY <2>5 DEF ClaimUnavailable, QuietStore
    <3>. QED
      BY <1>2, <2>5, <3>1, RefusalRefines DEF ClaimUnavailable
  <2>. QED
    BY <1>3, <2>1, <2>2, <2>3, <2>4, <2>5 DEF Claim
<1>4. ASSUME NEW c \in Callers, Finish(c)
      PROVE  Refined
  <2>0. pc[c] = "completing" /\ key[c] \in Keys
    BY <1>4 DEF Finish, CompleteStored, CompleteLost, CompleteUnavailable,
                Answer, Move, IInv, StageInv
  <2>1. CASE CompleteStored(c)
    BY <2>0, <2>1, CompleteRefines DEF Once!Next, Slots, Tolds
  <2>2. CASE CompleteLost(c) \/ CompleteUnavailable(c)
    <3>1. QuietStore
      BY <2>2 DEF CompleteLost, CompleteUnavailable, QuietStore
    <3>. QED
      BY <1>2, <2>2, <3>1, RefusalRefines DEF CompleteLost, CompleteUnavailable
  <2>. QED
    BY <1>4, <2>1, <2>2 DEF Finish
<1>5. ASSUME NEW c \in Callers, Poll(c)
      PROVE  Refined
  <2>1. CASE PollUnavailable(c)
    <3>1. QuietStore
      BY <2>1 DEF PollUnavailable, QuietStore
    <3>. QED
      BY <1>2, <2>1, <3>1, RefusalRefines DEF PollUnavailable
  <2>2. ASSUME NEW seen \in at[c]..now,
               PollHit(c, seen) \/ PollTimeout(c, seen) \/ PollAgain(c, seen)
        PROVE  Refined
    <3>0. /\ pc[c] = "waiting" /\ key[c] \in Keys
          /\ seen \in Nat /\ seen <= now /\ Expired(seen) \in SUBSET Keys
      BY <1>1, <2>2 DEF PollHit, PollTimeout, PollAgain, IInv, TypeOK, StageInv, Expired
    <3>1. CASE PollHit(c, seen)
      <4>1. Once!Echo(c, key[c], Expired(seen))
        BY <3>0, <3>1, ReplayRefines DEF PollHit, Purge
      <4>. QED
        BY <3>0, <4>1 DEF Once!Next, Slots, Tolds
    <3>2. CASE PollTimeout(c, seen)
      <4>1. QuietStore
        BY <3>0, <3>2 DEF PollTimeout, QuietStore, Purge
      <4>. QED
        BY <1>2, <3>2, <4>1, RefusalRefines DEF PollTimeout
    <3>3. CASE PollAgain(c, seen)
      <4>1. \E S \in SUBSET Keys : Once!Forget(S)
        BY <3>0, <3>3, PurgeRefines DEF PollAgain, Purge, taskVars
      <4>. QED
        BY <1>2, <4>1
    <3>. QED
      BY <2>2, <3>1, <3>2, <3>3
  <2>. QED
    BY <1>5, <2>1, <2>2 DEF Poll
<1>6. ASSUME NEW c \in Callers, NEW o \in Outcomes, NEW from \in {"claimed", "posted"},
             Settle(c, from, o)
      PROVE  Refined
  BY <1>6, PostRefines DEF Once!Next, Slots, Tolds
<1>7. CASE Restart
  BY <1>7, RestartRefines DEF Once!Next
<1>8. ASSUME UNCHANGED <<records, reply, source>>
      PROVE  Refined
  BY <1>8, StutterRefines DEF Slots, Tolds
<1>. QED
  BY <1>3, <1>4, <1>5, <1>6, <1>7, <1>8
     DEF Next, Submit, SubmitUnkeyed, Send, NoPost, Unposted, PostReturns, Die, Tick, vars, taskVars

(* The store and its rows implement WriteOnce: whatever the clocks, the    *)
(* crashes and the outages, a row is answered at most once, as the holder  *)
(* of its key or with the result of the row that wrote it.                 *)
THEOREM StoreImplementsWriteOnce == Spec => ImplementsWriteOnce
<1>1. Init => Once!Init
  BY SlotCases
     DEF Init, StoreInit, IdleTasks, Once!Init, ToldTo, Once!Nothing
<1>2. IInv /\ [Next]_vars => [Once!Next]_<<Slots, Tolds>>
  BY StepRefines
<1>. QED
  BY <1>1, <1>2, Invariant, PTL DEF ImplementsWriteOnce, Once!Spec, Spec, Slots, Tolds

=============================================================================
