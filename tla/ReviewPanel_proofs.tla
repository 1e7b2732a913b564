------------------------ MODULE ReviewPanel_proofs ------------------------
(***************************************************************************)
(* Proofs about ReviewPanel: its types, that results stay beside the       *)
(* entries they answer, and that a confirmed panel is confirmed by Oracle, *)
(* for any number of rows, keys, contents and rows served.                 *)
(***************************************************************************)
EXTENDS ReviewPanel, FiniteSetTheorems, SequenceTheorems, TLAPS

Entry == [key : Keys, content : Contents]

(* The server.                                                             *)
ServerType ==
  /\ slot \in [Keys -> Slot] /\ told \in [Callers -> Told]
  /\ stage   \in [Callers -> {"idle", "started", "posting", "settling", "done", "gone"}]
  /\ asked   \in [Callers -> Keys \cup {NoKey}]
  /\ content \in [Callers -> Contents \cup {NoKey}]
  /\ outcome \in [Callers -> Outcomes \cup {"none"}]
  /\ reply   \in [Callers -> Replies \cup {"none"}]
  /\ created \subseteq Keys

(* What a row answers is what Oracle was told of its key: its outcome, and *)
(* the reply of whoever wrote the slot that is echoed.                     *)
ServerFits ==
  /\ \A c \in Callers :
       /\ stage[c] # "idle" => asked[c] \in Keys
       /\ outcome[c] # "none" <=> stage[c] = "settling"
       /\ reply[c] # "none" <=> stage[c] = "done"
       /\ outcome[c] = "created" => asked[c] \in created
       /\ reply[c] = "created" => asked[c] \in created
  /\ \A k \in Keys : slot[k].kind = "written" =>
       slot[k].by \in Callers /\ stage[slot[k].by] = "done" /\ asked[slot[k].by] = k

ServerInv == ServerType /\ ServerFits

(* The panel.                                                              *)
DraftType ==
  /\ entries \in Seq(Entry) /\ Len(entries) <= MaxEntries
  /\ results \subseteq Rows /\ pending \subseteq DOMAIN entries
  /\ used \subseteq Keys /\ mounted \in BOOLEAN

(* Each result stands beside its entry, and there are results for all      *)
(* entries or for none.                                                    *)
ResultsFit ==
  /\ ResultsFollowTheirRows
  /\ \A r \in results : r.reply = "created" => r.key \in created
  /\ results # {} => \A i \in DOMAIN entries : RowAt(i) # {}

(* The items that were sent are still what the panel shows, and the rows   *)
(* that serve them have their keys.                                        *)
ItemsFit(items) ==
  /\ items \in Seq(Items)
  /\ \A j \in DOMAIN items : /\ items[j].index \in DOMAIN entries
                             /\ entries[items[j].index].key = items[j].entry
                             /\ entries[items[j].index].content = items[j].content

RowsFit(items, rows) ==
  rows = <<>> \/ /\ rows \in [DOMAIN items -> Callers]
                 /\ \A j \in DOMAIN items : stage[rows[j]] # "idle" /\ asked[rows[j]] = items[j].key

KindFits(kind, items) ==
  /\ kind \in {"submit", "retry", "resubmit"}
  /\ kind = "submit" => results = {} /\ \A i \in DOMAIN entries : \E j \in DOMAIN items : items[j].index = i

CallInv ==
  call = NoCall \/ /\ KindFits(call.kind, call.items) /\ ItemsFit(call.items)
                   /\ RowsFit(call.items, call.rows)

PanelInv == DraftType /\ ResultsFit /\ CallInv

-----------------------------------------------------------------------------
(* The server's steps.                                                     *)

(* A step of row c that writes or echoes nothing: it may grant a slot, or  *)
(* free it.                                                                *)
LEMMA SlotFits ==
  ASSUME ServerInv, NEW c \in Callers, NEW to \in {"posting", "settling", "done", "gone"},
         stage' = [stage EXCEPT ![c] = to], stage[c] \in {"started", "posting", "settling"},
         UNCHANGED asked, slot' \in [Keys -> Slot],
         \A k \in Keys : slot'[k].kind = "written" =>
            slot'[k] = slot[k] \/ (slot'[k].by = c /\ to = "done" /\ k = asked[c])
  PROVE  \A k \in Keys : slot'[k].kind = "written" =>
            slot'[k].by \in Callers /\ stage'[slot'[k].by] = "done" /\ asked'[slot'[k].by] = k
BY DEF ServerInv, ServerType, ServerFits

LEMMA TellTypes ==
  ASSUME ServerType, NEW c \in Callers, NEW kind \in {"own", "echo", "refused"},
         NEW by \in Callers \cup {NoCaller}, Tell(c, kind, by)
  PROVE  told' \in [Callers -> Told]
BY DEF ServerType, Tell, Told

LEMMA ForgottenNothing ==
  ASSUME ServerType
  PROVE  Forgotten({}) = slot
BY DEF ServerType, Forgotten

LEMMA GrantedFits ==
  ASSUME ServerInv, NEW c \in Callers, NEW S \in SUBSET {asked[c]}, Granted(c, S)
  PROVE  ServerInv'
<1>1. /\ stage[c] = "started" /\ stage' = [stage EXCEPT ![c] = "posting"]
      /\ slot' = [Forgotten(S) EXCEPT ![asked[c]] = HeldBy(c)]
      /\ UNCHANGED <<told, asked, content, outcome, reply, created>>
  BY DEF Granted, Proceed, Grant
<1>2. asked[c] \in Keys
  BY <1>1 DEF ServerInv, ServerFits
<1>3. Forgotten(S) \in [Keys -> Slot] /\ HeldBy(c) \in Slot /\ HeldBy(c).kind = "held"
      /\ Free.kind = "free"
  BY DEF ServerInv, ServerType, Forgotten, Slot, Free, HeldBy
<1>4. slot' \in [Keys -> Slot]
      /\ \A k \in Keys : slot'[k].kind = "written" => slot'[k] = slot[k]
  BY <1>1, <1>2, <1>3 DEF Forgotten
<1>5. ServerType'
  BY <1>1, <1>4 DEF ServerInv, ServerType
<1>6. \A d \in Callers :
        /\ stage'[d] # "idle" => asked'[d] \in Keys
        /\ outcome'[d] # "none" <=> stage'[d] = "settling"
        /\ reply'[d] # "none" <=> stage'[d] = "done"
        /\ outcome'[d] = "created" => asked'[d] \in created'
        /\ reply'[d] = "created" => asked'[d] \in created'
  BY <1>1, <1>2 DEF ServerInv, ServerType, ServerFits
<1>. QED
  BY <1>1, <1>4, <1>5, <1>6, SlotFits DEF ServerInv, ServerFits

LEMMA ReplayedFits ==
  ASSUME ServerInv, NEW c \in Callers, Replayed(c, {})
  PROVE  ServerInv'
<1> DEFINE by == slot[asked[c]].by
<1>1. /\ stage[c] = "started" /\ stage' = [stage EXCEPT ![c] = "done"]
      /\ slot[asked[c]].kind = "written" /\ slot' = slot /\ Tell(c, "echo", by)
      /\ reply' = [reply EXCEPT ![c] = reply[by]]
      /\ UNCHANGED <<asked, content, outcome, created>>
  BY ForgottenNothing DEF Replayed, Proceed, Echo, Reply, ServerInv
<1>2. asked[c] \in Keys
  BY <1>1 DEF ServerInv, ServerFits
<1>3. by \in Callers /\ stage[by] = "done" /\ asked[by] = asked[c]
  BY <1>1, <1>2 DEF ServerInv, ServerFits
<1>4. /\ reply[by] \in Replies /\ reply[by] # "none"
      /\ reply[by] = "created" => asked[c] \in created
  BY <1>3 DEF ServerInv, ServerFits, ServerType
<1> HIDE DEF by
<1>5. told' \in [Callers -> Told]
  BY <1>1, <1>3, TellTypes DEF ServerInv
<1>6. ServerType'
  BY <1>1, <1>4, <1>5 DEF ServerInv, ServerType
<1>7. \A d \in Callers :
        /\ stage'[d] # "idle" => asked'[d] \in Keys
        /\ outcome'[d] # "none" <=> stage'[d] = "settling"
        /\ reply'[d] # "none" <=> stage'[d] = "done"
        /\ outcome'[d] = "created" => asked'[d] \in created'
        /\ reply'[d] = "created" => asked'[d] \in created'
  BY <1>1, <1>2, <1>4 DEF ServerInv, ServerType, ServerFits
<1>. QED
  BY <1>1, <1>6, <1>7, SlotFits DEF ServerInv, ServerFits, ServerType

(* A row that is told to try again, or that its entry is another's.        *)
LEMMA RefusedFits ==
  ASSUME ServerInv, NEW c \in Callers, Refused(c) \/ Unsettled(c)
  PROVE  ServerInv'
<1>1. /\ stage[c] \in {"started", "settling"} /\ stage' = [stage EXCEPT ![c] = "done"]
      /\ slot' = slot /\ Tell(c, "refused", NoCaller)
      /\ UNCHANGED <<asked, content, created>>
  BY ForgottenNothing DEF Refused, Unsettled, Proceed, Refuse, ServerInv
<1>2. \E what \in {"try_again", "conflict"} : reply' = [reply EXCEPT ![c] = what]
  BY DEF Refused, Unsettled, Reply
<1>3. outcome' \in [Callers -> Outcomes \cup {"none"}] /\ outcome'[c] = "none"
      /\ \A d \in Callers \ {c} : outcome'[d] = outcome[d]
  <2>1. CASE Refused(c)
    BY <2>1 DEF Refused, Proceed, ServerInv, ServerType, ServerFits
  <2>2. CASE Unsettled(c)
    BY <2>2 DEF Unsettled, ServerInv, ServerType
  <2>. QED
    BY <2>1, <2>2
<1>4. told' \in [Callers -> Told]
  BY <1>1, TellTypes DEF ServerInv
<1>5. ServerType'
  BY <1>1, <1>2, <1>3, <1>4 DEF ServerInv, ServerType, Replies
<1>6. \A d \in Callers :
        /\ stage'[d] # "idle" => asked'[d] \in Keys
        /\ outcome'[d] # "none" <=> stage'[d] = "settling"
        /\ reply'[d] # "none" <=> stage'[d] = "done"
        /\ outcome'[d] = "created" => asked'[d] \in created'
        /\ reply'[d] = "created" => asked'[d] \in created'
  BY <1>1, <1>2, <1>3 DEF ServerInv, ServerType, ServerFits
<1>. QED
  BY <1>1, <1>5, <1>6, SlotFits DEF ServerInv, ServerFits, ServerType

LEMMA PostedFits ==
  ASSUME ServerInv, NEW c \in Callers, NEW o \in Outcomes, Posted(c, o)
  PROVE  ServerInv' /\ created \subseteq created'
<1>1. /\ stage[c] = "posting" /\ stage' = [stage EXCEPT ![c] = "settling"]
      /\ outcome' = [outcome EXCEPT ![c] = o]
      /\ created' = IF o = "created" THEN created \cup {asked[c]} ELSE created
      /\ UNCHANGED <<slot, told, asked, content, reply>>
  BY DEF Posted, Proceed
<1>2. asked[c] \in Keys /\ o # "none"
  BY <1>1 DEF ServerInv, ServerFits, Outcomes, Definitive
<1>3. ServerType' /\ created \subseteq created'
  BY <1>1, <1>2 DEF ServerInv, ServerType
<1>4. \A d \in Callers :
        /\ stage'[d] # "idle" => asked'[d] \in Keys
        /\ outcome'[d] # "none" <=> stage'[d] = "settling"
        /\ reply'[d] # "none" <=> stage'[d] = "done"
        /\ outcome'[d] = "created" => asked'[d] \in created'
        /\ reply'[d] = "created" => asked'[d] \in created'
  BY <1>1, <1>2 DEF ServerInv, ServerType, ServerFits
<1>. QED
  BY <1>1, <1>3, <1>4, SlotFits DEF ServerInv, ServerFits, ServerType

LEMMA SettledFits ==
  ASSUME ServerInv, NEW c \in Callers, Settled(c)
  PROVE  ServerInv'
<1>1. /\ stage[c] = "settling" /\ stage' = [stage EXCEPT ![c] = "done"]
      /\ Write(c, asked[c]) \/ Release(c, asked[c])
      /\ reply' = [reply EXCEPT ![c] = outcome[c]]
      /\ outcome' = [outcome EXCEPT ![c] = "none"]
      /\ UNCHANGED <<asked, content, created>>
  BY DEF Settled, Proceed, Reply
<1>2. asked[c] \in Keys /\ outcome[c] \in Outcomes /\ outcome[c] # "none"
      /\ (outcome[c] = "created" => asked[c] \in created)
  BY <1>1 DEF ServerInv, ServerFits, ServerType
<1>3. /\ slot' \in [Keys -> Slot] /\ Tell(c, "own", c)
      /\ \A k \in Keys : slot'[k].kind = "written" => slot'[k] = slot[k]
                                                      \/ (slot'[k].by = c /\ k = asked[c])
  <2>1. WroteBy(c) \in Slot /\ WroteBy(c).by = c /\ Free \in Slot /\ Free.kind = "free"
    BY DEF WroteBy, Free, Slot
  <2>. QED
    BY <1>1, <1>2, <2>1 DEF Write, Release, ServerInv, ServerType
<1>4. told' \in [Callers -> Told]
  BY <1>3, TellTypes DEF ServerInv
<1>5. ServerType'
  BY <1>1, <1>2, <1>3, <1>4 DEF ServerInv, ServerType, Replies
<1>6. \A d \in Callers :
        /\ stage'[d] # "idle" => asked'[d] \in Keys
        /\ outcome'[d] # "none" <=> stage'[d] = "settling"
        /\ reply'[d] # "none" <=> stage'[d] = "done"
        /\ outcome'[d] = "created" => asked'[d] \in created'
        /\ reply'[d] = "created" => asked'[d] \in created'
  BY <1>1, <1>2 DEF ServerInv, ServerType, ServerFits
<1>7. \A k \in Keys : slot'[k].kind = "written" =>
        slot'[k].by \in Callers /\ stage'[slot'[k].by] = "done" /\ asked'[slot'[k].by] = k
  <2>1. \A k \in Keys : slot'[k].kind = "written" =>
          slot'[k] = slot[k] \/ (slot'[k].by = c /\ "done" = "done" /\ k = asked[c])
    BY <1>3
  <2>. QED
    BY <1>1, <1>3, <2>1, SlotFits
<1>. QED
  BY <1>5, <1>6, <1>7 DEF ServerInv, ServerFits

LEMMA DieFits ==
  ASSUME ServerInv, NEW c \in Callers, Die(c)
  PROVE  ServerInv'
<1>1. /\ stage[c] \in {"started", "posting", "settling"}
      /\ stage' = [stage EXCEPT ![c] = "gone"] /\ outcome' = [outcome EXCEPT ![c] = "none"]
      /\ UNCHANGED <<slot, told, asked, content, reply, created>>
  BY DEF Die
<1>2. ServerType'
  BY <1>1 DEF ServerInv, ServerType
<1>3. \A d \in Callers :
        /\ stage'[d] # "idle" => asked'[d] \in Keys
        /\ outcome'[d] # "none" <=> stage'[d] = "settling"
        /\ reply'[d] # "none" <=> stage'[d] = "done"
        /\ outcome'[d] = "created" => asked'[d] \in created'
        /\ reply'[d] = "created" => asked'[d] \in created'
  BY <1>1 DEF ServerInv, ServerType, ServerFits
<1>. QED
  BY <1>1, <1>2, <1>3, SlotFits DEF ServerInv, ServerFits, ServerType

LEMMA ServeFits ==
  ASSUME ServerInv, NEW c \in Callers, Serve(c)
  PROVE  /\ ServerInv' /\ created \subseteq created' /\ UNCHANGED asked
         /\ \A d \in Callers : stage[d] # "idle" => stage'[d] # "idle"
<1>1. ServerInv'
  BY GrantedFits, ReplayedFits, RefusedFits, PostedFits, SettledFits, DieFits DEF Serve
<1>2. created \subseteq created'
  <2>1. CASE \E o \in Outcomes : Posted(c, o)
    BY <2>1, PostedFits
  <2>2. CASE UNCHANGED created
    BY <2>2
  <2>. QED
    BY <2>1, <2>2 DEF Serve, Granted, Replayed, Refused, Settled, Unsettled, Die
<1>3. UNCHANGED asked
  BY DEF Serve, Granted, Replayed, Refused, Posted, Settled, Unsettled, Die
<1>4. \E to \in {"posting", "settling", "done", "gone"} : stage' = [stage EXCEPT ![c] = to]
  BY DEF Serve, Granted, Replayed, Refused, Posted, Settled, Unsettled, Die, Proceed
<1>. QED
  BY <1>1, <1>2, <1>3, <1>4 DEF ServerInv, ServerType

-----------------------------------------------------------------------------
(* Requests that are sent.                                                 *)

(* A request that arrives gives each of its rows the key of its item.      *)
LEMMA ArriveFits ==
  ASSUME ServerInv, NEW items \in Seq(Items), NEW rows \in [DOMAIN items -> Callers],
         Distinct(rows), Arrive(items, rows)
  PROVE  /\ ServerInv' /\ UNCHANGED created
         /\ \A j \in DOMAIN items : stage'[rows[j]] # "idle" /\ asked'[rows[j]] = items[j].key
<1> DEFINE Starts(c) == \E j \in DOMAIN rows : rows[j] = c
           ItemOf(c) == items[CHOOSE j \in DOMAIN rows : rows[j] = c]
<1>1. /\ \A j \in DOMAIN rows : stage[rows[j]] = "idle"
      /\ stage'   = [c \in Callers |-> IF Starts(c) THEN "started" ELSE stage[c]]
      /\ asked'   = [c \in Callers |-> IF Starts(c) THEN ItemOf(c).key ELSE asked[c]]
      /\ content' = [c \in Callers |-> IF Starts(c) THEN ItemOf(c).content ELSE content[c]]
      /\ UNCHANGED <<slot, told, outcome, reply, created>>
  BY DEF Arrive
<1>2. DOMAIN rows = DOMAIN items /\ \A j \in DOMAIN items : items[j] \in Items
  <2>1. \A j \in DOMAIN items : items[j] \in Items
    BY LenProperties, ElementOfSeq
  <2>. QED
    BY <2>1
<1>3. ASSUME NEW j \in DOMAIN items
      PROVE  ItemOf(rows[j]) = items[j] /\ Starts(rows[j]) /\ rows[j] \in Callers
  <2>1. rows[j] = rows[j] /\ j \in DOMAIN rows
    BY <1>2
  <2> DEFINE i == CHOOSE i \in DOMAIN rows : rows[i] = rows[j]
  <2>2. i \in DOMAIN rows /\ rows[i] = rows[j]
    BY <2>1, Zenon
  <2>3. i = j
    BY <2>1, <2>2, Zenon DEF Distinct
  <2>. QED
    BY <2>1, <2>3
<1>4. ASSUME NEW c \in Callers, Starts(c)
      PROVE  stage[c] = "idle" /\ ItemOf(c).key \in Keys /\ ItemOf(c).content \in Contents
  <2>1. PICK j \in DOMAIN rows : rows[j] = c
    BY <1>4
  <2>2. ItemOf(c) = items[j] /\ items[j] \in Items
    BY <1>2, <1>3, <2>1
  <2>. QED
    BY <1>1, <2>1, <2>2 DEF Items
<1> HIDE DEF Starts, ItemOf
<1>5. \A j \in DOMAIN items : stage'[rows[j]] # "idle" /\ asked'[rows[j]] = items[j].key
  BY <1>1, <1>3
<1>6. ServerType'
  BY <1>1, <1>4 DEF ServerInv, ServerType
<1>7. \A d \in Callers :
        /\ stage'[d] # "idle" => asked'[d] \in Keys
        /\ outcome'[d] # "none" <=> stage'[d] = "settling"
        /\ reply'[d] # "none" <=> stage'[d] = "done"
        /\ outcome'[d] = "created" => asked'[d] \in created'
        /\ reply'[d] = "created" => asked'[d] \in created'
  BY <1>1, <1>4 DEF ServerInv, ServerType, ServerFits
<1>8. \A k \in Keys : slot'[k].kind = "written" =>
        slot'[k].by \in Callers /\ stage'[slot'[k].by] = "done" /\ asked'[slot'[k].by] = k
  BY <1>1, <1>4 DEF ServerInv, ServerType, ServerFits
<1>. QED
  BY <1>1, <1>5, <1>6, <1>7, <1>8 DEF ServerInv, ServerFits

(* The panel awaits a request of items that are on it.                     *)
LEMMA AwaitFits ==
  ASSUME ServerInv, DraftType, ResultsFit, NEW kind, NEW items, KindFits(kind, items),
         ItemsFit(items), Await(kind, items),
         pending' = {}, used' \subseteq Keys, UNCHANGED <<entries, results, mounted>>
  PROVE  ServerInv' /\ PanelInv'
<1>1. DraftType' /\ ItemsFit(items)' /\ KindFits(kind, items)'
  BY DEF DraftType, ItemsFit, KindFits
<1>2. items \in Seq(Items)
  BY DEF ItemsFit
<1>3. ASSUME UNCHANGED created
      PROVE  ResultsFit'
  BY <1>3 DEF ResultsFit, ResultsFollowTheirRows, RowAt
<1>4. ASSUME NEW rows \in [DOMAIN items -> Callers], Distinct(rows), Arrive(items, rows),
             call' = [kind |-> kind, items |-> items, rows |-> rows]
      PROVE  ServerInv' /\ PanelInv'
  <2>1. ServerInv' /\ UNCHANGED created
        /\ \A j \in DOMAIN items : stage'[rows[j]] # "idle" /\ asked'[rows[j]] = items[j].key
    BY <1>2, <1>4, ArriveFits
  <2>2. call'.kind = kind /\ call'.items = items /\ call'.rows = rows
    BY <1>4
  <2>3. RowsFit(items, rows)'
    BY <2>1 DEF RowsFit
  <2>4. CallInv'
    BY <1>1, <2>2, <2>3 DEF CallInv
  <2>. QED
    BY <1>1, <1>3, <2>1, <2>4 DEF PanelInv
<1>5. ASSUME call' = [kind |-> kind, items |-> items, rows |-> <<>>], UNCHANGED serverVars
      PROVE  ServerInv' /\ PanelInv'
  <2>1. ServerInv' /\ UNCHANGED created
    BY <1>5 DEF serverVars, ServerInv, ServerType, ServerFits
  <2>2. call'.kind = kind /\ call'.items = items /\ call'.rows = <<>>
    BY <1>5
  <2>3. CallInv'
    BY <1>1, <2>2 DEF CallInv, RowsFit
  <2>. QED
    BY <1>1, <1>3, <2>1, <2>3 DEF PanelInv
<1>. QED
  BY <1>4, <1>5 DEF Await

(* Items for positions on the panel fit it.                                *)
LEMMA ItemsForFit ==
  ASSUME DraftType, NEW n \in Nat, NEW at \in [1..n -> DOMAIN entries], NEW ks \in [1..n -> Keys]
  PROVE  ItemsFit([j \in 1..n |-> ItemFor(at[j], ks[j])])
<1> DEFINE items == [j \in 1..n |-> ItemFor(at[j], ks[j])]
<1>1. ASSUME NEW i \in DOMAIN entries
      PROVE  entries[i] \in Entry /\ i \in 1..MaxEntries
  <2>1. DOMAIN entries = 1..Len(entries) /\ entries[i] \in Entry /\ Len(entries) \in Nat
    BY LenProperties, ElementOfSeq DEF DraftType
  <2>. QED
    BY <2>1, PanelAssumption DEF DraftType
<1>2. \A j \in 1..n : /\ items[j] \in Items /\ items[j].index \in DOMAIN entries
                      /\ entries[items[j].index].key = items[j].entry
                      /\ entries[items[j].index].content = items[j].content
  BY <1>1 DEF ItemFor, Items, Entry
<1>3. items \in Seq(Items) /\ DOMAIN items = 1..n
  <2>1. items \in [1..n -> Items]
    BY <1>2
  <2> HIDE DEF items
  <2>. QED
    BY <2>1
<1>. QED
  BY <1>2, <1>3 DEF ItemsFit

LEMMA submitFits ==
  ASSUME ServerInv, PanelInv, submit
  PROVE  ServerInv' /\ PanelInv'
<1> DEFINE n  == Len(entries)
           ks == [i \in 1..n |-> entries[i].key]
           at == [i \in 1..n |-> i]
           items == [j \in 1..n |-> ItemFor(at[j], ks[j])]
<1>1. DOMAIN entries = 1..n /\ n \in Nat /\ \A i \in 1..n : entries[i] \in Entry
  BY LenProperties, ElementOfSeq DEF PanelInv, DraftType
<1>2. at \in [1..n -> DOMAIN entries] /\ ks \in [1..n -> Keys]
  BY <1>1 DEF Entry
<1>3. items = [i \in DOMAIN entries |-> ItemFor(i, entries[i].key)]
  BY <1>1
<1> HIDE DEF n, ks, at
<1>4. ItemsFit(items)
  BY <1>1, <1>2, ItemsForFit DEF PanelInv
<1>5. Await("submit", items) /\ results = {} /\ pending' = {}
      /\ UNCHANGED <<entries, results, used, mounted>>
  BY <1>3 DEF submit
<1>6. KindFits("submit", items)
  <2>1. \A i \in DOMAIN entries : items[i].index = i /\ i \in DOMAIN items
    BY <1>3 DEF ItemFor
  <2>. QED
    BY <1>5, <2>1 DEF KindFits
<1>7. used' \subseteq Keys
  BY <1>5 DEF PanelInv, DraftType
<1> HIDE DEF items
<1>. QED
  BY <1>4, <1>5, <1>6, <1>7, AwaitFits DEF PanelInv

(* What is retried and resubmitted is on the panel.                        *)
LEMMA TargetsFit ==
  ASSUME DraftType, NEW S, NEW targets \in Targets(S)
  PROVE  \E n \in Nat : targets \in [1..n -> DOMAIN entries] /\ DOMAIN targets = 1..n
<1> DEFINE T == S \cap DOMAIN entries
<1>1. targets \in [1..Cardinality(T) -> T]
  BY DEF Targets
<1>2. IsFiniteSet(T)
  <2>1. DOMAIN entries = 1..Len(entries) /\ Len(entries) \in Nat
    BY LenProperties DEF DraftType
  <2>2. IsFiniteSet(1..Len(entries))
    BY <2>1, FS_Interval
  <2>. QED
    BY <2>1, <2>2, FS_Subset
<1>3. Cardinality(T) \in Nat
  BY <1>2, FS_CardinalityType
<1>. QED
  BY <1>1, <1>3

LEMMA retryFits ==
  ASSUME ServerInv, PanelInv, NEW S, retryWithSameKey(S)
  PROVE  ServerInv' /\ PanelInv'
<1>1. PICK targets \in Targets(S) :
        Await("retry", [j \in DOMAIN targets |-> ItemFor(targets[j], entries[targets[j]].key)])
  BY DEF retryWithSameKey
<1>2. PICK n \in Nat : targets \in [1..n -> DOMAIN entries] /\ DOMAIN targets = 1..n
  BY TargetsFit DEF PanelInv
<1> DEFINE ks == [j \in 1..n |-> entries[targets[j]].key]
           items == [j \in 1..n |-> ItemFor(targets[j], ks[j])]
<1>3. \A i \in DOMAIN entries : entries[i].key \in Keys
  <2>1. \A i \in DOMAIN entries : entries[i] \in Entry
    BY LenProperties, ElementOfSeq DEF PanelInv, DraftType
  <2>. QED
    BY <2>1 DEF Entry
<1>4. ks \in [1..n -> Keys]
  BY <1>2, <1>3
<1>5. items = [j \in DOMAIN targets |-> ItemFor(targets[j], entries[targets[j]].key)]
  BY <1>2
<1> HIDE DEF ks
<1>6. ItemsFit(items)
  BY <1>2, <1>4, ItemsForFit DEF PanelInv
<1> HIDE DEF items
<1>7. Await("retry", items) /\ KindFits("retry", items)
  BY <1>1, <1>5 DEF KindFits
<1>8. pending' = {} /\ used' \subseteq Keys /\ UNCHANGED <<entries, results, mounted>>
  BY DEF retryWithSameKey, PanelInv, DraftType
<1>. QED
  BY <1>6, <1>7, <1>8, AwaitFits DEF PanelInv

LEMMA resubmitFits ==
  ASSUME ServerInv, PanelInv, resubmitWithNewKey
  PROVE  ServerInv' /\ PanelInv'
<1>1. PICK targets \in Targets(pending) : \E ks \in [DOMAIN targets -> Keys \ used] :
        /\ used' = used \cup {ks[j] : j \in DOMAIN targets}
        /\ Await("resubmit", [j \in DOMAIN targets |-> ItemFor(targets[j], ks[j])])
  BY DEF resubmitWithNewKey
<1>2. PICK ks \in [DOMAIN targets -> Keys \ used] :
        /\ used' = used \cup {ks[j] : j \in DOMAIN targets}
        /\ Await("resubmit", [j \in DOMAIN targets |-> ItemFor(targets[j], ks[j])])
  BY <1>1
<1>3. PICK n \in Nat : targets \in [1..n -> DOMAIN entries] /\ DOMAIN targets = 1..n
  BY TargetsFit DEF PanelInv
<1> DEFINE items == [j \in 1..n |-> ItemFor(targets[j], ks[j])]
<1>4. ks \in [1..n -> Keys]
  BY <1>3
<1>5. ItemsFit(items)
  BY <1>3, <1>4, ItemsForFit DEF PanelInv
<1>6. Await("resubmit", items)
  BY <1>2, <1>3
<1> HIDE DEF items
<1>7. KindFits("resubmit", items)
  BY DEF KindFits
<1>8. pending' = {} /\ used' \subseteq Keys /\ UNCHANGED <<entries, results, mounted>>
  BY <1>2 DEF resubmitWithNewKey, PanelInv, DraftType
<1>. QED
  BY <1>5, <1>6, <1>7, <1>8, AwaitFits DEF PanelInv

-----------------------------------------------------------------------------
(* Edits of the panel, and answers.                                        *)

(* While the panel awaits nothing there is no call that has to fit.        *)
LEMMA IdleCall ==
  ASSUME ServerInv, call = NoCall, UNCHANGED <<call, serverVars>>
  PROVE  CallInv' /\ ServerInv' /\ UNCHANGED created
BY DEF CallInv, serverVars, ServerInv, ServerType, ServerFits

LEMMA updateFits ==
  ASSUME ServerInv, PanelInv, NEW i \in DOMAIN entries, NEW text \in Contents,
         updateEntry(i, text), UNCHANGED serverVars
  PROVE  ServerInv' /\ PanelInv'
<1>1. /\ call = NoCall /\ ~IsConfirmed(i) /\ entries' = [entries EXCEPT ![i].content = text]
      /\ UNCHANGED <<results, pending, call, used, mounted>>
  BY DEF updateEntry, Editable, Ready, Busy
<1>2. CallInv' /\ ServerInv' /\ UNCHANGED created
  BY <1>1, IdleCall
<1>3. /\ DOMAIN entries = 1..Len(entries) /\ Len(entries) \in Nat
      /\ \A j \in DOMAIN entries : entries[j] \in Entry
  BY LenProperties, ElementOfSeq DEF PanelInv, DraftType
<1>4. [entries[i] EXCEPT !.content = text] \in Entry
      /\ [entries[i] EXCEPT !.content = text].key = entries[i].key
  BY <1>3 DEF Entry
<1>5. entries' = [entries EXCEPT ![i] = [entries[i] EXCEPT !.content = text]]
  BY <1>1
<1>6. /\ entries' \in Seq(Entry) /\ Len(entries') = Len(entries)
      /\ DOMAIN entries' = DOMAIN entries
      /\ \A j \in DOMAIN entries : /\ entries'[j].key = entries[j].key
                                   /\ j # i => entries'[j] = entries[j]
  <2>1. entries \in Seq(Entry)
    BY DEF PanelInv, DraftType
  <2>2. entries' \in Seq(Entry) /\ Len(entries') = Len(entries)
    BY <1>3, <1>4, <1>5, <2>1, ExceptSeq
  <2>. QED
    BY <1>3, <1>4, <1>5, <2>2
<1>7. DraftType'
  BY <1>1, <1>6 DEF PanelInv, DraftType
<1>8. ResultsFit'
  <2>1. ASSUME NEW r \in results, ~Failed(r)
        PROVE  r.index # i
    BY <1>1, <2>1 DEF IsConfirmed, RowAt, Failed
  <2>2. ResultsFollowTheirRows'
    BY <1>1, <1>6, <2>1 DEF PanelInv, ResultsFit, ResultsFollowTheirRows, Failed
  <2>. QED
    BY <1>1, <1>2, <1>6, <2>2 DEF PanelInv, ResultsFit, RowAt
<1>. QED
  BY <1>2, <1>7, <1>8 DEF PanelInv

LEMMA addFits ==
  ASSUME ServerInv, PanelInv, NEW k \in Keys, NEW text \in Contents,
         addEntry(k, text) \/ clearEntry(k, text), UNCHANGED serverVars
  PROVE  ServerInv' /\ PanelInv'
<1>1. /\ call = NoCall /\ results' = {} /\ pending' = {} /\ used' = used \cup {k}
      /\ UNCHANGED <<call, mounted>>
  BY DEF addEntry, clearEntry, Draw, NothingAsked, Editable, Ready, Busy
<1>2. CallInv' /\ ServerInv'
  BY <1>1, IdleCall
<1>3. entries' \in Seq(Entry) /\ Len(entries') <= MaxEntries
  <2> DEFINE e == [key |-> k, content |-> text]
  <2>1. e \in Entry
    BY DEF Entry
  <2> HIDE DEF e
  <2>2. entries \in Seq(Entry) /\ Len(entries) \in Nat
    BY LenProperties DEF PanelInv, DraftType
  <2>3. CASE entries' = Append(entries, e) /\ Len(entries) < MaxEntries
    BY <2>1, <2>2, <2>3, AppendProperties, PanelAssumption
  <2>4. CASE entries' = <<e>>
    BY <2>1, <2>4, PanelAssumption
  <2>. QED
    BY <2>3, <2>4 DEF addEntry, clearEntry, e
<1>4. DraftType'
  BY <1>1, <1>3 DEF PanelInv, DraftType
<1>5. ResultsFit'
  BY <1>1 DEF ResultsFit, ResultsFollowTheirRows
<1>. QED
  BY <1>2, <1>4, <1>5 DEF PanelInv

(* Positions behind the one that goes move up by one.                      *)
LEMMA RemovedEntry ==
  ASSUME NEW es \in Seq(Entry), NEW i \in DOMAIN es
  PROVE  /\ RemoveAt(es, i) \in Seq(Entry) /\ Len(RemoveAt(es, i)) = Len(es) - 1
         /\ DOMAIN RemoveAt(es, i) = 1..Len(es) - 1
         /\ \A j \in 1..Len(es) - 1 : RemoveAt(es, i)[j] = es[IF j < i THEN j ELSE j + 1]
<1> DEFINE n == Len(es)
           a == SubSeq(es, 1, i - 1)
           b == SubSeq(es, i + 1, n)
<1>1. n \in Nat /\ DOMAIN es = 1..n /\ i \in 1..n /\ \A j \in 1..n : es[j] \in Entry
  BY LenProperties, ElementOfSeq
<1> HIDE DEF n
<1>2. /\ a \in Seq(Entry) /\ Len(a) = i - 1
      /\ \A j \in 1..i - 1 : a[j] = es[j]
  <2>1. \A j \in 1..i - 1 : es[j] \in Entry
    BY <1>1
  <2>2. /\ SubSeq(es, 1, i - 1) \in Seq(Entry)
        /\ Len(SubSeq(es, 1, i - 1)) = IF 1 <= i - 1 THEN (i - 1) - 1 + 1 ELSE 0
        /\ \A j \in 1..(i - 1) - 1 + 1 : SubSeq(es, 1, i - 1)[j] = es[1 + j - 1]
    BY <1>1, <2>1, SubSeqProperties
  <2>. QED
    BY <1>1, <2>2
<1>3. /\ b \in Seq(Entry) /\ Len(b) = n - i
      /\ \A j \in 1..n - i : b[j] = es[i + j]
  <2>1. \A j \in i + 1..n : es[j] \in Entry
    BY <1>1
  <2>2. /\ SubSeq(es, i + 1, n) \in Seq(Entry)
        /\ Len(SubSeq(es, i + 1, n)) = IF i + 1 <= n THEN n - (i + 1) + 1 ELSE 0
        /\ \A j \in 1..n - (i + 1) + 1 : SubSeq(es, i + 1, n)[j] = es[(i + 1) + j - 1]
    BY <1>1, <2>1, SubSeqProperties
  <2>. QED
    BY <1>1, <2>2
<1>4. RemoveAt(es, i) = a \o b
  BY DEF RemoveAt, n
<1> HIDE DEF a, b
<1>5. /\ a \o b \in Seq(Entry) /\ Len(a \o b) = Len(a) + Len(b)
      /\ \A j \in 1..Len(a) + Len(b) : (a \o b)[j] = IF j <= Len(a) THEN a[j] ELSE b[j - Len(a)]
  BY <1>2, <1>3, ConcatProperties
<1>6. Len(a) + Len(b) = n - 1
  BY <1>1, <1>2, <1>3
<1>7. ASSUME NEW j \in 1..n - 1
      PROVE  (a \o b)[j] = es[IF j < i THEN j ELSE j + 1]
  <2>1. CASE j < i
    BY <1>1, <1>2, <1>5, <1>6, <2>1
  <2>2. CASE ~(j < i)
    <3>1. ~(j <= Len(a)) /\ j - Len(a) \in 1..n - i /\ i + (j - Len(a)) = j + 1
      BY <1>1, <1>2, <2>2
    <3>. QED
      BY <1>3, <1>5, <1>6, <2>2, <3>1
  <2>. QED
    BY <2>1, <2>2
<1>8. DOMAIN (a \o b) = 1..n - 1
  BY <1>5, <1>6, LenProperties
<1>. QED
  BY <1>4, <1>5, <1>6, <1>7, <1>8 DEF n

LEMMA removeFits ==
  ASSUME ServerInv, PanelInv, NEW i \in DOMAIN entries, removeEntry(i), UNCHANGED serverVars
  PROVE  ServerInv' /\ PanelInv'
<1> DEFINE n == Len(entries)
           Old(j) == IF j < i THEN j ELSE j + 1
           Moved(r) == [r EXCEPT !.index = IF @ > i THEN @ - 1 ELSE @]
<1>1. /\ call = NoCall /\ entries' = RemoveAt(entries, i) /\ results' = Shifted(i)
      /\ pending' = {} /\ UNCHANGED <<call, used, mounted>>
  BY DEF removeEntry, Editable, Ready, Busy, NothingAsked
<1>2. CallInv' /\ ServerInv' /\ UNCHANGED created
  BY <1>1, IdleCall
<1>3. entries \in Seq(Entry) /\ n \in Nat /\ DOMAIN entries = 1..n /\ n <= MaxEntries
  BY LenProperties DEF PanelInv, DraftType
<1>4. /\ entries' \in Seq(Entry) /\ Len(entries') = n - 1 /\ DOMAIN entries' = 1..n - 1
      /\ \A j \in 1..n - 1 : entries'[j] = entries[Old(j)]
  BY <1>1, <1>3, RemovedEntry
<1> HIDE DEF n
<1>5. results' = {Moved(r) : r \in {x \in results : x.index # i}}
  BY <1>1 DEF Shifted
<1>6. ASSUME NEW r \in results, r.index # i
      PROVE  LET q == Moved(r) IN
             /\ q \in Rows /\ q.index \in 1..n - 1 /\ Old(q.index) = r.index
             /\ q.entry = r.entry /\ q.content = r.content /\ q.key = r.key /\ q.reply = r.reply
  <2>1. r \in Rows /\ r.index \in 1..n /\ i \in 1..n
    BY <1>3 DEF PanelInv, DraftType, ResultsFit, ResultsFollowTheirRows
  <2>2. PICK k : k = IF r.index > i THEN r.index - 1 ELSE r.index
    OBVIOUS
  <2>3. k \in 1..n - 1 /\ Old(k) = r.index
    BY <1>3, <1>6, <2>1, <2>2
  <2>4. k \in 1..MaxEntries
    BY <1>3, <2>3, PanelAssumption
  <2>5. Moved(r) = [r EXCEPT !.index = k]
    BY <2>2
  <2>6. /\ [r EXCEPT !.index = k] \in Rows /\ [r EXCEPT !.index = k].index = k
        /\ [r EXCEPT !.index = k].entry = r.entry /\ [r EXCEPT !.index = k].content = r.content
        /\ [r EXCEPT !.index = k].key = r.key /\ [r EXCEPT !.index = k].reply = r.reply
    BY <2>1, <2>4 DEF Rows
  <2>. QED
    BY <2>3, <2>5, <2>6
<1> HIDE DEF Moved
<1>7. DraftType'
  <2>1. ASSUME NEW q \in results'
        PROVE  q \in Rows
    <3>1. PICK r \in results : r.index # i /\ q = Moved(r)
      BY <1>5
    <3>. QED
      BY <1>6, <3>1
  <2>2. entries' \in Seq(Entry) /\ Len(entries') <= MaxEntries
    BY <1>3, <1>4, PanelAssumption
  <2>3. used' \subseteq Keys /\ mounted' \in BOOLEAN /\ pending' = {}
    BY <1>1 DEF PanelInv, DraftType
  <2>. QED
    BY <2>1, <2>2, <2>3 DEF DraftType
<1>8. ASSUME NEW q \in results'
      PROVE  /\ q.index \in DOMAIN entries' /\ entries'[q.index].key = q.entry
             /\ (~Failed(q) => entries'[q.index].content = q.content)
             /\ (q.reply = "created" => q.key \in created')
  <2>1. PICK r \in results : r.index # i /\ q = Moved(r)
    BY <1>5
  <2>2. /\ q.index \in 1..n - 1 /\ Old(q.index) = r.index
        /\ q.entry = r.entry /\ q.content = r.content /\ q.key = r.key /\ q.reply = r.reply
    BY <1>6, <2>1
  <2>3. entries'[q.index] = entries[r.index]
    BY <1>4, <2>2
  <2>4. /\ entries[r.index].key = r.entry /\ (~Failed(r) => entries[r.index].content = r.content)
        /\ (r.reply = "created" => r.key \in created)
    BY DEF PanelInv, ResultsFit, ResultsFollowTheirRows
  <2>. QED
    BY <1>2, <1>4, <2>2, <2>3, <2>4 DEF Failed
<1>9. ASSUME results' # {}, NEW j \in DOMAIN entries'
      PROVE  RowAt(j)' # {}
  <2>1. results # {}
    BY <1>5, <1>9
  <2>2. Old(j) \in DOMAIN entries /\ Old(j) # i /\ j \in 1..n - 1 /\ i \in 1..n
    BY <1>3, <1>4, <1>9
  <2>3. PICK r \in results : r.index = Old(j)
    BY <2>1, <2>2 DEF PanelInv, ResultsFit, RowAt
  <2>4. Moved(r) \in results' /\ Old(Moved(r).index) = Old(j) /\ Moved(r).index \in 1..n - 1
    BY <1>5, <1>6, <2>2, <2>3
  <2>5. Moved(r).index = j
    BY <1>3, <2>2, <2>4
  <2>. QED
    BY <2>4, <2>5 DEF RowAt
<1>10. ResultsFit'
  BY <1>8, <1>9 DEF ResultsFit, ResultsFollowTheirRows, Failed
<1>. QED
  BY <1>2, <1>7, <1>10 DEF PanelInv

(* Questions about new keys, and calls that are given up.                  *)
LEMMA askFits ==
  ASSUME ServerInv, PanelInv, NEW S \in SUBSET DOMAIN entries,
         setNewKeyPending(S) \/ cancelNewKey, UNCHANGED serverVars
  PROVE  ServerInv' /\ PanelInv'
<1>1. /\ call = NoCall /\ pending' \subseteq DOMAIN entries
      /\ UNCHANGED <<entries, results, call, used, mounted>>
  BY DEF setNewKeyPending, cancelNewKey, Ready, Busy
<1>2. CallInv' /\ ServerInv' /\ UNCHANGED created
  BY <1>1, IdleCall
<1>. QED
  BY <1>1, <1>2 DEF PanelInv, DraftType, ResultsFit, ResultsFollowTheirRows, RowAt

LEMMA loseFits ==
  ASSUME ServerInv, PanelInv, Lose \/ Unmount
  PROVE  ServerInv' /\ PanelInv'
<1>1. call' = NoCall /\ UNCHANGED <<serverVars, used>>
  BY DEF Lose, Unmount
<1>2. CallInv' /\ ServerInv' /\ UNCHANGED created
  BY <1>1 DEF CallInv, serverVars, ServerInv, ServerType, ServerFits
<1>3. CASE Lose
  BY <1>2, <1>3 DEF Lose, PanelInv, DraftType, ResultsFit, ResultsFollowTheirRows, RowAt
<1>4. CASE Unmount
  <2>1. /\ entries' = <<>> /\ results' = {} /\ pending' = {} /\ mounted' = FALSE
        /\ UNCHANGED used
    BY <1>4 DEF Unmount
  <2>2. <<>> \in Seq(Entry) /\ Len(<<>>) = 0
    BY EmptySeq
  <2>3. DraftType'
    <3>1. entries' \in Seq(Entry) /\ Len(entries') = 0
      BY <2>1, <2>2
    <3>2. used' \subseteq Keys
      BY <2>1 DEF PanelInv, DraftType
    <3>3. Len(entries') <= MaxEntries
      BY <3>1, PanelAssumption
    <3>4. results' \subseteq Rows /\ pending' \subseteq DOMAIN entries' /\ mounted' \in BOOLEAN
      BY <2>1
    <3>. QED
      BY <3>1, <3>2, <3>3, <3>4 DEF DraftType
  <2>4. ResultsFit'
    BY <2>1 DEF ResultsFit, ResultsFollowTheirRows
  <2>. QED
    BY <1>2, <2>3, <2>4 DEF PanelInv
<1>. QED
  BY <1>3, <1>4

(* Every answer belongs to the entry its item was made from, which nobody  *)
(* could edit meanwhile.                                                   *)
LEMMA DeliverFits ==
  ASSUME ServerInv, PanelInv, Deliver
  PROVE  ServerInv' /\ PanelInv'
<1>1. /\ call # NoCall /\ call.rows # <<>> /\ call' = NoCall
      /\ \A j \in DOMAIN call.rows : stage[call.rows[j]] = "done"
      /\ results' = IF call.kind = "submit" THEN Answers ELSE mergeResults
      /\ UNCHANGED <<serverVars, entries, pending, used, mounted>>
  BY DEF Deliver, Busy
<1>2. KindFits(call.kind, call.items) /\ ItemsFit(call.items) /\ RowsFit(call.items, call.rows)
  BY <1>1 DEF PanelInv, CallInv
<1>3. ServerInv' /\ CallInv' /\ UNCHANGED created
  BY <1>1 DEF CallInv, serverVars, ServerInv, ServerType, ServerFits
<1>4. ASSUME NEW j \in DOMAIN call.items
      PROVE  LET a == Answered(j) IN
             /\ a \in Rows /\ a.index = call.items[j].index
             /\ a.index \in DOMAIN entries /\ entries[a.index].key = a.entry
             /\ entries[a.index].content = a.content
             /\ a.reply = "created" => a.key \in created
  <2>1. /\ call.items[j] \in Items /\ call.items[j].index \in DOMAIN entries
        /\ entries[call.items[j].index].key = call.items[j].entry
        /\ entries[call.items[j].index].content = call.items[j].content
    BY <1>2, LenProperties, ElementOfSeq DEF ItemsFit
  <2>2. /\ call.rows \in [DOMAIN call.items -> Callers]
        /\ asked[call.rows[j]] = call.items[j].key
    BY <1>1, <1>2 DEF RowsFit
  <2>3. /\ call.rows[j] \in Callers /\ stage[call.rows[j]] = "done"
    BY <1>1, <2>2
  <2>4. /\ reply[call.rows[j]] \in Replies
        /\ (reply[call.rows[j]] = "created" => call.items[j].key \in created)
    BY <2>2, <2>3 DEF ServerInv, ServerType, ServerFits
  <2>. QED
    BY <2>1, <2>4 DEF Answered, Rows, Items
<1>5. ASSUME NEW r \in results'
      PROVE  /\ r \in Rows /\ r.index \in DOMAIN entries /\ entries[r.index].key = r.entry
             /\ (~Failed(r) => entries[r.index].content = r.content)
             /\ (r.reply = "created" => r.key \in created)
  <2>1. CASE r \in results
    BY <2>1 DEF PanelInv, DraftType, ResultsFit, ResultsFollowTheirRows
  <2>2. CASE r \in Answers
    BY <1>4, <2>2 DEF Answers
  <2>. QED
    BY <1>1, <2>1, <2>2 DEF mergeResults
<1>6. ASSUME results' # {}, NEW i \in DOMAIN entries
      PROVE  \E r \in results' : r.index = i
  <2>1. CASE call.kind = "submit"
    <3>1. PICK j \in DOMAIN call.items : call.items[j].index = i
      BY <1>2, <2>1 DEF KindFits
    <3>2. Answered(j) \in Answers /\ Answered(j).index = i
      BY <1>4, <3>1 DEF Answers
    <3>. QED
      BY <1>1, <2>1, <3>2
  <2>2. CASE call.kind # "submit"
    <3>1. results' = mergeResults
      BY <1>1, <2>2
    <3>2. results # {}
      BY <1>6, <3>1 DEF mergeResults, RowAt
    <3>3. PICK r \in results : r.index = i
      BY <3>2 DEF PanelInv, ResultsFit, RowAt
    <3>4. CASE \E a \in Answers : a.index = i
      <4>1. PICK a \in Answers : a.index = i
        BY <3>4
      <4>2. RowAt(a.index) # {}
        BY <3>3, <4>1 DEF RowAt
      <4>3. a \in mergeResults
        BY <4>1, <4>2 DEF mergeResults
      <4>. QED
        BY <3>1, <4>1, <4>3
    <3>5. CASE \A a \in Answers : a.index # i
      <4>1. r \in mergeResults
        BY <3>3, <3>5 DEF mergeResults
      <4>. QED
        BY <3>1, <3>3, <4>1
    <3>. QED
      BY <3>4, <3>5
  <2>. QED
    BY <2>1, <2>2
<1>7. DraftType'
  BY <1>1, <1>5 DEF PanelInv, DraftType
<1>8. ResultsFit'
  BY <1>1, <1>3, <1>5, <1>6 DEF ResultsFit, ResultsFollowTheirRows, RowAt, Failed
<1>. QED
  BY <1>3, <1>7, <1>8 DEF PanelInv

-----------------------------------------------------------------------------
LEMMA InitFits ==
  ASSUME PanelInit
  PROVE  ServerInv /\ PanelInv
<1>1. ServerType
  <2>1. Free \in Slot /\ Nothing \in Told
    BY DEF Free, Nothing, Slot, Told
  <2>2. slot \in [Keys -> Slot] /\ told \in [Callers -> Told]
    BY <2>1 DEF PanelInit, Init
  <2>. QED
    BY <2>2 DEF PanelInit, ServerType
<1>2. ServerFits
  <2>1. Free.kind = "free"
    BY DEF Free
  <2>. QED
    BY <2>1 DEF PanelInit, Init, ServerFits
<1>3. PICK n \in 1..MaxEntries : entries \in [1..n -> Entry]
  BY DEF PanelInit, Entry
<1>4. entries \in Seq(Entry) /\ Len(entries) = n /\ DOMAIN entries = 1..n
  BY <1>3
<1>5. used \subseteq Keys
  <2>1. \A i \in DOMAIN entries : entries[i].key \in Keys
    BY <1>3 DEF Entry
  <2>. QED
    BY <2>1 DEF PanelInit
<1>6. DraftType
  BY <1>4, <1>5, PanelAssumption DEF PanelInit, DraftType
<1>7. ResultsFit /\ CallInv
  BY DEF PanelInit, ResultsFit, ResultsFollowTheirRows, CallInv
<1>. QED
  BY <1>1, <1>2, <1>6, <1>7 DEF ServerInv, PanelInv

LEMMA PanelFits ==
  ASSUME ServerInv, PanelInv, Panel
  PROVE  ServerInv' /\ PanelInv'
<1>1. ASSUME NEW i \in DOMAIN entries, NEW text \in Contents, UNCHANGED serverVars,
             updateEntry(i, text)
      PROVE  ServerInv' /\ PanelInv'
  BY <1>1, updateFits
<1>2. ASSUME NEW i \in DOMAIN entries, UNCHANGED serverVars, removeEntry(i)
      PROVE  ServerInv' /\ PanelInv'
  BY <1>2, removeFits
<1>3. ASSUME NEW k \in Keys, NEW text \in Contents, UNCHANGED serverVars,
             addEntry(k, text) \/ clearEntry(k, text)
      PROVE  ServerInv' /\ PanelInv'
  BY <1>3, addFits
<1>4. ASSUME NEW S \in SUBSET DOMAIN entries, UNCHANGED serverVars,
             setNewKeyPending(S) \/ cancelNewKey
      PROVE  ServerInv' /\ PanelInv'
  BY <1>4, askFits
<1>5. ASSUME NEW S \in SUBSET DOMAIN entries, retryWithSameKey(S)
      PROVE  ServerInv' /\ PanelInv'
  BY <1>5, retryFits
<1>6. {} \in SUBSET DOMAIN entries
  OBVIOUS
<1>. QED
  BY <1>1, <1>2, <1>3, <1>4, <1>5, <1>6, submitFits, resubmitFits, DeliverFits, loseFits, Zenon
  DEF Panel

(* What the server does leaves the panel alone, and takes no key from a    *)
(* row that has one.                                                       *)
LEMMA ServerSteps ==
  ASSUME ServerInv, PanelInv, NEW c \in Callers, Serve(c), UNCHANGED panelVars
  PROVE  ServerInv' /\ PanelInv'
<1>1. /\ ServerInv' /\ created \subseteq created' /\ UNCHANGED asked
      /\ \A d \in Callers : stage[d] # "idle" => stage'[d] # "idle"
  BY ServeFits
<1>2. UNCHANGED <<entries, results, pending, call, used, mounted>>
  BY DEF panelVars
<1>3. DraftType' /\ ResultsFit'
  BY <1>1, <1>2 DEF PanelInv, DraftType, ResultsFit, ResultsFollowTheirRows, RowAt
<1>4. CASE call = NoCall
  BY <1>1, <1>2, <1>3, <1>4 DEF PanelInv, CallInv
<1>5. CASE call # NoCall
  <2>1. KindFits(call.kind, call.items) /\ ItemsFit(call.items) /\ RowsFit(call.items, call.rows)
    BY <1>5 DEF PanelInv, CallInv
  <2>2. KindFits(call.kind, call.items)' /\ ItemsFit(call.items)'
    BY <1>2, <2>1 DEF KindFits, ItemsFit
  <2>3. RowsFit(call.items, call.rows)'
    BY <1>1, <1>2, <2>1 DEF RowsFit
  <2>. QED
    BY <1>1, <1>3, <2>2, <2>3 DEF PanelInv, CallInv
<1>. QED
  BY <1>4, <1>5

LEMMA PanelInvariant == PanelSpec => [](ServerInv /\ PanelInv)
<1>1. PanelInit => ServerInv /\ PanelInv
  BY InitFits
<1>2. ServerInv /\ PanelInv /\ [PanelNext]_vars => ServerInv' /\ PanelInv'
  <2> SUFFICES ASSUME ServerInv, PanelInv, [PanelNext]_vars
               PROVE  ServerInv' /\ PanelInv'
    OBVIOUS
  <2>1. CASE UNCHANGED vars
    <3>1. UNCHANGED <<slot, told, stage, asked, content, outcome, reply, created>>
          /\ UNCHANGED <<entries, results, pending, call, used, mounted>>
      BY <2>1 DEF vars, panelVars, serverVars
    <3>2. ServerInv'
      BY <3>1 DEF ServerInv, ServerType, ServerFits
    <3>3. DraftType' /\ ResultsFit'
      BY <3>1 DEF PanelInv, DraftType, ResultsFit, ResultsFollowTheirRows, RowAt
    <3>4. CallInv'
      BY <3>1 DEF PanelInv, CallInv, KindFits, ItemsFit, RowsFit
    <3>. QED
      BY <3>2, <3>3, <3>4 DEF PanelInv
  <2>. QED
    BY <2>1, PanelFits, ServerSteps DEF PanelNext
<1>. QED
  BY <1>1, <1>2, PTL DEF PanelSpec

(* Every variable of the panel and of the server's rows keeps its type.    *)
THEOREM PanelTypeCorrect == PanelSpec => []PanelTypeOK
<1>1. ASSUME ServerInv, PanelInv
      PROVE  PanelTypeOK
  <2>1. \/ call = NoCall
        \/ /\ call.kind \in {"submit", "retry", "resubmit"}
           /\ call.items \in Seq(Items)
           /\ call.rows = <<>> \/ call.rows \in [DOMAIN call.items -> Callers]
    BY <1>1 DEF PanelInv, CallInv, KindFits, ItemsFit, RowsFit
  <2>. QED
    BY <1>1, <2>1 DEF ServerInv, ServerType, PanelInv, DraftType, Entry, PanelTypeOK
<1>. QED
  BY <1>1, PanelInvariant, PTL

(* ReviewPanel.tsx: a result is shown beside the entry it answers, however *)
(* many rows were removed, retried and merged since; and a row shown as    *)
(* created still has the contents that were sent.                          *)
THEOREM ResultsStayWithTheirRows == PanelSpec => []ResultsFollowTheirRows
<1>1. PanelInv => ResultsFollowTheirRows
  BY DEF PanelInv, ResultsFit
<1>. QED
  BY <1>1, PanelInvariant, PTL

(* "Submission Confirmed": every entry on the panel has its result, and    *)
(* Oracle created a timecard for each under the key that was sent.         *)
THEOREM ConfirmedIsCreated == PanelSpec => []ConfirmedMeansCreated
<1>1. ASSUME PanelInv, Confirmed, NEW i \in DOMAIN entries
      PROVE  \E r \in RowAt(i) : r.entry = entries[i].key /\ r.key \in created
  <2>1. PICK r \in results : r.index = i
    BY <1>1 DEF Confirmed, PanelInv, ResultsFit, RowAt
  <2>2. r.reply = "created" /\ entries[i].key = r.entry /\ r.key \in created
    BY <1>1, <2>1 DEF Confirmed, Failed, PanelInv, ResultsFit, ResultsFollowTheirRows
  <2>. QED
    BY <2>1, <2>2 DEF RowAt
<1>2. PanelInv => ConfirmedMeansCreated
  BY <1>1 DEF ConfirmedMeansCreated
<1>. QED
  BY <1>2, PanelInvariant, PTL

-----------------------------------------------------------------------------
(* A question is open only about rows shown as stuck, and only while the   *)
(* panel awaits nothing.                                                   *)
IsStuck(i) == \E r \in results : r.index = i /\ Failed(r) /\ ~IsRetryable(r)

PendingInv ==
  /\ call # NoCall => pending = {}
  /\ \A i \in pending : IsStuck(i)

LEMMA NextPending ==
  ASSUME PendingInv, [PanelNext]_vars
  PROVE  PendingInv'
<1>1. CASE pending' = {}
  BY <1>1 DEF PendingInv
<1>2. CASE UNCHANGED <<results, pending, call>>
  BY <1>2 DEF PendingInv, IsStuck, Failed, IsRetryable
<1>3. CASE Lose
  <2>1. call' = NoCall /\ UNCHANGED <<results, pending>>
    BY <1>3 DEF Lose
  <2>. QED
    BY <2>1 DEF PendingInv, IsStuck, Failed, IsRetryable
<1>4. CASE Deliver
  <2>1. pending' = {}
    BY <1>4 DEF Deliver, Busy, PendingInv
  <2>. QED
    BY <1>1, <2>1
<1>5. ASSUME NEW S \in SUBSET DOMAIN entries, setNewKeyPending(S)
      PROVE  PendingInv'
  <2>1. /\ call = NoCall /\ pending' = S /\ UNCHANGED <<results, call>>
        /\ \A i \in S : i \in StuckIndices
    BY <1>5 DEF setNewKeyPending, Ready, Busy
  <2>2. \A i \in S : IsStuck(i)
    BY <2>1 DEF StuckIndices, IsStuck
  <2>. QED
    BY <2>1, <2>2 DEF PendingInv, IsStuck, Failed, IsRetryable
<1>6. ASSUME Panel, ~Lose, ~Deliver, ~ \E S \in SUBSET DOMAIN entries : setNewKeyPending(S)
      PROVE  pending' = {} \/ UNCHANGED <<results, pending, call>>
  BY <1>6 DEF Panel, updateEntry, removeEntry, addEntry, clearEntry, NothingAsked, cancelNewKey,
              submit, retryWithSameKey, resubmitWithNewKey, Unmount
<1>7. ASSUME UNCHANGED panelVars
      PROVE  UNCHANGED <<results, pending, call>>
  BY <1>7 DEF panelVars
<1>8. UNCHANGED vars => UNCHANGED panelVars
  BY DEF vars
<1>9. CASE Panel
  BY <1>1, <1>2, <1>3, <1>4, <1>5, <1>6, <1>9
<1>. QED
  BY <1>2, <1>7, <1>8, <1>9 DEF PanelNext

(* A request with new keys is for rows about which a question was open.    *)
LEMMA ResubmitsAreForStuckRows ==
  ASSUME PanelInv, PendingInv, resubmitWithNewKey, NEW j \in DOMAIN call'.items
  PROVE  \E r \in results : Failed(r) /\ ~IsRetryable(r) /\ r.entry = call'.items[j].entry
<1>1. PICK targets \in Targets(pending) : \E ks \in [DOMAIN targets -> Keys \ used] :
        Await("resubmit", [i \in DOMAIN targets |-> ItemFor(targets[i], ks[i])])
  BY DEF resubmitWithNewKey
<1>2. PICK ks \in [DOMAIN targets -> Keys \ used] :
        Await("resubmit", [i \in DOMAIN targets |-> ItemFor(targets[i], ks[i])])
  BY <1>1
<1>3. call'.items = [i \in DOMAIN targets |-> ItemFor(targets[i], ks[i])]
  BY <1>2 DEF Await
<1>4. j \in DOMAIN targets /\ call'.items[j].entry = entries[targets[j]].key
  BY <1>3 DEF ItemFor
<1>5. targets[j] \in pending
  BY <1>4 DEF Targets
<1>6. PICK r \in results : r.index = targets[j] /\ Failed(r) /\ ~IsRetryable(r)
  BY <1>5 DEF PendingInv, IsStuck
<1>7. entries[r.index].key = r.entry
  BY DEF PanelInv, ResultsFit, ResultsFollowTheirRows
<1>. QED
  BY <1>4, <1>6, <1>7

(* A new key, which may write a row for the second time, is only issued    *)
(* for an entry whose result was shown as one the old key cannot change.   *)
THEOREM NewKeysAreForStuckRows == PanelSpec => NewKeyOnlyForStuckRows
<1>1. PanelInit => PendingInv
  BY DEF PanelInit, PendingInv
<1>2. PendingInv /\ [PanelNext]_vars => PendingInv'
  BY NextPending
<1>3. PanelInv /\ PendingInv /\ [PanelNext]_vars =>
        [call' # call /\ call' # NoCall /\ call'.kind = "resubmit" =>
           \A j \in DOMAIN call'.items :
             \E r \in results : /\ Failed(r) /\ ~IsRetryable(r)
                                /\ r.entry = call'.items[j].entry]_vars
  <2> SUFFICES ASSUME PanelInv, PendingInv, PanelNext, call' # call, call' # NoCall,
                      call'.kind = "resubmit", NEW j \in DOMAIN call'.items
               PROVE  \E r \in results :
                        Failed(r) /\ ~IsRetryable(r) /\ r.entry = call'.items[j].entry
    OBVIOUS
  <2>1. Panel
    BY DEF PanelNext, panelVars
  <2>2. ASSUME NEW kind, NEW items, Await(kind, items)
        PROVE  call'.kind = kind
    BY <2>2 DEF Await
  <2>3. ~submit /\ \A S \in SUBSET DOMAIN entries : ~retryWithSameKey(S)
    BY <2>2 DEF submit, retryWithSameKey
  <2>4. call' # call /\ call' # NoCall =>
          submit \/ (\E S \in SUBSET DOMAIN entries : retryWithSameKey(S)) \/ resubmitWithNewKey
    BY <2>1 DEF Panel, updateEntry, removeEntry, addEntry, clearEntry, setNewKeyPending,
                cancelNewKey, Deliver, Lose, Unmount
  <2>5. resubmitWithNewKey
    BY <2>3, <2>4
  <2>. QED
    BY <2>5, ResubmitsAreForStuckRows
<1>. QED
  BY <1>1, <1>2, <1>3, PanelInvariant, PTL DEF PanelSpec, NewKeyOnlyForStuckRows

-----------------------------------------------------------------------------
(* What WriteOnce promises whoever implements it.                          *)

Own(c) == [kind |-> "own", by |-> c]

(* A written slot carries what its writer was told.                        *)
WritersAreTold ==
  \A k \in Keys : slot[k].kind = "written" =>
    slot[k].by \in Callers /\ told[slot[k].by] = Own(slot[k].by)

(* Whoever is told an echo is told the result of another caller, and that  *)
(* caller was told the same.                                               *)
EchoIsOfAnAnswer ==
  \A c \in Callers : told[c].kind = "echo" =>
    told[c].by \in Callers \ {c} /\ told[told[c].by] = Own(told[c].by)

OnceInv ==
  /\ slot \in [Keys -> Slot] /\ told \in [Callers -> Told]
  /\ WritersAreTold /\ EchoIsOfAnAnswer

LEMMA SlotKinds ==
  ASSUME NEW c \in Callers
  PROVE  /\ {Free, HeldBy(c), WroteBy(c)} \subseteq Slot
         /\ Free.kind = "free" /\ HeldBy(c).kind = "held"
         /\ WroteBy(c).kind = "written" /\ WroteBy(c).by = c
         /\ Nothing \in Told /\ Nothing.kind = "nothing"
         /\ Own(c) \in Told /\ Own(c).kind = "own"
BY DEF Free, HeldBy, WroteBy, Slot, Nothing, Told, Own

(* A slot that is forgotten was free or is.                                *)
LEMMA ForgottenSlots ==
  ASSUME slot \in [Keys -> Slot], NEW S \in SUBSET Keys
  PROVE  /\ Forgotten(S) \in [Keys -> Slot]
         /\ \A k \in Keys : Forgotten(S)[k].kind = "written" => Forgotten(S)[k] = slot[k]
BY DEF Forgotten, Free, Slot

LEMMA GrantKeepsOnce ==
  ASSUME OnceInv, NEW c \in Callers, NEW k \in Keys, NEW S \in SUBSET Keys, Grant(c, k, S)
  PROVE  OnceInv'
<1>1. /\ slot' \in [Keys -> Slot] /\ UNCHANGED told
      /\ \A i \in Keys : slot'[i].kind = "written" => slot'[i] = slot[i]
  BY ForgottenSlots, SlotKinds DEF OnceInv, Grant
<1>. QED
  BY <1>1 DEF OnceInv, WritersAreTold, EchoIsOfAnAnswer

LEMMA TellKeepsOnce ==
  ASSUME OnceInv, NEW c \in Callers, NEW kind \in {"own", "echo", "refused"},
         NEW by \in Callers \cup {NoCaller}, Tell(c, kind, by), slot' \in [Keys -> Slot],
         \A k \in Keys : slot'[k].kind = "written" =>
            slot'[k] = slot[k] \/ (slot'[k].by = c /\ kind = "own" /\ by = c),
         kind = "echo" => by \in Callers /\ told[by] = Own(by)
  PROVE  OnceInv'
<1>1. /\ told[c].kind = "nothing" /\ told' = [told EXCEPT ![c] = [kind |-> kind, by |-> by]]
      /\ \A d \in Callers : Own(d).kind = "own"
  BY SlotKinds DEF Tell
<1>2. told' \in [Callers -> Told] /\ told'[c] = [kind |-> kind, by |-> by]
  BY <1>1 DEF OnceInv, Told
<1>3. \A d \in Callers : told[d] = Own(d) => d # c /\ told'[d] = Own(d)
  BY <1>1 DEF OnceInv
<1>4. WritersAreTold'
  <2> SUFFICES ASSUME NEW k \in Keys, slot'[k].kind = "written"
               PROVE  slot'[k].by \in Callers /\ told'[slot'[k].by] = Own(slot'[k].by)
    BY DEF WritersAreTold
  <2>1. CASE slot'[k] = slot[k]
    BY <1>3, <2>1 DEF OnceInv, WritersAreTold
  <2>2. CASE slot'[k].by = c /\ kind = "own" /\ by = c
    BY <1>2, <2>2 DEF Own
  <2>. QED
    BY <2>1, <2>2
<1>5. EchoIsOfAnAnswer'
  <2> SUFFICES ASSUME NEW d \in Callers, told'[d].kind = "echo"
               PROVE  told'[d].by \in Callers \ {d} /\ told'[told'[d].by] = Own(told'[d].by)
    BY DEF EchoIsOfAnAnswer
  <2>1. CASE d = c
    BY <1>2, <1>3, <2>1
  <2>2. CASE d # c
    BY <1>1, <1>3, <2>2 DEF OnceInv, EchoIsOfAnAnswer
  <2>. QED
    BY <2>1, <2>2
<1>. QED
  BY <1>2, <1>4, <1>5 DEF OnceInv

LEMMA NextOnce ==
  ASSUME OnceInv, [Next]_<<slot, told>>
  PROVE  OnceInv'
<1>1. ASSUME NEW c \in Callers, NEW k \in Keys, Write(c, k) \/ Release(c, k)
      PROVE  OnceInv'
  <2>1. /\ slot' \in [Keys -> Slot] /\ Tell(c, "own", c)
        /\ \A i \in Keys : slot'[i].kind = "written" => slot'[i] = slot[i] \/ slot'[i].by = c
    BY <1>1, SlotKinds DEF Write, Release, OnceInv
  <2>. QED
    BY <2>1, TellKeepsOnce
<1>2. ASSUME NEW c \in Callers, NEW k \in Keys, NEW S \in SUBSET Keys, Echo(c, k, S)
      PROVE  OnceInv'
  <2>1. slot[k].kind = "written"
    BY <1>2, ForgottenSlots DEF Echo, OnceInv
  <2>2. slot[k].by \in Callers /\ told[slot[k].by] = Own(slot[k].by)
    BY <2>1 DEF OnceInv, WritersAreTold
  <2>3. /\ slot' \in [Keys -> Slot] /\ Tell(c, "echo", slot[k].by)
        /\ \A i \in Keys : slot'[i].kind = "written" => slot'[i] = slot[i]
    BY <1>2, ForgottenSlots DEF Echo, OnceInv
  <2>. QED
    BY <2>2, <2>3, TellKeepsOnce
<1>3. ASSUME NEW c \in Callers, NEW S \in SUBSET Keys, Refuse(c, S)
      PROVE  OnceInv'
  <2>1. /\ slot' \in [Keys -> Slot] /\ Tell(c, "refused", NoCaller)
        /\ \A i \in Keys : slot'[i].kind = "written" => slot'[i] = slot[i]
    BY <1>3, ForgottenSlots DEF Refuse, OnceInv
  <2>. QED
    BY <2>1, TellKeepsOnce
<1>4. ASSUME NEW c \in Callers, Bypass(c)
      PROVE  OnceInv'
  <2>1. slot' \in [Keys -> Slot] /\ slot' = slot /\ Tell(c, "own", c)
    BY <1>4 DEF Bypass, OnceInv
  <2>. QED
    BY <2>1, TellKeepsOnce
<1>5. ASSUME NEW S \in SUBSET Keys, Forget(S)
      PROVE  OnceInv'
  <2>1. /\ slot' \in [Keys -> Slot] /\ UNCHANGED told
        /\ \A i \in Keys : slot'[i].kind = "written" => slot'[i] = slot[i]
    BY <1>5, ForgottenSlots DEF Forget, OnceInv
  <2>. QED
    BY <2>1 DEF OnceInv, WritersAreTold, EchoIsOfAnAnswer
<1>6. CASE StartOver
  BY <1>6 DEF StartOver, OnceInv, WritersAreTold, EchoIsOfAnAnswer, Free, Nothing, Slot, Told
<1>7. CASE UNCHANGED <<slot, told>>
  BY <1>7 DEF OnceInv, WritersAreTold, EchoIsOfAnAnswer
<1>. QED
  BY <1>1, <1>2, <1>3, <1>4, <1>5, <1>6, <1>7, GrantKeepsOnce DEF Next

(* Whatever implements WriteOnce never replays a result that its own row   *)
(* was not given: the echo of a key is the answer of the row that wrote    *)
(* it, however slots were lost, granted again or forgotten.                *)
THEOREM EchoesAreOfAnswers == Spec => []EchoIsOfAnAnswer
<1>1. Init => OnceInv
  BY DEF Init, OnceInv, WritersAreTold, EchoIsOfAnAnswer, Free, Nothing, Slot, Told
<1>2. OnceInv /\ [Next]_<<slot, told>> => OnceInv'
  BY NextOnce
<1>3. OnceInv => EchoIsOfAnAnswer
  BY DEF OnceInv
<1>. QED
  BY <1>1, <1>2, <1>3, PTL DEF Spec

-----------------------------------------------------------------------------
(* The panel and its server keep to WriteOnce.                             *)
LEMMA PanelLeavesSlots ==
  ASSUME Panel
  PROVE  UNCHANGED <<slot, told>>
<1>1. ASSUME NEW kind, NEW items, Await(kind, items)
      PROVE  UNCHANGED <<slot, told>>
  BY <1>1 DEF Await, Arrive, serverVars
<1>2. ASSUME submit \/ resubmitWithNewKey \/ \E S \in SUBSET DOMAIN entries : retryWithSameKey(S)
      PROVE  UNCHANGED <<slot, told>>
  BY <1>1, <1>2 DEF submit, resubmitWithNewKey, retryWithSameKey
<1>3. ASSUME UNCHANGED serverVars
      PROVE  UNCHANGED <<slot, told>>
  BY <1>3 DEF serverVars
<1>. QED
  BY <1>2, <1>3 DEF Panel, Deliver, Lose, Unmount

(* The rows of the panel's requests, over any number of retries and new    *)
(* keys, take, write and read slots only as WriteOnce allows.              *)
THEOREM PanelKeepsToWriteOnce == PanelSpec => Spec
<1>1. PanelInit => Init
  BY DEF PanelInit
<1>2. ASSUME ServerInv, [PanelNext]_vars
      PROVE  [Next]_<<slot, told>>
  <2>1. ASSUME NEW c \in Callers, Serve(c)
        PROVE  Next \/ UNCHANGED <<slot, told>>
    <3>1. {} \in SUBSET Keys
      OBVIOUS
    <3>2. asked[c] \in Keys \/ stage[c] = "idle"
      BY <1>2 DEF ServerInv, ServerFits
    <3>3. ASSUME NEW S \in SUBSET {asked[c]}, Granted(c, S)
          PROVE  Next
      <4>1. asked[c] \in Keys /\ Grant(c, asked[c], S)
        BY <3>2, <3>3 DEF Granted, Proceed
      <4>. QED
        BY <4>1 DEF Next
    <3>4. ASSUME Replayed(c, {})
          PROVE  Next
      <4>1. asked[c] \in Keys /\ Echo(c, asked[c], {})
        BY <3>2, <3>4 DEF Replayed, Proceed
      <4>. QED
        BY <3>1, <4>1 DEF Next
    <3>5. ASSUME Refused(c) \/ Unsettled(c)
          PROVE  Next
      <4>1. Refuse(c, {})
        BY <3>5 DEF Refused, Unsettled
      <4>. QED
        BY <3>1, <4>1 DEF Next
    <3>6. ASSUME Settled(c)
          PROVE  Next
      <4>1. asked[c] \in Keys /\ (Write(c, asked[c]) \/ Release(c, asked[c]))
        BY <3>2, <3>6 DEF Settled, Proceed
      <4>. QED
        BY <4>1 DEF Next
    <3>. QED
      BY <2>1, <3>3, <3>4, <3>5, <3>6 DEF Serve, Posted, Die
  <2>2. UNCHANGED vars => UNCHANGED <<slot, told>>
    BY DEF vars, serverVars
  <2>. QED
    BY <1>2, <2>1, <2>2, PanelLeavesSlots DEF PanelNext
<1>. QED
  BY <1>1, <1>2, PanelInvariant, PTL DEF PanelSpec, Spec

-----------------------------------------------------------------------------
(* A retry sends the keys of the entries.                                  *)
RetryInv ==
  call # NoCall /\ call.kind = "retry" =>
    \A j \in DOMAIN call.items : call.items[j].key = call.items[j].entry

LEMMA NextRetry ==
  ASSUME RetryInv, [PanelNext]_vars
  PROVE  RetryInv'
<1>1. ASSUME UNCHANGED call \/ call' = NoCall
      PROVE  RetryInv'
  BY <1>1 DEF RetryInv
<1>2. ASSUME NEW kind, NEW items, Await(kind, items)
      PROVE  call'.kind = kind /\ call'.items = items
  BY <1>2 DEF Await
<1>3. ASSUME NEW S \in SUBSET DOMAIN entries, retryWithSameKey(S)
      PROVE  RetryInv'
  <2>1. PICK targets \in Targets(S) :
          Await("retry", [j \in DOMAIN targets |-> ItemFor(targets[j], entries[targets[j]].key)])
    BY <1>3 DEF retryWithSameKey
  <2>2. call'.items = [j \in DOMAIN targets |-> ItemFor(targets[j], entries[targets[j]].key)]
    BY <1>2, <2>1
  <2>. QED
    BY <2>2 DEF ItemFor, RetryInv
<1>4. ASSUME submit \/ resubmitWithNewKey
      PROVE  RetryInv'
  <2>1. \E items : Await("submit", items) \/ Await("resubmit", items)
    BY <1>4, Zenon DEF submit, resubmitWithNewKey
  <2>2. call'.kind # "retry"
    BY <1>2, <2>1
  <2>. QED
    BY <2>2 DEF RetryInv
<1>5. CASE Panel
  BY <1>1, <1>3, <1>4, <1>5
     DEF Panel, updateEntry, removeEntry, addEntry, clearEntry, setNewKeyPending, cancelNewKey,
         Deliver, Lose, Unmount
<1>. QED
  BY <1>1, <1>5 DEF PanelNext, vars, panelVars

RetryGoesBackOnlyFromNewKeys ==
  Busy /\ call.kind = "retry" =>
    \A j \in DOMAIN call.items : \A r \in RowAt(call.items[j].index) :
      r.key = call.items[j].key \/ r.key # r.entry

(* ReviewPanel.tsx: a retry is sent under another key than the one its     *)
(* failed result was obtained under only where that was a new key of a     *)
(* resubmission: RetryKeepsTheKey fails in no other way.                   *)
THEOREM RetriesGoBackOnlyFromNewKeys == PanelSpec => []RetryGoesBackOnlyFromNewKeys
<1>1. PanelInit => RetryInv
  BY DEF PanelInit, RetryInv
<1>2. RetryInv /\ [PanelNext]_vars => RetryInv'
  BY NextRetry
<1>3. ASSUME PanelInv, RetryInv
      PROVE  RetryGoesBackOnlyFromNewKeys
  <2> SUFFICES ASSUME call # NoCall, call.kind = "retry", NEW j \in DOMAIN call.items,
                      NEW r \in results, r.index = call.items[j].index
               PROVE  r.key = call.items[j].key \/ r.key # r.entry
    BY DEF RetryGoesBackOnlyFromNewKeys, Busy, RowAt
  <2>1. call.items[j].key = call.items[j].entry
    BY <1>3 DEF RetryInv
  <2>2. entries[call.items[j].index].key = call.items[j].entry
    BY <1>3 DEF PanelInv, CallInv, ItemsFit
  <2>3. entries[r.index].key = r.entry
    BY <1>3 DEF PanelInv, ResultsFit, ResultsFollowTheirRows
  <2>. QED
    BY <2>1, <2>2, <2>3
<1>. QED
  BY <1>1, <1>2, <1>3, PanelInvariant, PTL DEF PanelSpec
=============================================================================
