-------------------------- MODULE ChatStreamingProofs --------------------------
(***************************************************************************)
(* Proofs about ChatStreaming, for any number of requests, connections,    *)
(* chunks, failures and restarts.                                          *)
(*                                                                         *)
(* What the page has shown is told by a history of the journal: drafts[i]  *)
(* is the draft of a reader who has seen the first i events.  As long as   *)
(* no generator was overtaken, the events of the journal that matter are   *)
(* those of the one generator that holds the slot, the last draft is what  *)
(* it has in its hand, and the page, the response and the journal tell the *)
(* same story from different places of it.                                 *)
(***************************************************************************)
EXTENDS ChatStreaming, WellFoundedInduction, FiniteSetTheorems, TLAPS

-----------------------------------------------------------------------------
(* The invariant.                                                          *)

(* The first m chunks of an answer. *)
Part(n, k, m) == [i \in 1 .. m |-> Chunk(n, k, i)]
Parts == {Part(n, k, m) : n \in Requests, k \in 1 .. Attempts, m \in 0 .. Length}

Live == {"new", "lost", "calling", "open", "storing", "publishing"}

(* What a generator has in its hand is what its connection has sent; and   *)
(* the requests that the page has not made have no generator.              *)
GeneratorsAgree ==
  \A n \in Requests :
    /\ gen[n].parts = Part(n, gen[n].attempt, gen[n].sent)
    /\ gen[n].pc \in {"none", "new", "calling"} => gen[n].sent = 0
    /\ gen[n].pc = "announcing" => gen[n].last \in Endings
    /\ n > page.try \/ (n = page.try /\ page.pc = "posting") => gen[n] = NoGenerator

PageAgrees ==
  /\ page.pc = "posting" => page.cursor = 0 /\ page.draft = <<>> /\ page.terminal = "none"
  /\ page.cursor <= Len(journal) /\ \A i \in 1 .. Len(wire) : wire[i].seq <= Len(journal)
  /\ up => page.pc = "reading"
  /\ page.pc # "reading" => wire = <<>>
  /\ page.pc = "reading" => gen[page.try].pc # "none"
  /\ page.pc = "completed" => page.terminal = "completed"
(* A generator that works holds the slot, the row is its own, and no later *)
(* request has one.                                                        *)
SlotAgrees ==
  \A n \in Requests : gen[n].pc \in Live =>
    /\ slot = n
    /\ row.status = IF gen[n].pc = "publishing" THEN "completed" ELSE "started"
    /\ \A m \in Requests : n < m => gen[m].pc = "none"
(* One answer is stored, by the generator that has still to complete the   *)
(* row, or by one that has completed it.                                   *)
AnswerIsRecorded ==
  \/ stored = {}
  \/ /\ \E parts \in stored : stored = {parts}
     /\ row.status = "completed" \/ \E n \in Requests : gen[n].pc = "storing"

(* What an event does to the draft.                                        *)
Effect(draft, e) == IF e.type = "reset" THEN <<>>
                    ELSE IF e.type = "delta" THEN Append(draft, e.chunk) ELSE draft

(* drafts is the history of the journal, and all of it was true.           *)
Tells(drafts) ==
  /\ drafts \in [0 .. Len(journal) -> Parts] /\ drafts[0] = <<>>
  /\ \A i \in 1 .. Len(journal) : drafts[i] = Effect(drafts[i - 1], journal[i])
  /\ \A n \in Requests : gen[n].pc \in Live => drafts[Len(journal)] = gen[n].parts

(* The last event that the page has seen once it has read the response up  *)
(* to its i-th event.                                                      *)
Seen(i) == IF i = 0 THEN page.cursor ELSE wire[i].seq

(* The page shows the draft of the last event it has seen, and between     *)
(* that one and those on the response nothing is missing but ends of older *)
(* generators.                                                             *)
PageFollows(drafts) ==
  /\ page.draft = drafts[page.cursor]
  /\ page.pc = "reading" =>
       /\ \A i \in 1 .. Len(wire) :
            \/ /\ Seen(i - 1) < wire[i].seq
               /\ wire[i].event = journal[wire[i].seq]
               /\ drafts[wire[i].seq - 1] = drafts[Seen(i - 1)]
            \/ /\ Len(wire) = 1 /\ wire[i].seq = 0 /\ wire[i].event = Event("completed")
               /\ gen[page.try].pc = "done"
       /\ up /\ gen[page.try].pc # "done" =>
            drafts[Len(journal)] = drafts[Seen(Len(wire))]

(* A completed row has its answer, which is what the journal ends with;    *)
(* and who has been told of the completion has seen all that matters of    *)
(* the journal, or nothing.                                                *)
Final(drafts, i) == \A j \in i .. Len(journal) : drafts[j] = drafts[Len(journal)]
Kept(drafts) ==
  /\ row.status = "completed" => drafts[Len(journal)] \in stored
  /\ \A i \in 1 .. Len(journal) : journal[i].type = "completed" =>
       row.status = "completed" /\ Final(drafts, i)
  /\ \A i \in 1 .. Len(wire) : wire[i].seq = 0 =>
       row.status = "completed" /\ page.draft = <<>>
  /\ page.terminal = "completed" =>
       /\ row.status = "completed"
       /\ \/ Final(drafts, page.cursor) \/ Len(journal) > Limit
          \/ page.draft = <<>> /\ wire = <<>> /\ gen[page.try].pc = "done"

Follows == \E drafts : Tells(drafts) /\ PageFollows(drafts) /\ Kept(drafts)

(* Who completes the row has stored its answer, and the row stays so.      *)
CompletionAgrees ==
  \A n \in Requests :
    /\ gen[n].pc \in {"storing", "publishing"} => gen[n].parts \in stored
    /\ gen[n].pc = "publishing" \/ (gen[n].pc = "announcing" /\ gen[n].last = "completed")
         => row.status = "completed"

StreamInv ==
  /\ TypeOK /\ GeneratorsAgree /\ PageAgrees /\ StoredAnswersAreWhole /\ CompletionAgrees
  /\ ~overtaken => SlotAgrees /\ Follows /\ (crashes = 0 => AnswerIsRecorded)

-----------------------------------------------------------------------------
(* Induction over numbers, and what a recursive function of them is.       *)

LEMMA LeastNumber ==
  ASSUME NEW S, S \subseteq Nat, S # {}
  PROVE  \E m \in S : \A n \in S : m <= n
<1>1. PICK m \in S : \A n \in S : <<n, m>> \notin OpToRel(<, Nat)
  BY NatLessThanWellFounded, WFMin
<1>2. \A n \in S : ~(n < m)
  BY <1>1 DEF OpToRel
<1>3. QED BY <1>2

LEMMA UpFrom ==
  ASSUME NEW a \in Nat, NEW b \in Nat, NEW S, a \in S,
         \A i \in a .. b : i \in S /\ i < b => i + 1 \in S
  PROVE  a .. b \subseteq S
<1> SUFFICES ASSUME (a .. b) \ S # {} PROVE FALSE
  OBVIOUS
<1>0. (a .. b) \ S \subseteq Nat
  OBVIOUS
<1>1. PICK m \in (a .. b) \ S : \A n \in (a .. b) \ S : m <= n
  BY <1>0, LeastNumber
<1>2. m # a /\ m - 1 \in a .. b
  BY <1>1
<1>3. m - 1 \in S
  BY <1>1, <1>2
<1>4. QED BY <1>1, <1>2, <1>3

-----------------------------------------------------------------------------
(* What the page has missed.                                               *)

At(i) == [seq |-> i, event |-> journal[i]]
ReadsOn(f, p, m) ==
  f = [i \in p.cursor .. m |-> IF i = p.cursor THEN p ELSE Consume(f[i - 1], At(i))]

LEMMA ReadsOnExists ==
  ASSUME NEW p, p.cursor \in Nat, NEW m \in Nat, p.cursor <= m
  PROVE  \E f : ReadsOn(f, p, m)
<1> DEFINE c == p.cursor
           S == {n \in Nat : \E f : ReadsOn(f, p, n)}
<1>1. c \in S
  <2>1. ReadsOn([i \in c .. c |-> p], p, c)
    BY DEF ReadsOn
  <2>2. QED BY <2>1
<1>2. ASSUME NEW n \in c .. m, n \in S PROVE n + 1 \in S
  <2>1. PICK f : ReadsOn(f, p, n)
    BY <1>2
  <2> DEFINE g == [i \in c .. n + 1 |-> IF i = n + 1 THEN Consume(f[n], At(n + 1)) ELSE f[i]]
  <2>2. ReadsOn(g, p, n + 1)
    <3>1. \A i \in c .. n + 1 : g[i] = IF i = c THEN p ELSE Consume(g[i - 1], At(i))
      BY <2>1 DEF ReadsOn
    <3>2. QED BY <3>1 DEF ReadsOn
  <2>3. QED BY <2>2
<1> HIDE DEF S
<1>3. m \in S
  <2>1. c .. m \subseteq S
    BY <1>1, <1>2, UpFrom
  <2>2. QED BY <2>1
<1>4. QED BY <1>3 DEF S

LEMMA MissedIs ==
  ASSUME NEW p, p.cursor \in Nat, journal \in Seq(Events), p.cursor <= Len(journal)
  PROVE  /\ Upto(p) \in p.cursor .. Len(journal)
         /\ Upto(p) = Len(journal) \/ Len(journal) > Limit
         /\ \E f : ReadsOn(f, p, Upto(p)) /\ Missed(p) = f[Upto(p)]
<1>0. Len(journal) \in Nat /\ Limit \in Nat
  BY StreamingAssumption
<1>1. /\ Upto(p) \in p.cursor .. Len(journal)
      /\ Upto(p) = Len(journal) \/ Len(journal) > Limit
  BY <1>0 DEF Upto
<1>2. \E f : ReadsOn(f, p, Upto(p))
  BY <1>0, <1>1, ReadsOnExists
<1>3. QED BY <1>1, <1>2 DEF Missed, ReadsOn, At

LEMMA ConsumeIs ==
  ASSUME NEW p \in Pages, NEW x \in Deliveries
  PROVE  LET q == Consume(p, x) IN
           /\ q \in Pages /\ q.pc = p.pc /\ q.try = p.try
           /\ q.cursor = IF x.seq <= p.cursor THEN p.cursor ELSE x.seq
           /\ q.draft = IF x.seq # 0 /\ x.seq <= p.cursor THEN p.draft
                        ELSE Effect(p.draft, x.event)
           /\ q.terminal = "completed" =>
                p.terminal = "completed" \/ x.event.type = "completed"
<1>1. /\ x.seq \in Nat /\ p.cursor \in Nat /\ p.draft \in Seq(Chunks)
      /\ x.event.type = "delta" => x.event.chunk \in Chunks
  BY DEF Deliveries, Pages, Events, Event, Endings
<1>2. \A c \in Chunks : Append(p.draft, c) \in Seq(Chunks)
  BY <1>1
<1>3. <<>> \in Seq(Chunks)
  OBVIOUS
<1>4. Effect(p.draft, x.event) \in Seq(Chunks)
  BY <1>1, <1>2, <1>3 DEF Effect
<1>5. CASE x.seq # 0 /\ x.seq <= p.cursor
  BY <1>1, <1>5 DEF Consume
<1>6. CASE ~(x.seq # 0 /\ x.seq <= p.cursor)
  <2> DEFINE t == IF x.event.type \in Endings THEN x.event.type ELSE p.terminal
             c == IF x.event.type = "failed" THEN "aiUnavailable" ELSE p.code
             s == IF x.seq = 0 THEN p.cursor ELSE x.seq
  <2>1. Consume(p, x) = [p EXCEPT !.cursor = s, !.draft = Effect(p.draft, x.event),
                                  !.terminal = t, !.code = c]
    BY <1>6 DEF Consume, Effect, Endings
  <2>2. t \in Endings \cup {"none"} /\ c \in Codes /\ s \in Nat
    BY <1>1 DEF Pages, Codes
  <2>3. Consume(p, x) \in Pages
    BY <1>4, <2>1, <2>2 DEF Pages
  <2>4. Consume(p, x).terminal = t
    BY <2>1 DEF Pages
  <2>5. QED BY <1>1, <1>6, <2>1, <2>3, <2>4 DEF Pages
<1>7. QED BY <1>5, <1>6

(* After a look at the journal the page has seen all of it or as much as a *)
(* look returns, and shows the draft of its history there.                 *)
LEMMA MissedShows ==
  ASSUME TypeOK, page.cursor <= Len(journal)
  PROVE  /\ Missed(page) \in Pages /\ Missed(page).pc = page.pc /\ Missed(page).try = page.try
         /\ Missed(page).cursor = Upto(page)
         /\ Missed(page).terminal = "completed" =>
              page.terminal = "completed" \/ \E i \in 1 .. Len(journal) : journal[i].type = "completed"
         /\ \A drafts :
              /\ page.draft = drafts[page.cursor]
              /\ \A i \in 1 .. Len(journal) : drafts[i] = Effect(drafts[i - 1], journal[i])
              => Missed(page).draft = drafts[Upto(page)]
<1> DEFINE c == page.cursor
           L == Len(journal)
           m == Upto(page)
<1>9. page \in Pages /\ c \in Nat /\ L \in Nat /\ journal \in Seq(Events)
  BY DEF TypeOK, Pages
<1>10. m \in c .. L
  BY <1>9, MissedIs
<1>1. /\ page \in Pages /\ c \in Nat /\ m \in Nat /\ journal \in Seq(Events) /\ c <= m
      /\ \A i \in 1 .. m : At(i) \in Deliveries /\ i \in 1 .. L
  BY <1>9, <1>10 DEF At, Deliveries
<1>2. PICK f : ReadsOn(f, page, m) /\ Missed(page) = f[m]
  BY <1>9, MissedIs
<1>3. f[c] = page /\ \A i \in c .. m : i # c => f[i] = Consume(f[i - 1], At(i))
  BY <1>1, <1>2 DEF ReadsOn
<1> DEFINE Typed == {i \in Nat : f[i] \in Pages /\ f[i].pc = page.pc /\ f[i].try = page.try
                                 /\ f[i].cursor = i}
<1>4. c .. m \subseteq Typed
  <2>1. c \in Typed
    BY <1>1, <1>3
  <2>2. ASSUME NEW i \in c .. m, i \in Typed, i < m PROVE i + 1 \in Typed
    <3>1. f[i + 1] = Consume(f[i], At(i + 1)) /\ At(i + 1) \in Deliveries
      BY <1>1, <1>3, <2>2
    <3>2. At(i + 1).seq = i + 1
      BY DEF At
    <3>3. QED BY <1>1, <2>2, <3>1, <3>2, ConsumeIs
  <2> HIDE DEF Typed
  <2>3. QED BY <1>1, <2>1, <2>2, UpFrom
<1>5. ASSUME NEW drafts, page.draft = drafts[c],
             \A i \in 1 .. L : drafts[i] = Effect(drafts[i - 1], journal[i])
      PROVE  Missed(page).draft = drafts[m]
  <2> DEFINE Shown == {i \in Nat : f[i].draft = drafts[i]}
  <2>1. c \in Shown
    BY <1>1, <1>3, <1>5
  <2>2. ASSUME NEW i \in c .. m, i \in Shown, i < m PROVE i + 1 \in Shown
    <3>1. f[i + 1] = Consume(f[i], At(i + 1)) /\ At(i + 1) \in Deliveries
      BY <1>1, <1>3, <2>2
    <3>2. At(i + 1).seq = i + 1 /\ At(i + 1).event = journal[i + 1]
      BY DEF At
    <3>3. f[i] \in Pages /\ f[i].cursor = i
      BY <1>4, <2>2
    <3>4. f[i + 1].draft = Effect(f[i].draft, journal[i + 1])
      BY <1>1, <2>2, <3>1, <3>2, <3>3, ConsumeIs
    <3>5. i + 1 \in 1 .. m
      BY <1>1, <2>2
    <3>6. drafts[i + 1] = Effect(drafts[i], journal[i + 1])
      BY <1>1, <1>5, <3>5
    <3>7. QED BY <1>1, <2>2, <3>4, <3>6
  <2> HIDE DEF Shown
  <2>3. c .. m \subseteq Shown
    BY <1>1, <2>1, <2>2, UpFrom
  <2>4. m \in Shown
    BY <1>1, <2>3
  <2>5. QED BY <1>2, <2>4 DEF Shown
<1>6. m \in Typed
  BY <1>1, <1>4
<1>7. Missed(page).terminal = "completed" =>
        page.terminal = "completed" \/ \E i \in 1 .. L : journal[i].type = "completed"
  <2> DEFINE Told == page.terminal = "completed" \/ \E i \in 1 .. L : journal[i].type = "completed"
             Honest == {i \in Nat : f[i].terminal = "completed" => Told}
  <2>1. c \in Honest
    BY <1>1, <1>3
  <2>2. ASSUME NEW i \in c .. m, i \in Honest, i < m PROVE i + 1 \in Honest
    <3>1. f[i + 1] = Consume(f[i], At(i + 1)) /\ At(i + 1) \in Deliveries
      BY <1>1, <1>3, <2>2
    <3>2. At(i + 1).event = journal[i + 1] /\ i + 1 \in 1 .. L /\ i + 1 \in Nat
      <4>1. i + 1 \in 1 .. m /\ i + 1 \in Nat
        BY <1>1, <2>2
      <4>2. QED BY <1>1, <4>1 DEF At
    <3>3. f[i] \in Pages
      BY <1>4, <2>2
    <3>4. f[i + 1].terminal = "completed" =>
            f[i].terminal = "completed" \/ journal[i + 1].type = "completed"
      BY <3>1, <3>2, <3>3, ConsumeIs
    <3>5. journal[i + 1].type = "completed" => Told
      BY <3>2
    <3> HIDE DEF Told
    <3>6. QED BY <2>2, <3>2, <3>4, <3>5
  <2> HIDE DEF Honest
  <2>3. c .. m \subseteq Honest
    BY <1>1, <2>1, <2>2, UpFrom
  <2>4. m \in Honest
    BY <1>1, <2>3
  <2>5. QED BY <1>2, <2>4 DEF Honest
<1>8. QED BY <1>2, <1>5, <1>6, <1>7

-----------------------------------------------------------------------------
(* Type correctness, and what a generator has in its hand.                 *)

LEMMA EventsAre ==
  /\ \A t \in {"started", "reset"} \cup Endings : Event(t) \in Events /\ Event(t).type = t
  /\ \A c \in Chunks : /\ [Event("delta") EXCEPT !.chunk = c] \in Events
                       /\ [Event("delta") EXCEPT !.chunk = c].type = "delta"
                       /\ [Event("delta") EXCEPT !.chunk = c].chunk = c
BY DEF Event, Events

LEMMA EmitIs ==
  ASSUME TypeOK, NEW n, NEW e \in Events, Emit(n, e)
  PROVE  /\ journal' \in Seq(Events) /\ Len(journal') = Len(journal) + 1
         /\ \A i \in 1 .. Len(journal) : journal'[i] = journal[i]
         /\ journal'[Len(journal) + 1] = e
         /\ wire' \in Seq(Deliveries)
<1>1. journal \in Seq(Events) /\ wire \in Seq(Deliveries)
  BY DEF TypeOK
<1>2. journal' = Append(journal, e)
  BY DEF Emit
<1>3. [seq |-> Len(journal) + 1, event |-> e] \in Deliveries
  BY <1>1 DEF Deliveries
<1>4. wire' = wire \/ wire' = Append(wire, [seq |-> Len(journal) + 1, event |-> e])
  BY DEF Emit
<1>5. wire' \in Seq(Deliveries)
  <2>1. \A d \in Deliveries : Append(wire, d) \in Seq(Deliveries)
    BY <1>1
  <2>2. QED BY <1>1, <1>3, <1>4, <2>1
<1>6. QED BY <1>1, <1>2, <1>5

LEMMA ReceivedIsChunk ==
  ASSUME TypeOK, NEW n \in Requests, gen[n].sent < Length
  PROVE  Chunk(n, gen[n].attempt, gen[n].sent + 1) \in Chunks
<1>1. gen[n].attempt \in 1 .. Attempts /\ gen[n].sent + 1 \in 1 .. Length
  BY StreamingAssumption DEF TypeOK, Generators
<1>2. QED BY <1>1 DEF Chunk, Chunks

LEMMA GenerateType ==
  ASSUME TypeOK, GeneratorsAgree, NEW n \in Requests, Generate(n)
  PROVE  TypeOK'
<1> USE StreamingAssumption DEF requestVars, bounds
<1>0. /\ gen \in [Requests -> Generators] /\ gen[n] \in Generators
      /\ row \in [status : {"none", "started"} \cup Endings, code : Codes]
  BY DEF TypeOK
<1>1. \A pc \in {"calling", "open", "storing", "publishing", "ended", "done", "lost"} :
        Goto(n, pc) => gen' \in [Requests -> Generators]
  <2>1. ASSUME NEW pc \in {"calling", "open", "storing", "publishing", "ended", "done", "lost"}
        PROVE  [gen[n] EXCEPT !.pc = pc] \in Generators
    BY <1>0 DEF Generators
  <2>2. QED BY <1>0, <2>1 DEF Goto
<1>2. \A t \in Endings : End(n, t) => gen' \in [Requests -> Generators]
  <2>1. ASSUME NEW t \in Endings
        PROVE  [gen[n] EXCEPT !.pc = "announcing", !.last = t] \in Generators
    BY <1>0 DEF Generators
  <2>2. \A t \in Endings : End(n, t) =>
          gen' = [gen EXCEPT ![n] = [gen[n] EXCEPT !.pc = "announcing", !.last = t]]
    BY <1>0 DEF End, Generators
  <2>3. QED BY <1>0, <2>1, <2>2
<1>3. \A s \in Endings, c \in Codes : Finish(n, s, c) =>
        /\ slot' = 0 /\ overtaken' \in BOOLEAN
        /\ row' \in [status : {"none", "started"} \cup Endings, code : Codes]
  BY <1>0 DEF Finish, TypeOK
<1>4. CASE Begin(n)
  <2>1. journal' \in Seq(Events) /\ wire' \in Seq(Deliveries)
    BY <1>4, EmitIs, EventsAre DEF Begin
  <2>2. QED BY <1>1, <1>4, <2>1 DEF Begin, TypeOK
<1>5. CASE Connect(n)
  <2>1. gen' \in [Requests -> Generators]
    <3>1. gen' = [gen EXCEPT ![n] = [gen[n] EXCEPT !.pc = "open", !.sent = 0]]
      BY <1>0, <1>5 DEF Connect, Generators
    <3>2. 0 \in 0 .. Length
      OBVIOUS
    <3>3. [gen[n] EXCEPT !.pc = "open", !.sent = 0] \in Generators
      BY <1>0, <3>2 DEF Generators
    <3>4. QED BY <1>0, <3>1, <3>3
  <2>2. QED BY <1>5, <2>1 DEF Connect, TypeOK
<1>6. CASE Receive(n)
  <2> DEFINE c == Chunk(n, gen[n].attempt, gen[n].sent + 1)
  <2>1. c \in Chunks
    BY <1>6, ReceivedIsChunk DEF Receive
  <2>2. journal' \in Seq(Events) /\ wire' \in Seq(Deliveries)
    BY <1>6, <2>1, EmitIs, EventsAre DEF Receive
  <2>3. Append(gen[n].parts, c) \in Seq(Chunks) /\ gen[n].sent + 1 \in 0 .. Length
    BY <1>0, <1>6, <2>1 DEF Receive, Generators
  <2>4. gen' = [gen EXCEPT ![n] = [gen[n] EXCEPT !.sent = gen[n].sent + 1, !.parts = Append(gen[n].parts, c)]]
    BY <1>0, <1>6 DEF Receive, Generators
  <2> HIDE DEF c
  <2>5. gen' \in [Requests -> Generators]
    BY <1>0, <2>3, <2>4 DEF Generators
  <2>6. QED BY <1>6, <2>2, <2>5 DEF Receive, TypeOK
<1>7. CASE Retry(n)
  <2>1. journal' \in Seq(Events) /\ wire' \in Seq(Deliveries)
    BY <1>7, EmitIs, EventsAre DEF Retry, TellReset, TypeOK
  <2>2. <<>> \in Seq(Chunks) /\ 0 \in 0 .. Length /\ gen[n].attempt + 1 \in 1 .. Attempts
    BY <1>0, <1>7 DEF Retry, Generators
  <2>3. gen' = [gen EXCEPT ![n] = [gen[n] EXCEPT !.pc = "calling", !.attempt = gen[n].attempt + 1,
                                                  !.sent = 0, !.parts = <<>>]]
    BY <1>0, <1>7 DEF Retry, Discard, Generators
  <2>4. gen' \in [Requests -> Generators]
    BY <1>0, <2>2, <2>3 DEF Generators
  <2>5. QED BY <1>7, <2>1, <2>4 DEF Retry, TypeOK
<1>8. CASE Fail(n) \/ Cancelled(n) \/ Close(n)
  BY <1>1, <1>2, <1>3, <1>8 DEF Fail, Cancelled, Close, Codes, Endings, TypeOK
<1>9. CASE Answer(n)
  <2>1. gen[n].parts \in Seq(Chunks) /\ <<n, gen[n].attempt>> \in Requests \X (1 .. Attempts)
    BY <1>0 DEF Generators
  <2>2. QED BY <1>1, <1>9, <2>1 DEF Answer, TypeOK
<1>10. CASE CompleteRow(n)
  <2>1. CASE row.status = "started"
    BY <1>1, <1>10, <2>1 DEF CompleteRow, TypeOK, Codes, Endings
  <2>2. CASE row.status # "started"
    BY <1>2, <1>3, <1>10, <2>2 DEF CompleteRow, TypeOK, Codes, Endings
  <2>3. QED BY <2>1, <2>2
<1>11. CASE Publish(n)
  BY <1>2, <1>11 DEF Publish, TypeOK, Endings
<1>12. CASE Announce(n)
  <2>1. gen[n].last \in Endings
    BY <1>12 DEF Announce, GeneratorsAgree
  <2>2. journal' \in Seq(Events) /\ wire' \in Seq(Deliveries)
    BY <1>12, <2>1, EmitIs, EventsAre DEF Announce
  <2>3. QED BY <1>1, <1>12, <2>2 DEF Announce, TypeOK
<1>13. CASE Lose(n)
  BY <1>1, <1>13 DEF Lose, TypeOK
<1>14. QED
  BY <1>4, <1>5, <1>6, <1>7, <1>8, <1>9, <1>10, <1>11, <1>12, <1>13 DEF Generate

(* What the page makes of its state when a request is settled. *)
LEMMA SettledIs ==
  ASSUME NEW p \in Pages
  PROVE  /\ Settled(p) \in Pages
         /\ \/ /\ Settled(p).pc \in Endings \cup {"error"} /\ Settled(p).try = p.try
               /\ Settled(p).cursor = p.cursor /\ Settled(p).draft = p.draft
               /\ Settled(p).terminal = p.terminal
               /\ Settled(p).pc = "completed" => p.terminal = "completed"
            \/ /\ Settled(p).pc = "posting" /\ Settled(p).try = p.try + 1
               /\ Settled(p).cursor = 0 /\ Settled(p).draft = <<>>
               /\ Settled(p).terminal = "none"
<1>0. \A pc \in Endings \cup {"error"} :
        LET q == [p EXCEPT !.pc = pc] IN
          /\ q \in Pages /\ q.pc = pc /\ q.try = p.try /\ q.cursor = p.cursor /\ q.draft = p.draft
          /\ q.terminal = p.terminal
  BY DEF Pages, Endings
<1>1. CASE Known(p)
  <2>1. PICK pc \in Endings \cup {"error"} :
          Settled(p) = [p EXCEPT !.pc = pc] /\ (pc = "completed" => p.terminal = "completed")
    <3>1. CASE p.terminal = "failed"
      BY <1>1, <3>1 DEF Settled
    <3>2. CASE p.terminal # "failed"
      BY <1>1, <3>2 DEF Settled, Known, Endings
    <3>3. QED BY <3>1, <3>2
  <2>2. QED BY <1>0, <2>1
<1>2. CASE ~Known(p) /\ p.try = Tries
  <2>1. Settled(p) = [p EXCEPT !.pc = "error"]
    BY <1>2 DEF Settled
  <2>2. QED BY <1>0, <2>1
<1>3. CASE ~Known(p) /\ p.try # Tries
  <2>1. p.try + 1 \in Requests /\ <<>> \in Seq(Chunks)
    BY <1>3, StreamingAssumption DEF Pages, Requests
  <2>2. Settled(p) = [p EXCEPT !.pc = "posting", !.try = p.try + 1, !.cursor = 0, !.draft = <<>>,
                               !.terminal = "none", !.code = "none"]
    BY <1>3 DEF Settled, Pages
  <2>3. /\ Settled(p).pc = "posting" /\ Settled(p).try = p.try + 1
        /\ Settled(p).cursor = 0 /\ Settled(p).draft = <<>> /\ Settled(p).terminal = "none"
    BY <2>2 DEF Pages
  <2>4. Settled(p) \in Pages
    <3>1. 0 \in Nat /\ "none" \in Codes
      BY DEF Codes
    <3>2. QED BY <2>1, <2>2, <3>1 DEF Pages
  <2>5. QED BY <2>3, <2>4
<1>4. QED BY <1>1, <1>2, <1>3

LEMMA RecoveredIs ==
  ASSUME TypeOK, PageAgrees
  PROVE  /\ Recovered(page) \in Pages
         /\ Recovered(page).pc = page.pc /\ Recovered(page).try = page.try
         /\ Recovered(page).cursor = Upto(page)
         /\ Recovered(page).draft = Missed(page).draft
         /\ Recovered(page).terminal = "completed" =>
              row.status = "completed" \/ Missed(page).terminal = "completed"
<1>1. /\ Missed(page) \in Pages /\ Missed(page).pc = page.pc /\ Missed(page).try = page.try
      /\ Missed(page).cursor = Upto(page)
  BY MissedShows DEF PageAgrees
<1>2. CASE row.status = "started"
  BY <1>1, <1>2 DEF Recovered
<1>3. CASE row.status # "started"
  <2>1. row.status \in Endings \cup {"none"} /\ row.code \in Codes
    BY <1>3 DEF TypeOK
  <2>2. \E c \in Codes : Recovered(page) = [Missed(page) EXCEPT !.terminal = row.status, !.code = c]
    BY <1>1, <1>3, <2>1 DEF Recovered, Pages
  <2>3. QED BY <1>1, <2>1, <2>2 DEF Pages
<1>4. QED BY <1>2, <1>3

LEMMA PageType ==
  ASSUME TypeOK, GeneratorsAgree, PageAgrees,
         Send \/ Drop \/ PollFails \/ Stop \/ Restart \/ UNCHANGED vars
  PROVE  TypeOK'
<1> USE StreamingAssumption DEF requestVars, bounds
<1>0. /\ gen \in [Requests -> Generators] /\ page \in Pages /\ page.try \in Requests
      /\ wire \in Seq(Deliveries) /\ journal \in Seq(Events)
      /\ row \in [status : {"none", "started"} \cup Endings, code : Codes]
  BY DEF TypeOK, Pages
<1>1. \A pc \in {"reading", "recovering", "settling", "error", "cancelled"} :
        Become(pc) => page' \in Pages
  <2>1. \A pc \in {"reading", "recovering", "settling", "error", "cancelled"} :
          [page EXCEPT !.pc = pc] \in Pages
    BY <1>0 DEF Pages, Endings
  <2>2. QED BY <2>1 DEF Become
<1>2. Lost => losses' \in Nat /\ crashes' = crashes
  BY DEF Lost, TypeOK
<1>3. CASE Post
  <2> DEFINE n == page.try
  <2>1. \A pc \in {"new", "done"} :
          gen' = [gen EXCEPT ![n].pc = pc] => gen' \in [Requests -> Generators]
    <3>1. ASSUME NEW pc \in {"new", "done"}
          PROVE  [gen[n] EXCEPT !.pc = pc] \in Generators
      BY <1>0 DEF Generators
    <3>2. QED BY <1>0, <3>1
  <2>2. <<[seq |-> 0, event |-> Event("completed")]>> \in Seq(Deliveries)
    BY EventsAre DEF Deliveries, Endings
  <2>3. CASE InUse
    BY <1>1, <1>3, <2>3 DEF Post, TypeOK
  <2>4. CASE ~InUse /\ row.status = "completed"
    BY <1>1, <1>3, <2>1, <2>2, <2>4 DEF Post, TypeOK
  <2>5. CASE ~InUse /\ row.status # "completed"
    <3>1. /\ page' \in Pages /\ gen' \in [Requests -> Generators]
      BY <1>1, <1>3, <2>1, <2>5 DEF Post
    <3>2. <<>> \in Seq(Events) /\ <<>> \in Seq(Deliveries)
      OBVIOUS
    <3>3. row' \in [status : {"none", "started"} \cup Endings, code : Codes]
      BY <1>3, <2>5 DEF Post, Codes
    <3>4. slot' \in Requests /\ up' = TRUE /\ journal' = <<>> /\ wire' = <<>>
      BY <1>0, <1>3, <2>5 DEF Post
    <3>5. QED BY <1>3, <3>1, <3>2, <3>3, <3>4 DEF Post, TypeOK
  <2>6. QED BY <2>3, <2>4, <2>5
<1>4. CASE Read
  <2>1. Head(wire) \in Deliveries /\ Tail(wire) \in Seq(Deliveries)
    BY <1>0, <1>4 DEF Read
  <2>2. QED BY <1>0, <1>4, <2>1, ConsumeIs DEF Read, TypeOK
<1>5. CASE StreamEnds
  BY <1>1, <1>5 DEF StreamEnds, TypeOK
<1>6. CASE StreamBreaks
  <2>1. <<>> \in Seq(Deliveries) OBVIOUS
  <2>2. QED BY <1>1, <1>6, <2>1 DEF StreamBreaks, TypeOK
<1>7. CASE Poll
  <2>1. Recovered(page) \in Pages
    BY RecoveredIs
  <2>2. \A pc \in {"recovering", "settling"} : [Recovered(page) EXCEPT !.pc = pc] \in Pages
    BY <2>1 DEF Pages
  <2>3. page' \in Pages
    BY <1>7, <2>2 DEF Poll
  <2>4. QED BY <1>7, <2>3 DEF Poll, TypeOK
<1>8. CASE Settle
  <2>1. Settled(Recovered(page)) \in Pages /\ Settled(page) \in Pages
    BY <1>0, RecoveredIs, SettledIs
  <2>2. page' \in Pages
    BY <1>8, <2>1 DEF Settle
  <2>3. QED BY <1>2, <1>8, <2>2 DEF Settle, TypeOK
<1>9. CASE Drop
  BY <1>2, <1>9 DEF Drop, TypeOK
<1>10. CASE PollFails
  BY <1>1, <1>2, <1>10 DEF PollFails, TypeOK
<1>11. CASE Stop
  <2>1. <<>> \in Seq(Deliveries) OBVIOUS
  <2>2. QED BY <1>1, <1>2, <1>11, <2>1 DEF Stop, TypeOK
<1>12. CASE Restart
  <2>1. \A n \in Requests : [gen[n] EXCEPT !.pc = "done"] \in Generators
    BY <1>0 DEF Generators
  <2>2. gen' \in [Requests -> Generators]
    BY <1>0, <1>12, <2>1 DEF Restart
  <2>3. row' \in [status : {"none", "started"} \cup Endings, code : Codes]
    <3>1. [status |-> "failed", code |-> "chatInterrupted"]
            \in [status : {"none", "started"} \cup Endings, code : Codes]
      BY DEF Codes, Endings
    <3>2. QED BY <1>0, <1>12, <3>1 DEF Restart
  <2>4. crashes' \in Nat
    BY <1>12 DEF Restart, TypeOK
  <2>5. {} \in SUBSET Requests /\ 0 \in Requests \cup {0}
    OBVIOUS
  <2>6. QED BY <1>12, <2>2, <2>3, <2>4, <2>5 DEF Restart, TypeOK
<1>13. CASE UNCHANGED vars
  BY <1>13 DEF vars, TypeOK
<1>14. QED
  BY <1>3, <1>4, <1>5, <1>6, <1>7, <1>8, <1>9, <1>10, <1>11, <1>12, <1>13 DEF Send

LEMMA TypeStep ==
  TypeOK /\ GeneratorsAgree /\ PageAgrees /\ [Next]_vars => TypeOK'
BY GenerateType, PageType DEF Next

LEMMA PartIs ==
  ASSUME NEW n, NEW k, NEW m \in Nat
  PROVE  /\ Part(n, k, 0) = <<>>
         /\ Len(Part(n, k, m)) = m
         /\ Append(Part(n, k, m), Chunk(n, k, m + 1)) = Part(n, k, m + 1)
<1> DEFINE C == {Chunk(n, k, i) : i \in Nat}
<1>1. \A j \in Nat : Part(n, k, j) \in Seq(C) /\ Len(Part(n, k, j)) = j
  <2>1. \A j \in Nat : Part(n, k, j) \in [1 .. j -> C]
    BY DEF Part
  <2> HIDE DEF C
  <2>2. QED BY <2>1 DEF Part
<1>2. Chunk(n, k, m + 1) \in C
  OBVIOUS
<1>3. Part(n, k, 0) = <<>>
  BY DEF Part
<1>4. \A i \in 1 .. m + 1 : Append(Part(n, k, m), Chunk(n, k, m + 1))[i] = Part(n, k, m + 1)[i]
  <2> HIDE DEF C
  <2>1. \A i \in 1 .. m + 1 : Part(n, k, m + 1)[i] = Chunk(n, k, i)
    BY DEF Part
  <2>2. \A i \in 1 .. m : Part(n, k, m)[i] = Chunk(n, k, i)
    BY DEF Part
  <2> DEFINE s == Part(n, k, m)
             c == Chunk(n, k, m + 1)
  <2>3. s \in Seq(C) /\ Len(s) = m /\ c \in C
    BY <1>1, <1>2
  <2>4. \A i \in 1 .. m : i \in 1 .. m + 1
    OBVIOUS
  <2> HIDE DEF s, c
  <2>5. /\ \A i \in 1 .. m : Append(s, c)[i] = s[i]
        /\ Append(s, c)[m + 1] = c
    BY <2>3
  <2>6. \A i \in 1 .. m + 1 : i \in 1 .. m \/ i = m + 1
    OBVIOUS
  <2>7. ASSUME NEW i \in 1 .. m + 1 PROVE Append(s, c)[i] = Part(n, k, m + 1)[i]
    <3>1. CASE i \in 1 .. m
      BY <2>1, <2>2, <2>5, <3>1 DEF s
    <3>2. CASE i = m + 1
      BY <2>1, <2>5, <3>2 DEF c
    <3>3. QED BY <2>6, <3>1, <3>2
  <2>8. QED BY <2>7 DEF s, c
<1>5. Append(Part(n, k, m), Chunk(n, k, m + 1)) = Part(n, k, m + 1)
  <2> HIDE DEF C
  <2>1. /\ Append(Part(n, k, m), Chunk(n, k, m + 1)) \in Seq(C)
        /\ Len(Append(Part(n, k, m), Chunk(n, k, m + 1))) = m + 1
    BY <1>1, <1>2
  <2>2. Part(n, k, m + 1) \in Seq(C) /\ Len(Part(n, k, m + 1)) = m + 1
    BY <1>1
  <2> DEFINE s == Append(Part(n, k, m), Chunk(n, k, m + 1))
             t == Part(n, k, m + 1)
  <2> HIDE DEF s, t
  <2>3. s \in Seq(C) /\ t \in Seq(C) /\ Len(s) = m + 1 /\ Len(t) = m + 1
    BY <2>1, <2>2 DEF s, t
  <2>4. \A i \in 1 .. m + 1 : s[i] = t[i]
    BY <1>4 DEF s, t
  <2>5. s = t
    BY <2>3, <2>4
  <2>6. QED BY <2>5 DEF s, t
<1>6. QED BY <1>1, <1>3, <1>5

-----------------------------------------------------------------------------
(* What a step does to a generator. *)

LEMMA GenerateGen ==
  ASSUME TypeOK, GeneratorsAgree, NEW n \in Requests, Generate(n)
  PROVE  /\ page' = page /\ cut \subseteq cut' /\ crashes' = crashes
         /\ \A m \in Requests \ {n} : gen'[m] = gen[m]
         /\ gen[n].pc # "none"
         /\ gen'[n].parts = Part(n, gen'[n].attempt, gen'[n].sent)
         /\ gen'[n].pc \notin {"none", "new"}
         /\ gen'[n].pc = "calling" => gen'[n].sent = 0
         /\ gen'[n].pc = "announcing" => gen'[n].last \in Endings
<1> USE StreamingAssumption DEF requestVars, bounds
<1>0. /\ gen \in [Requests -> Generators] /\ gen[n] \in Generators
      /\ gen[n].parts = Part(n, gen[n].attempt, gen[n].sent)
      /\ gen[n].pc \in {"none", "new", "calling"} => gen[n].sent = 0
  BY DEF TypeOK, GeneratorsAgree
<1>1. ASSUME NEW g, gen' = [gen EXCEPT ![n] = g]
      PROVE  gen'[n] = g /\ \A m \in Requests \ {n} : gen'[m] = gen[m]
  BY <1>0, <1>1
<1>2. ASSUME NEW pc, Goto(n, pc)
      PROVE  /\ \A m \in Requests \ {n} : gen'[m] = gen[m]
             /\ gen'[n].pc = pc /\ gen'[n].attempt = gen[n].attempt
             /\ gen'[n].sent = gen[n].sent /\ gen'[n].parts = gen[n].parts
  BY <1>0, <1>2 DEF Goto, Generators
<1>3. ASSUME NEW t, End(n, t)
      PROVE  /\ \A m \in Requests \ {n} : gen'[m] = gen[m]
             /\ gen'[n].pc = "announcing" /\ gen'[n].attempt = gen[n].attempt
             /\ gen'[n].sent = gen[n].sent /\ gen'[n].parts = gen[n].parts
             /\ gen'[n].last = t
  BY <1>0, <1>3 DEF End, Generators
<1>4. CASE Begin(n)
  BY <1>0, <1>2, <1>4 DEF Begin
<1>5. CASE Connect(n)
  <2>1. gen' = [gen EXCEPT ![n] = [gen[n] EXCEPT !.pc = "open", !.sent = 0]]
    BY <1>0, <1>5 DEF Connect, Generators
  <2>2. /\ gen'[n].pc = "open" /\ gen'[n].sent = 0 /\ gen'[n].attempt = gen[n].attempt
        /\ gen'[n].parts = gen[n].parts
    BY <1>0, <2>1 DEF Generators
  <2>3. QED BY <1>0, <1>1, <1>5, <2>1, <2>2 DEF Connect
<1>6. CASE Receive(n)
  <2> DEFINE c == Chunk(n, gen[n].attempt, gen[n].sent + 1)
  <2>1. gen' = [gen EXCEPT ![n] = [gen[n] EXCEPT !.sent = gen[n].sent + 1, !.parts = Append(gen[n].parts, c)]]
    BY <1>0, <1>6 DEF Receive, Generators
  <2>2. Append(gen[n].parts, c) = Part(n, gen[n].attempt, gen[n].sent + 1)
    <3>1. gen[n].sent \in Nat
      BY <1>0 DEF Generators
    <3>2. \A i \in Nat : Append(Part(n, gen[n].attempt, i), Chunk(n, gen[n].attempt, i + 1))
                           = Part(n, gen[n].attempt, i + 1)
      BY PartIs
    <3>3. QED BY <1>0, <3>1, <3>2
  <2> HIDE DEF c
  <2>3. /\ gen'[n].pc = gen[n].pc /\ gen'[n].sent = gen[n].sent + 1
        /\ gen'[n].attempt = gen[n].attempt /\ gen'[n].parts = Append(gen[n].parts, c)
    BY <1>0, <2>1 DEF Generators
  <2>4. QED BY <1>0, <1>1, <1>6, <2>1, <2>2, <2>3 DEF Receive
<1>7. CASE Retry(n)
  <2>1. gen' = [gen EXCEPT ![n] = [gen[n] EXCEPT !.pc = "calling", !.attempt = gen[n].attempt + 1,
                                                  !.sent = 0, !.parts = <<>>]]
    BY <1>0, <1>7 DEF Retry, Discard, Generators
  <2>2. /\ gen'[n].pc = "calling" /\ gen'[n].sent = 0
        /\ gen'[n].attempt = gen[n].attempt + 1 /\ gen'[n].parts = <<>>
    BY <1>0, <2>1 DEF Generators
  <2>3. Part(n, gen[n].attempt + 1, 0) = <<>>
    BY PartIs
  <2>4. QED BY <1>0, <1>1, <1>7, <2>1, <2>2, <2>3 DEF Retry
<1>8. CASE Fail(n)
  BY <1>0, <1>3, <1>8 DEF Fail, Endings
<1>9. CASE Cancelled(n)
  BY <1>0, <1>3, <1>9 DEF Cancelled, Endings
<1>10. CASE Answer(n)
  BY <1>0, <1>2, <1>10 DEF Answer
<1>11. CASE CompleteRow(n)
  BY <1>0, <1>2, <1>3, <1>11 DEF CompleteRow, Endings
<1>12. CASE Publish(n)
  BY <1>0, <1>3, <1>12 DEF Publish, Endings
<1>13. CASE Announce(n)
  BY <1>0, <1>2, <1>13 DEF Announce
<1>14. CASE Close(n)
  BY <1>0, <1>2, <1>14 DEF Close
<1>15. CASE Lose(n)
  BY <1>0, <1>2, <1>15 DEF Lose
<1>16. QED
  BY <1>4, <1>5, <1>6, <1>7, <1>8, <1>9, <1>10, <1>11, <1>12, <1>13, <1>14, <1>15 DEF Generate

LEMMA GeneratorsStep ==
  ASSUME TypeOK, GeneratorsAgree, PageAgrees, [Next]_vars
  PROVE  GeneratorsAgree'
<1> USE StreamingAssumption DEF requestVars, bounds
<1>0. /\ gen \in [Requests -> Generators] /\ page \in Pages /\ page.try \in Requests
      /\ Requests \subseteq Nat
  BY DEF TypeOK, Pages, Requests
<1>1. ASSUME NEW n \in Requests, Generate(n) PROVE GeneratorsAgree'
  <2> SUFFICES ASSUME NEW m \in Requests
               PROVE  /\ gen'[m].parts = Part(m, gen'[m].attempt, gen'[m].sent)
                      /\ gen'[m].pc \in {"none", "new", "calling"} => gen'[m].sent = 0
                      /\ gen'[m].pc = "announcing" => gen'[m].last \in Endings
                      /\ m > page'.try \/ (m = page'.try /\ page'.pc = "posting")
                           => gen'[m] = NoGenerator
    BY DEF GeneratorsAgree, Part, Chunk, Endings, NoGenerator, Requests
  <2>1. CASE m = n
    BY <1>1, <2>1, GenerateGen DEF GeneratorsAgree, NoGenerator
  <2>2. CASE m # n
    BY <1>1, <2>2, GenerateGen DEF GeneratorsAgree
  <2>3. QED BY <2>1, <2>2
<1>2. ASSUME UNCHANGED gen, page'.try = page.try, page'.pc = "posting" => page.pc = "posting"
      PROVE  GeneratorsAgree'
  BY <1>2 DEF GeneratorsAgree, Part, Chunk, Endings, NoGenerator, Requests
<1>3. \A pc : Become(pc) => page'.try = page.try /\ page'.pc = pc
  BY <1>0 DEF Become, Pages
<1>4. CASE Post
  <2> DEFINE n == page.try
  <2>1. CASE UNCHANGED gen
    BY <1>2, <1>3, <1>4, <2>1 DEF Post
  <2>2. CASE \E pc \in {"new", "done"} : gen' = [gen EXCEPT ![n].pc = pc]
    <3>1. PICK pc \in {"new", "done"} : gen' = [gen EXCEPT ![n].pc = pc]
      BY <2>2
    <3>2. page'.try = page.try /\ page'.pc \in {"recovering", "reading"}
      BY <1>3, <1>4 DEF Post
    <3>3. gen[n] = NoGenerator
      BY <1>0, <1>4 DEF Post, GeneratorsAgree
    <3>4. /\ gen'[n].pc = pc /\ gen'[n].sent = gen[n].sent /\ gen'[n].parts = gen[n].parts
          /\ gen'[n].attempt = gen[n].attempt
          /\ \A m \in Requests \ {n} : gen'[m] = gen[m]
      BY <1>0, <3>1 DEF Generators
    <3>5. ASSUME NEW m \in Requests
          PROVE  /\ gen'[m].parts = Part(m, gen'[m].attempt, gen'[m].sent)
                 /\ gen'[m].pc \in {"none", "new", "calling"} => gen'[m].sent = 0
                 /\ gen'[m].pc = "announcing" => gen'[m].last \in Endings
                 /\ m > page'.try \/ (m = page'.try /\ page'.pc = "posting")
                      => gen'[m] = NoGenerator
      <4>1. CASE m = n
        BY <1>0, <3>2, <3>3, <3>4, <4>1 DEF GeneratorsAgree, NoGenerator
      <4>2. CASE m # n
        BY <1>0, <3>2, <3>4, <4>2 DEF GeneratorsAgree
      <4>3. QED BY <4>1, <4>2
    <3>6. QED BY <3>5 DEF GeneratorsAgree, Part, Chunk, Endings, NoGenerator, Requests
  <2>3. QED BY <1>4, <2>1, <2>2 DEF Post
<1>5. CASE Settle
  <2>1. ASSUME NEW p \in Pages, p.try = page.try, page' = Settled(p) PROVE GeneratorsAgree'
    <3>1. CASE page'.pc # "posting" /\ page'.try = page.try
      BY <1>2, <1>5, <3>1 DEF Settle
    <3>2. CASE page'.pc = "posting" /\ page'.try = page.try + 1
      <4>1. UNCHANGED gen
        BY <1>5 DEF Settle
      <4>2. \A m \in Requests : m > page'.try \/ m = page'.try => m > page.try
        <5>1. page.try \in Nat /\ page'.try = page.try + 1
          BY <1>0, <3>2
        <5>2. \A m \in Nat : m > page'.try \/ m = page'.try => m > page.try
          BY <5>1
        <5>3. QED BY <1>0, <5>2
      <4>3. QED BY <4>1, <4>2 DEF GeneratorsAgree, Part, Chunk, Endings, NoGenerator, Requests
    <3>3. QED BY <2>1, <3>1, <3>2, SettledIs DEF Endings
  <2>2. QED BY <1>0, <1>5, <2>1, RecoveredIs DEF Settle
<1>6. CASE Read
  <2>1. Head(wire) \in Deliveries
    BY <1>6 DEF Read, TypeOK
  <2>2. QED BY <1>0, <1>2, <1>6, <2>1, ConsumeIs DEF Read
<1>7. CASE Poll
  <2>1. page'.try = page.try /\ page'.pc # "posting"
    BY <1>7, RecoveredIs DEF Poll, Pages
  <2>2. QED BY <1>2, <1>7, <2>1 DEF Poll
<1>8. CASE StreamEnds \/ StreamBreaks \/ Drop \/ PollFails \/ Stop
  BY <1>2, <1>3, <1>8 DEF StreamEnds, StreamBreaks, Drop, PollFails, Stop
<1>9. CASE Restart
  <2>1. page' = page
    BY <1>9 DEF Restart
  <2>2. ASSUME NEW n \in Requests
        PROVE  \/ gen[n].pc = "none" /\ gen'[n] = gen[n]
               \/ /\ gen[n].pc # "none" /\ gen'[n].pc = "done" /\ gen'[n].sent = gen[n].sent
                  /\ gen'[n].parts = gen[n].parts /\ gen'[n].attempt = gen[n].attempt
    BY <1>0, <1>9 DEF Restart, Generators
  <2>3. ASSUME NEW m \in Requests
        PROVE  /\ gen'[m].parts = Part(m, gen'[m].attempt, gen'[m].sent)
               /\ gen'[m].pc \in {"none", "new", "calling"} => gen'[m].sent = 0
               /\ gen'[m].pc = "announcing" => gen'[m].last \in Endings
               /\ m > page'.try \/ (m = page'.try /\ page'.pc = "posting")
                    => gen'[m] = NoGenerator
    BY <2>1, <2>2 DEF GeneratorsAgree, NoGenerator
  <2>4. QED BY <2>3 DEF GeneratorsAgree, Part, Chunk, Endings, NoGenerator, Requests
<1>10. CASE UNCHANGED vars
  BY <1>2, <1>10 DEF vars
<1>11. QED
  BY <1>1, <1>4, <1>5, <1>6, <1>7, <1>8, <1>9, <1>10 DEF Next, Send

LEMMA ReadingStep ==
  ASSUME TypeOK, GeneratorsAgree, PageAgrees, [Next]_vars
  PROVE  /\ page'.pc = "reading" => gen'[page'.try].pc # "none"
         /\ page'.pc = "completed" => page'.terminal = "completed"
<1> USE DEF requestVars, bounds
<1>0. /\ gen \in [Requests -> Generators] /\ page \in Pages /\ page.try \in Requests
  BY DEF TypeOK, Pages
<1> DEFINE Reads == /\ page'.pc = "reading" => gen'[page'.try].pc # "none"
                    /\ page'.pc = "completed" => page'.terminal = "completed"
<1>1. ASSUME NEW n \in Requests, Generate(n) PROVE Reads
  BY <1>0, <1>1, GenerateGen DEF PageAgrees
<1>2. \A pc : Become(pc) => page'.pc = pc /\ page'.try = page.try
  BY <1>0 DEF Become, Pages
<1>3. CASE Post
  <2>1. CASE page'.pc = "reading"
    <3>1. page'.try = page.try
      BY <1>2, <1>3 DEF Post
    <3>2. \E pc \in {"new", "done"} : gen' = [gen EXCEPT ![page.try].pc = pc]
      BY <1>2, <1>3, <2>1 DEF Post
    <3>3. gen'[page.try].pc # "none"
      BY <1>0, <3>2 DEF Generators
    <3>4. QED BY <2>1, <3>1, <3>3
  <2>2. page'.pc # "completed"
    BY <1>2, <1>3 DEF Post
  <2>3. QED BY <2>1, <2>2
<1>4. CASE Read
  <2>1. Head(wire) \in Deliveries
    BY <1>4 DEF Read, TypeOK
  <2>2. QED BY <1>0, <1>4, <2>1, ConsumeIs DEF Read, PageAgrees
<1>5. CASE Settle
  BY <1>0, <1>5, RecoveredIs, SettledIs DEF Settle, Endings
<1>6. CASE Poll
  BY <1>6, RecoveredIs DEF Poll, Pages
<1>7. CASE StreamEnds \/ StreamBreaks \/ PollFails
  BY <1>2, <1>7 DEF StreamEnds, StreamBreaks, PollFails
<1>8. CASE Drop
  BY <1>8 DEF Drop, PageAgrees
<1>9. CASE Stop
  BY <1>2, <1>9 DEF Stop, PageAgrees
<1>10. CASE Restart
  BY <1>0, <1>10 DEF Restart, PageAgrees, Generators
<1>11. CASE UNCHANGED vars
  BY <1>11 DEF vars, PageAgrees
<1>12. QED
  BY <1>1, <1>3, <1>4, <1>5, <1>6, <1>7, <1>8, <1>9, <1>10, <1>11 DEF Next, Send

LEMMA PageStep ==
  ASSUME TypeOK, GeneratorsAgree, PageAgrees, [Next]_vars
  PROVE  PageAgrees'
<1> USE DEF requestVars, bounds
<1>0. /\ page \in Pages /\ page.cursor \in Nat /\ journal \in Seq(Events)
      /\ wire \in Seq(Deliveries) /\ \A i \in 1 .. Len(wire) : wire[i].seq \in Nat
      /\ Len(journal) \in Nat
  <2>1. page \in Pages /\ journal \in Seq(Events) /\ wire \in Seq(Deliveries)
    BY DEF TypeOK
  <2>2. \A i \in 1 .. Len(wire) : wire[i] \in Deliveries
    BY <2>1
  <2>3. page.cursor \in Nat /\ Len(journal) \in Nat /\ \A x \in Deliveries : x.seq \in Nat
    BY <2>1 DEF Pages, Deliveries
  <2>4. QED BY <2>1, <2>2, <2>3
<1>1. ASSUME NEW n, NEW e \in Events, Emit(n, e), UNCHANGED <<page, up>> PROVE PageAgrees'
  <2>1. Len(journal') = Len(journal) + 1 /\ page'.cursor <= Len(journal')
    BY <1>0, <1>1, EmitIs DEF PageAgrees
  <2>2. ASSUME NEW i \in 1 .. Len(wire') PROVE wire'[i].seq <= Len(journal')
    <3>1. CASE wire' = wire
      BY <1>0, <2>1, <2>2, <3>1 DEF PageAgrees
    <3>2. CASE wire' = Append(wire, [seq |-> Len(journal) + 1, event |-> e])
      <4>1. [seq |-> Len(journal) + 1, event |-> e] \in Deliveries
        BY <1>0, <1>1 DEF Deliveries
      <4>2. /\ i \in 1 .. Len(wire) /\ wire'[i] = wire[i]
            \/ wire'[i] = [seq |-> Len(journal) + 1, event |-> e]
        BY <1>0, <2>2, <3>2, <4>1
      <4>3. QED BY <1>0, <2>1, <4>2 DEF PageAgrees
    <3>3. QED BY <1>1, <3>1, <3>2 DEF Emit
  <2>3. page'.pc # "reading" => wire' = <<>>
    BY <1>1 DEF Emit, Connected, PageAgrees
  <2>4. QED BY <1>1, <2>1, <2>2, <2>3, ReadingStep DEF PageAgrees
<1>2. ASSUME NEW n \in Requests, Generate(n) PROVE PageAgrees'
  <2>1. UNCHANGED <<page, up>>
    BY <1>2 DEF Generate, Begin, Connect, Receive, Retry, Fail, Cancelled, Answer, CompleteRow,
                Publish, Announce, Close, Lose
  <2>2. CASE UNCHANGED <<journal, wire>>
    BY <2>1, <2>2, ReadingStep DEF PageAgrees
  <2>3. CASE Begin(n)
    BY <1>1, <2>1, <2>3, EventsAre DEF Begin
  <2>4. CASE Receive(n)
    BY <1>1, <2>1, <2>4, ReceivedIsChunk, EventsAre DEF Receive
  <2>5. CASE Retry(n)
    BY <1>1, <2>1, <2>2, <2>5, EventsAre DEF Retry, TellReset
  <2>6. CASE Announce(n)
    BY <1>1, <2>1, <2>6, EventsAre DEF Announce, GeneratorsAgree
  <2>7. QED
    BY <1>2, <2>2, <2>3, <2>4, <2>5, <2>6
       DEF Generate, Connect, Fail, Cancelled, Answer, CompleteRow, Publish, Close, Lose
<1>3. \A pc : Become(pc) => /\ page'.pc = pc /\ page'.cursor = page.cursor
                            /\ page'.draft = page.draft /\ page'.terminal = page.terminal
  BY <1>0 DEF Become, Pages
<1>4. ASSUME UNCHANGED journal, page'.cursor = page.cursor \/ page'.cursor = Len(journal)
                                  \/ page'.cursor = 0 \/ page'.cursor = Upto(page),
             page'.pc = "posting" =>
               page'.cursor = 0 /\ page'.draft = <<>> /\ page'.terminal = "none",
             wire' = wire \/ wire' = <<>>, up' => page'.pc = "reading",
             page'.pc # "reading" => wire' = <<>>
      PROVE  PageAgrees'
  <2>1. Upto(page) <= Len(journal)
    BY <1>0, MissedIs DEF PageAgrees
  <2>2. QED BY <1>0, <1>4, <2>1, ReadingStep DEF PageAgrees
<1>5. CASE Post
  <2>1. page.cursor = 0 /\ page'.cursor = 0
    BY <1>3, <1>5 DEF Post, PageAgrees
  <2>2. CASE InUse
    BY <1>3, <1>4, <1>5, <2>1, <2>2 DEF Post, PageAgrees
  <2>3. CASE ~InUse /\ row.status = "completed"
    <3>1. /\ UNCHANGED journal /\ page'.pc = "reading"
          /\ wire' = <<[seq |-> 0, event |-> Event("completed")]>>
      BY <1>3, <1>5, <2>3 DEF Post
    <3>2. QED BY <1>0, <2>1, <3>1, ReadingStep DEF PageAgrees
  <2>4. CASE ~InUse /\ row.status # "completed"
    <3>1. journal' = <<>> /\ page'.pc = "reading" /\ wire' = <<>>
      BY <1>3, <1>5, <2>4 DEF Post
    <3>2. QED BY <1>0, <2>1, <3>1, ReadingStep DEF PageAgrees
  <2>5. QED BY <2>2, <2>3, <2>4
<1>6. CASE Read
  <2>1. /\ Head(wire) = wire[1] /\ Head(wire) \in Deliveries /\ Len(wire) > 0
        /\ Len(wire') = Len(wire) - 1 /\ \A i \in 1 .. Len(wire') : wire'[i] = wire[i + 1]
    BY <1>0, <1>6 DEF Read
  <2>2. page'.pc = "reading" /\ page'.cursor <= Len(journal) /\ UNCHANGED journal
    <3>1. page' = Consume(page, Head(wire)) /\ page.pc = "reading" /\ UNCHANGED journal
      BY <1>6 DEF Read
    <3>2. page'.pc = "reading" /\ (page'.cursor = page.cursor \/ page'.cursor = wire[1].seq)
      BY <1>0, <2>1, <3>1, ConsumeIs
    <3>3. wire[1].seq <= Len(journal) /\ page.cursor <= Len(journal)
      BY <1>0, <2>1 DEF PageAgrees
    <3>4. QED BY <3>1, <3>2, <3>3
  <2>3. QED BY <1>0, <2>1, <2>2, ReadingStep DEF PageAgrees
<1>7. CASE Settle
  <2>1. ASSUME NEW p \in Pages, p.cursor = page.cursor \/ p.cursor = Upto(page),
               page' = Settled(p)
        PROVE  PageAgrees'
    <3>1. up' = FALSE /\ wire' = wire /\ wire = <<>> /\ UNCHANGED journal
      BY <1>7 DEF Settle, PageAgrees, TypeOK
    <3>2. QED BY <1>4, <2>1, <3>1, SettledIs DEF Endings
  <2>2. QED BY <1>0, <1>7, <2>1, RecoveredIs DEF Settle
<1>8. CASE Poll
  <2>1. page'.cursor = Upto(page) /\ page'.pc # "posting" /\ page.pc = "recovering"
    BY <1>8, RecoveredIs DEF Poll, Pages
  <2>2. QED BY <1>4, <1>8, <2>1 DEF Poll, PageAgrees
<1>9. CASE StreamEnds \/ StreamBreaks \/ Drop \/ PollFails \/ Stop
  <2>1. page'.pc = "posting" => page.pc = "posting"
    BY <1>3, <1>9 DEF StreamEnds, StreamBreaks, Drop, PollFails, Stop
  <2>2. /\ UNCHANGED journal /\ (wire' = wire \/ wire' = <<>>)
        /\ page'.cursor = page.cursor /\ page'.draft = page.draft
        /\ page'.terminal = page.terminal
    BY <1>3, <1>9 DEF StreamEnds, StreamBreaks, Drop, PollFails, Stop
  <2>3. up' => page'.pc = "reading"
    BY <1>3, <1>9 DEF StreamEnds, StreamBreaks, Drop, PollFails, Stop, PageAgrees, TypeOK
  <2>4. page'.pc # "reading" => wire' = <<>>
    BY <1>3, <1>9 DEF StreamEnds, StreamBreaks, Drop, PollFails, Stop, PageAgrees
  <2>5. QED BY <1>4, <2>1, <2>2, <2>3, <2>4 DEF PageAgrees
<1>10. CASE Restart
  BY <1>4, <1>10 DEF Restart, PageAgrees
<1>11. CASE UNCHANGED vars
  BY <1>4, <1>11 DEF vars, PageAgrees
<1>12. QED
  BY <1>2, <1>5, <1>6, <1>7, <1>8, <1>9, <1>10, <1>11 DEF Next, Send

-----------------------------------------------------------------------------
(* The answers that are stored. *)

(* The first chunks of an answer are the beginning of it. *)
LEMMA PartBeginsWhole ==
  ASSUME NEW n, NEW k, NEW m \in 0 .. Length
  PROVE  /\ IsPrefix(Part(n, k, m), Whole(n, k))
         /\ Part(n, k, Length) = Whole(n, k)
<1> USE StreamingAssumption
<1> DEFINE C == {Chunk(n, k, i) : i \in Nat}
<1>1. m \in Nat /\ m <= Length /\ Length \in Nat
  OBVIOUS
<1>2. Part(n, k, Length) = Whole(n, k)
  BY DEF Part, Whole
<1>3. \A j \in Nat : /\ Part(n, k, j) \in Seq(C) /\ Len(Part(n, k, j)) = j
                     /\ \A i \in 1 .. j : Part(n, k, j)[i] = Chunk(n, k, i)
  <2>1. \A j \in Nat : Part(n, k, j) \in [1 .. j -> C]
    BY DEF Part
  <2>2. \A j \in Nat : \A i \in 1 .. j : Part(n, k, j)[i] = Chunk(n, k, i)
    BY DEF Part
  <2> HIDE DEF C
  <2>3. \A j \in Nat : Part(n, k, j) \in Seq(C) /\ Len(Part(n, k, j)) = j
    BY <2>1 DEF Part
  <2>4. QED BY <2>2, <2>3
<1> HIDE DEF C
<1>4. SubSeq(Part(n, k, m), 1, m) = SubSeq(Part(n, k, Length), 1, m)
  <2> DEFINE s == Part(n, k, m)
             t == Part(n, k, Length)
  <2>1. /\ s \in Seq(C) /\ t \in Seq(C) /\ Len(s) = m /\ Len(t) = Length
        /\ \A i \in 1 .. m : s[i] = t[i]
    BY <1>1, <1>3
  <2> HIDE DEF s, t
  <2>2. /\ SubSeq(s, 1, m) \in Seq(C) /\ Len(SubSeq(s, 1, m)) = m
        /\ SubSeq(t, 1, m) \in Seq(C) /\ Len(SubSeq(t, 1, m)) = m
        /\ \A i \in 1 .. m : SubSeq(s, 1, m)[i] = s[i] /\ SubSeq(t, 1, m)[i] = t[i]
    BY <1>1, <2>1
  <2>3. QED BY <1>1, <2>1, <2>2 DEF s, t
<1>5. QED BY <1>1, <1>2, <1>3, <1>4 DEF IsPrefix

LEMMA WholeStep ==
  ASSUME TypeOK, GeneratorsAgree, StoredAnswersAreWhole, [Next]_vars
  PROVE  StoredAnswersAreWhole'
<1> USE DEF requestVars, bounds
<1>1. ASSUME stored' = stored, cut \subseteq cut'
      PROVE  StoredAnswersAreWhole'
  BY <1>1 DEF StoredAnswersAreWhole, Whole, Chunk, Requests
<1>2. ASSUME NEW n \in Requests, Answer(n) PROVE StoredAnswersAreWhole'
  <2> DEFINE k == gen[n].attempt
             m == gen[n].sent
  <2>1. k \in 1 .. Attempts /\ m \in 0 .. Length /\ gen[n].parts = Part(n, k, m)
    BY DEF TypeOK, Generators, GeneratorsAgree
  <2>2. stored' = stored \cup {Part(n, k, m)} /\ cut \subseteq cut'
    BY <1>2, <2>1 DEF Answer
  <2>3. Part(n, k, m) = Whole(n, k) \/ (<<n, k>> \in cut' /\ IsPrefix(Part(n, k, m), Whole(n, k)))
    <3>1. CASE m = Length
      BY <3>1, <2>1, PartBeginsWhole
    <3>2. CASE m < Length
      BY <3>2, <1>2, <2>1, PartBeginsWhole DEF Answer
    <3>3. QED BY <2>1, <3>1, <3>2, StreamingAssumption
  <2>4. ASSUME NEW parts \in stored'
        PROVE  \E i \in Requests, j \in 1 .. Attempts :
                 parts = Whole(i, j) \/ (<<i, j>> \in cut' /\ IsPrefix(parts, Whole(i, j)))
    <3>1. CASE parts \in stored
      <4>1. PICK i \in Requests, j \in 1 .. Attempts :
              parts = Whole(i, j) \/ (<<i, j>> \in cut /\ IsPrefix(parts, Whole(i, j)))
        BY <3>1 DEF StoredAnswersAreWhole
      <4>2. parts = Whole(i, j) \/ (<<i, j>> \in cut' /\ IsPrefix(parts, Whole(i, j)))
        BY <2>2, <4>1
      <4>3. QED BY <4>2
    <3>2. CASE parts = Part(n, k, m)
      BY <2>1, <2>3, <3>2
    <3>3. QED BY <2>2, <3>1, <3>2
  <2>5. QED BY <2>4 DEF StoredAnswersAreWhole, Whole, Chunk, Requests
<1>3. ASSUME NEW n \in Requests, Generate(n) PROVE StoredAnswersAreWhole'
  BY <1>1, <1>2, <1>3
     DEF Generate, Begin, Connect, Receive, Retry, Fail, Cancelled, CompleteRow, Publish,
         Announce, Close, Lose
<1>4. QED
  BY <1>1, <1>3
     DEF Next, Send, Post, Read, StreamEnds, StreamBreaks, Poll, Settle, Drop, PollFails, Stop,
         Restart, vars

-----------------------------------------------------------------------------
(* As long as no generator ends the request of another. *)

LEMMA OvertakenStep ==
  ASSUME TypeOK, [Next]_vars, ~overtaken'
  PROVE  ~overtaken
<1> USE DEF requestVars, bounds
<1>1. overtaken' = overtaken \/ overtaken' = (overtaken \/ slot \notin {0, page.try})
        \/ \E n \in Requests : overtaken' = (overtaken \/ slot \notin {0, n})
  <2>1. ASSUME NEW n \in Requests, Generate(n)
        PROVE  overtaken' = overtaken \/ overtaken' = (overtaken \/ slot \notin {0, n})
    BY <2>1 DEF Generate, Begin, Connect, Receive, Retry, Fail, Cancelled, Answer, CompleteRow,
                Publish, Announce, Close, Lose, Finish
  <2>2. QED
    BY <2>1 DEF Next, Send, Post, Read, StreamEnds, StreamBreaks, Poll, Settle, Drop,
                PollFails, Stop, Restart, vars
<1>2. QED BY <1>1 DEF TypeOK

(* A step of a generator that touches neither the slot nor the row, or one *)
(* that ends the request. *)
LEMMA EndsItsRequest ==
  ASSUME TypeOK, SlotAgrees, NEW n \in Requests, ~overtaken', slot' = 0,
         overtaken' = (overtaken \/ slot \notin {0, n}),
         \A m \in Requests \ {n} : gen'[m] = gen[m], gen'[n].pc \notin Live
  PROVE  \A m \in Requests : gen'[m].pc \notin Live
<1>1. slot \in {0, n}
  OBVIOUS
<1>2. \A m \in Requests : m # 0
  BY StreamingAssumption DEF Requests
<1>3. QED BY <1>1, <1>2 DEF SlotAgrees

LEMMA SlotStep ==
  ASSUME TypeOK, GeneratorsAgree, PageAgrees, SlotAgrees, [Next]_vars, ~overtaken'
  PROVE  SlotAgrees'
<1> USE DEF requestVars, bounds
<1>0. /\ gen \in [Requests -> Generators] /\ \A m \in Requests : m # 0
  BY StreamingAssumption DEF TypeOK, Requests
<1>1. ASSUME \A m \in Requests : gen'[m].pc \notin Live PROVE SlotAgrees'
  BY <1>1 DEF SlotAgrees, Live, Requests
<1>2. ASSUME UNCHANGED <<slot, row>>,
             \A m \in Requests : gen'[m].pc \in Live =>
               /\ gen[m].pc \in Live
               /\ gen'[m].pc = "publishing" <=> gen[m].pc = "publishing",
             \A m \in Requests : gen[m].pc = "none" => gen'[m].pc = "none"
      PROVE  SlotAgrees'
  BY <1>2 DEF SlotAgrees, Live, Requests
<1>3. ASSUME NEW n \in Requests, Generate(n) PROVE SlotAgrees'
  <2>0. gen[n].pc # "none" /\ \A m \in Requests \ {n} : gen'[m] = gen[m]
    BY <1>3, GenerateGen
  <2>1. \A pc : Goto(n, pc) => gen'[n].pc = pc
    BY <1>0 DEF Goto, Generators
  <2>2. \A t : End(n, t) => gen'[n].pc = "announcing"
    BY <1>0 DEF End, Generators
  <2>3. CASE Begin(n) \/ Answer(n) \/ Announce(n) \/ Lose(n)
    <3>1. UNCHANGED <<slot, row>>
      BY <2>3 DEF Begin, Answer, Announce, Lose
    <3>2. gen'[n].pc \in Live =>
            /\ gen[n].pc \in Live
            /\ gen'[n].pc = "publishing" <=> gen[n].pc = "publishing"
      BY <2>1, <2>3 DEF Begin, Answer, Announce, Lose, Live
    <3>3. QED BY <1>2, <2>0, <3>1, <3>2
  <2>4. CASE Connect(n) \/ Receive(n) \/ Retry(n)
    <3>1. UNCHANGED <<slot, row>>
      BY <2>4 DEF Connect, Receive, Retry
    <3>2. gen[n].pc \in {"calling", "open"} /\ gen'[n].pc \in {"calling", "open"}
      BY <1>0, <2>4 DEF Connect, Receive, Retry, Generators
    <3>3. QED BY <1>2, <2>0, <3>1, <3>2 DEF Live
  <2>5. CASE Fail(n) \/ Cancelled(n) \/ Close(n) \/ Publish(n)
    <3>1. slot' = 0 /\ overtaken' = (overtaken \/ slot \notin {0, n})
      BY <2>5 DEF Fail, Cancelled, Close, Publish, Finish
    <3>2. gen'[n].pc \notin Live
      BY <2>1, <2>2, <2>5 DEF Fail, Cancelled, Close, Publish, Live
    <3>3. QED BY <1>1, <2>0, <3>1, <3>2, EndsItsRequest
  <2>6. CASE CompleteRow(n)
    <3>1. CASE row.status = "started"
      <4>1. /\ row'.status = "completed" /\ slot' = slot /\ gen'[n].pc = "publishing"
            /\ gen[n].pc = "storing"
        BY <2>1, <2>6, <3>1 DEF CompleteRow
      <4>2. slot = n /\ \A m \in Requests \ {n} : gen[m].pc \notin Live
        BY <4>1 DEF SlotAgrees, Live
      <4>3. QED BY <2>0, <4>1, <4>2 DEF SlotAgrees, Live, Requests
    <3>2. CASE row.status # "started"
      <4>1. slot' = 0 /\ overtaken' = (overtaken \/ slot \notin {0, n})
        BY <2>6, <3>2 DEF CompleteRow, Finish
      <4>2. gen'[n].pc \notin Live
        BY <2>2, <2>6, <3>2 DEF CompleteRow, Live
      <4>3. QED BY <1>1, <2>0, <4>1, <4>2, EndsItsRequest
    <3>3. QED BY <3>1, <3>2
  <2>7. QED BY <1>3, <2>3, <2>4, <2>5, <2>6 DEF Generate
<1>4. ASSUME UNCHANGED <<gen, slot, row>> PROVE SlotAgrees'
  BY <1>2, <1>4
<1>5. CASE Post
  <2> DEFINE n == page.try
  <2>0. n \in Requests
    BY DEF TypeOK, Pages
  <2>1. CASE InUse
    BY <1>4, <1>5, <2>1 DEF Post
  <2>2. CASE ~InUse
    <3>1. \A m \in Requests : gen[m].pc \notin Live
      BY <1>0, <2>2 DEF SlotAgrees, InUse
    <3>2. CASE row.status = "completed"
      <4>1. gen' = [gen EXCEPT ![n].pc = "done"]
        BY <1>5, <2>2, <3>2 DEF Post
      <4>2. \A m \in Requests : gen'[m].pc \notin Live
        BY <1>0, <2>0, <3>1, <4>1 DEF Live, Generators
      <4>3. QED BY <1>1, <4>2
    <3>3. CASE row.status # "completed"
      <4>1. /\ gen' = [gen EXCEPT ![n].pc = "new"] /\ slot' = n /\ row'.status = "started"
        BY <1>5, <2>2, <3>3 DEF Post
      <4>2. /\ gen'[n].pc = "new" /\ \A m \in Requests \ {n} : gen'[m].pc \notin Live
            /\ \A m \in Requests : n < m => gen'[m].pc = "none"
        <5>1. /\ gen'[n].pc = "new" /\ \A m \in Requests \ {n} : gen'[m] = gen[m]
          BY <1>0, <2>0, <4>1 DEF Generators
        <5>2. \A m \in Requests : n < m => m # n /\ gen[m].pc = "none"
          BY <2>0 DEF GeneratorsAgree, NoGenerator, Requests
        <5>3. QED BY <3>1, <5>1, <5>2
      <4>3. QED BY <4>1, <4>2 DEF SlotAgrees, Live, Requests
    <3>4. QED BY <3>2, <3>3
  <2>3. QED BY <2>1, <2>2
<1>6. CASE Restart
  <2>1. \A m \in Requests : gen'[m].pc \in {"none", "done"}
    BY <1>0, <1>6 DEF Restart, Generators
  <2>2. QED BY <1>1, <2>1 DEF Live
<1>7. QED
  BY <1>3, <1>4, <1>5, <1>6
     DEF Next, Send, Read, StreamEnds, StreamBreaks, Poll, Settle, Drop, PollFails, Stop, vars

(* An answer is stored by the generator that holds the request, while the  *)
(* row is started; a completed row is not opened again.                    *)
LEMMA RecordStep ==
  ASSUME TypeOK, GeneratorsAgree, SlotAgrees, AnswerIsRecorded, [Next]_vars, crashes' = 0,
         ~overtaken'
  PROVE  AnswerIsRecorded'
<1> USE DEF requestVars, bounds
<1>0. /\ gen \in [Requests -> Generators] /\ \A m \in Requests : m # 0
  BY StreamingAssumption DEF TypeOK, Requests
<1>1. ASSUME stored' = stored,
             \/ row.status = "completed" /\ row'.status = "completed"
             \/ row.status # "completed" /\ \A n \in Requests :
                  gen[n].pc = "storing" =>
                    row'.status = "completed" \/ gen'[n].pc = "storing"
      PROVE  AnswerIsRecorded'
  BY <1>1 DEF AnswerIsRecorded, Requests
<1>2. ASSUME NEW n \in Requests, Generate(n) PROVE AnswerIsRecorded'
  <2>0. \A m \in Requests \ {n} : gen'[m] = gen[m]
    BY <1>2, GenerateGen
  <2>1. CASE Answer(n)
    <3>1. row.status = "started" /\ slot = n
      BY <2>1 DEF Answer, SlotAgrees, Live
    <3>2. \A m \in Requests : gen[m].pc # "storing"
      BY <2>1, <3>1 DEF Answer, SlotAgrees, Live
    <3>3. stored = {}
      BY <3>1, <3>2 DEF AnswerIsRecorded
    <3>4. stored' = {gen[n].parts} /\ gen'[n].pc = "storing"
      BY <1>0, <2>1, <3>3 DEF Answer, Goto, Generators
    <3>5. QED BY <3>4 DEF AnswerIsRecorded, Requests
  <2>2. CASE CompleteRow(n)
    <3>1. row.status = "started"
      BY <2>2 DEF CompleteRow, SlotAgrees, Live
    <3>2. row'.status = "completed" /\ stored' = stored
      BY <2>2, <3>1 DEF CompleteRow
    <3>3. QED BY <1>1, <3>1, <3>2
  <2>3. CASE Fail(n) \/ Cancelled(n) \/ Close(n) \/ Publish(n)
    <3>1. stored' = stored /\ (row.status = "completed" => row' = row)
      BY <2>3 DEF Fail, Cancelled, Close, Publish, Finish
    <3>2. gen[n].pc # "storing"
      BY <2>3 DEF Fail, Cancelled, Close, Publish
    <3>3. QED BY <1>1, <2>0, <3>1, <3>2
  <2>4. CASE Begin(n) \/ Connect(n) \/ Receive(n) \/ Retry(n) \/ Announce(n) \/ Lose(n)
    <3>1. stored' = stored /\ row' = row
      BY <2>4 DEF Begin, Connect, Receive, Retry, Announce, Lose
    <3>2. gen[n].pc # "storing"
      BY <2>4 DEF Begin, Connect, Receive, Retry, Announce, Lose
    <3>3. QED BY <1>1, <2>0, <3>1, <3>2
  <2>5. QED BY <1>2, <2>1, <2>2, <2>3, <2>4 DEF Generate
<1>3. ASSUME UNCHANGED <<gen, row, stored>> PROVE AnswerIsRecorded'
  BY <1>1, <1>3
<1>4. CASE Post
  <2> DEFINE n == page.try
  <2>0. n \in Requests
    BY DEF TypeOK, Pages
  <2>1. CASE InUse
    BY <1>3, <1>4, <2>1 DEF Post
  <2>2. CASE ~InUse /\ row.status = "completed"
    BY <1>1, <1>4, <2>2 DEF Post
  <2>3. CASE ~InUse /\ row.status # "completed"
    <3>1. \A m \in Requests : gen[m].pc \notin Live
      BY <1>0, <2>3 DEF SlotAgrees, InUse
    <3>2. stored' = stored
      BY <1>4 DEF Post
    <3>3. QED BY <1>1, <2>3, <3>1, <3>2 DEF Live
  <2>4. QED BY <2>1, <2>2, <2>3
<1>5. ASSUME Restart PROVE FALSE
  BY <1>5 DEF Restart, TypeOK
<1>6. QED
  BY <1>2, <1>3, <1>4, <1>5
     DEF Next, Send, Read, StreamEnds, StreamBreaks, Poll, Settle, Drop, PollFails, Stop, vars

(* An answer and a completion stay.                                        *)
LEMMA CompletedStays ==
  ASSUME TypeOK, [Next]_vars
  PROVE  /\ stored \subseteq stored'
         /\ row.status = "completed" => row'.status = "completed"
<1> USE DEF requestVars, bounds
<1>1. ASSUME NEW n \in Requests, Generate(n)
      PROVE  stored \subseteq stored' /\ (row.status = "completed" => row'.status = "completed")
  <2>1. stored \subseteq stored'
    BY <1>1 DEF Generate, Begin, Connect, Receive, Retry, Fail, Cancelled, Answer, CompleteRow,
                Publish, Announce, Close, Lose
  <2>2. row.status = "completed" => row'.status = "completed"
    BY <1>1 DEF Generate, Begin, Connect, Receive, Retry, Fail, Cancelled, Answer, CompleteRow,
                Publish, Announce, Close, Lose, Finish
  <2>3. QED BY <2>1, <2>2
<1>2. ASSUME Send \/ Drop \/ PollFails \/ Stop \/ Restart \/ UNCHANGED vars
      PROVE  stored \subseteq stored' /\ (row.status = "completed" => row'.status = "completed")
  BY <1>2 DEF Send, Post, Read, StreamEnds, StreamBreaks, Poll, Settle, Drop, PollFails, Stop,
              Restart, vars
<1>3. QED BY <1>1, <1>2 DEF Next

LEMMA CompletionStep ==
  ASSUME TypeOK, CompletionAgrees, [Next]_vars
  PROVE  CompletionAgrees'
<1> USE DEF requestVars, bounds
<1> DEFINE Agrees(m) ==
      /\ gen'[m].pc \in {"storing", "publishing"} => gen'[m].parts \in stored'
      /\ gen'[m].pc = "publishing" \/ (gen'[m].pc = "announcing" /\ gen'[m].last = "completed")
           => row'.status = "completed"
<1>0. /\ gen \in [Requests -> Generators] /\ stored \subseteq stored'
      /\ row.status = "completed" => row'.status = "completed"
  BY CompletedStays DEF TypeOK
<1>1. ASSUME NEW m \in Requests, gen'[m] = gen[m] PROVE Agrees(m)
  BY <1>0, <1>1 DEF CompletionAgrees
<1>2. ASSUME NEW n \in Requests, Generate(n), NEW m \in Requests PROVE Agrees(m)
  <2>0. ASSUME m # n PROVE Agrees(m)
    <3>1. gen'[m] = gen[m]
      BY <1>0, <1>2, <2>0
         DEF Generate, Begin, Connect, Receive, Retry, Fail, Cancelled, Answer, CompleteRow,
             Publish, Announce, Close, Lose, Goto, End
    <3>2. QED BY <1>1, <3>1
  <2> SUFFICES ASSUME m = n PROVE Agrees(m)
    BY <2>0
  <2>1. CASE Answer(n)
    BY <1>0, <2>1 DEF Answer, Goto, Generators
  <2>2. CASE CompleteRow(n)
    <3>1. CASE row.status = "started"
      BY <1>0, <2>2, <3>1 DEF CompleteRow, Goto, Generators, CompletionAgrees
    <3>2. CASE row.status # "started"
      BY <1>0, <2>2, <3>2 DEF CompleteRow, End, Generators
    <3>3. QED BY <3>1, <3>2
  <2>3. CASE Publish(n)
    BY <1>0, <2>3 DEF Publish, End, Generators, CompletionAgrees
  <2>4. CASE Fail(n) \/ Cancelled(n)
    BY <1>0, <2>4 DEF Fail, Cancelled, End, Generators
  <2>5. CASE Begin(n) \/ Connect(n) \/ Receive(n) \/ Retry(n) \/ Announce(n) \/ Close(n) \/ Lose(n)
    <3>1. gen'[n].pc \in {"calling", "open", "ended", "done", "lost"}
      BY <1>0, <2>5 DEF Begin, Connect, Receive, Retry, Announce, Close, Lose, Goto, Generators
    <3>2. QED BY <3>1
  <2>6. QED BY <1>2, <2>1, <2>2, <2>3, <2>4, <2>5 DEF Generate
<1>3. ASSUME Post, NEW m \in Requests PROVE Agrees(m)
  <2>1. gen'[m] = gen[m] \/ gen'[m].pc \in {"new", "done"}
    BY <1>0, <1>3 DEF Post, Generators
  <2>2. QED BY <1>1, <2>1
<1>4. ASSUME Restart, NEW m \in Requests PROVE Agrees(m)
  <2>1. gen'[m].pc \in {"none", "done"}
    BY <1>0, <1>4 DEF Restart, Generators
  <2>2. QED BY <2>1
<1>5. ASSUME gen' = gen, NEW m \in Requests PROVE Agrees(m)
  BY <1>1, <1>5
<1> HIDE DEF Agrees
<1>6. \A m \in Requests : Agrees(m)
  BY <1>2, <1>3, <1>4, <1>5
     DEF Next, Send, Read, StreamEnds, StreamBreaks, Poll, Settle, Drop, PollFails, Stop, vars
<1>7. QED BY <1>6 DEF Agrees, CompletionAgrees

-----------------------------------------------------------------------------
(* The history of the journal. *)

LEMMA PartsHold ==
  ASSUME TypeOK, GeneratorsAgree
  PROVE  <<>> \in Parts /\ \A n \in Requests : gen[n].parts \in Parts
<1>1. ASSUME NEW n \in Requests PROVE gen[n].parts \in Parts
  <2>1. gen[n].attempt \in 1 .. Attempts /\ gen[n].sent \in 0 .. Length
    BY DEF TypeOK, Generators
  <2>2. QED BY <2>1 DEF GeneratorsAgree, Parts
<1>2. <<>> \in Parts
  <2>1. 1 \in Requests /\ 1 \in 1 .. Attempts /\ 0 \in 0 .. Length
    BY StreamingAssumption DEF Requests
  <2>2. Part(1, 1, 0) = <<>>
    BY PartIs
  <2>3. QED BY <2>1, <2>2 DEF Parts
<1>3. QED BY <1>1, <1>2

(* What the response and the page have in their history stays there when   *)
(* the history grows.                                                      *)
LEMMA InHistory ==
  ASSUME TypeOK, PageAgrees
  PROVE  /\ page.cursor \in 0 .. Len(journal)
         /\ \A i \in 0 .. Len(wire) : Seen(i) \in 0 .. Len(journal)
<1>1. /\ page \in Pages /\ journal \in Seq(Events) /\ wire \in Seq(Deliveries)
  BY DEF TypeOK
<1>2. page.cursor \in Nat /\ Len(journal) \in Nat /\ \A x \in Deliveries : x.seq \in Nat
  BY <1>1 DEF Pages, Deliveries
<1>3. \A i \in 1 .. Len(wire) : wire[i] \in Deliveries /\ wire[i].seq <= Len(journal)
  BY <1>1 DEF PageAgrees
<1>4. page.cursor <= Len(journal)
  BY DEF PageAgrees
<1>5. \A i \in 0 .. Len(wire) : i = 0 \/ i \in 1 .. Len(wire)
  BY <1>1
<1>6. QED BY <1>2, <1>3, <1>4, <1>5 DEF Seen

(* Nothing is written and the page stays where it is. *)
LEMMA FollowsQuietly ==
  ASSUME Follows, UNCHANGED <<journal, wire, page>>, up' => up, stored \subseteq stored',
         row.status = "completed" => row'.status = "completed",
         row'.status = "completed" =>
           row.status = "completed" \/ \E n \in Requests :
             gen[n].pc \in Live /\ gen[n].parts \in stored',
         gen[page.try].pc = "done" => gen'[page.try].pc = "done",
         \A m \in Requests : gen'[m].pc \in Live =>
           gen[m].pc \in Live /\ gen'[m].parts = gen[m].parts
  PROVE  Follows'
<1>1. PICK drafts : Tells(drafts) /\ PageFollows(drafts) /\ Kept(drafts)
  BY DEF Follows
<1>2. Tells(drafts)'
  <2>1. \A m \in Requests : gen'[m].pc \in Live => drafts[Len(journal)] = gen'[m].parts
    BY <1>1 DEF Tells
  <2>2. QED BY <1>1, <2>1 DEF Tells, Live, Parts, Part, Chunk, Requests, Effect
<1>3. PageFollows(drafts)'
  BY <1>1 DEF PageFollows, Seen, Event
<1>4. Kept(drafts)'
  <2>1. row'.status = "completed" => drafts[Len(journal)] \in stored'
    BY <1>1 DEF Tells, Kept
  <2>2. QED BY <1>1, <2>1 DEF Kept, Final
<1>5. QED BY <1>2, <1>3, <1>4 DEF Follows

(* An event has no effect, or it tells what its generator has done, which  *)
(* holds the slot; and the response, if there is one, is its own.          *)
NoEffect(n, e) == (\A draft : Effect(draft, e) = draft) /\ gen'[n].parts = gen[n].parts
TellsPart(n, e) ==
  /\ gen[n].pc \in Live /\ gen'[n].parts \in Parts /\ row.status # "completed"
  /\ Effect(gen[n].parts, e) = gen'[n].parts
  /\ \A m \in Requests \ {n} : gen[m].pc \notin Live
  /\ page.pc = "reading" => page.try = n

(* An event is written. *)
LEMMA FollowsEmit ==
  ASSUME TypeOK, PageAgrees, Follows, NEW n \in Requests, NEW e \in Events, Emit(n, e),
         UNCHANGED <<page, up, row, stored>>, e.type = "completed" => row.status = "completed",
         gen[n].pc # "done", gen'[n].pc # "done",
         \A m \in Requests \ {n} : gen'[m] = gen[m],
         \A m \in Requests : gen'[m].pc \in Live => gen[m].pc \in Live,
         NoEffect(n, e) \/ TellsPart(n, e)
  PROVE  Follows'
<1> DEFINE L == Len(journal)
<1>0. /\ page.try \in Requests /\ L \in Nat /\ wire \in Seq(Deliveries) /\ Len(wire) \in Nat
      /\ page.cursor \in 0 .. L /\ \A i \in 0 .. Len(wire) : Seen(i) \in 0 .. L
  <2>1. page \in Pages /\ journal \in Seq(Events) /\ wire \in Seq(Deliveries)
    BY DEF TypeOK
  <2>2. page.try \in Requests /\ L \in Nat /\ Len(wire) \in Nat
    BY <2>1 DEF Pages
  <2>3. QED BY <2>1, <2>2, InHistory
<1>1. PICK drafts : Tells(drafts) /\ PageFollows(drafts) /\ Kept(drafts)
  BY DEF Follows
<1>2. /\ Len(journal') = L + 1 /\ \A i \in 1 .. L : journal'[i] = journal[i]
      /\ journal'[L + 1] = e
  BY EmitIs
<1> DEFINE d == Effect(drafts[L], e)
<1>11. PICK new : new = [i \in 0 .. L + 1 |-> IF i = L + 1 THEN d ELSE drafts[i]]
  OBVIOUS
<1>3. /\ d \in Parts
      /\ \A m \in Requests : gen'[m].pc \in Live => d = gen'[m].parts
      /\ d = drafts[L] \/ (row.status # "completed" /\ (page.pc = "reading" => page.try = n))
  <2>1. CASE NoEffect(n, e)
    <3>1. d = drafts[L] /\ gen'[n].parts = gen[n].parts
      BY <2>1 DEF NoEffect
    <3>2. drafts[L] \in Parts
      BY <1>0, <1>1 DEF Tells
    <3>3. \A m \in Requests : gen'[m].pc \in Live => drafts[L] = gen[m].parts
      BY <1>1 DEF Tells
    <3>4. QED BY <3>1, <3>2, <3>3
  <2>2. CASE TellsPart(n, e)
    <3>1. drafts[L] = gen[n].parts
      BY <1>1, <2>2 DEF Tells, TellsPart
    <3>2. d = gen'[n].parts
      BY <2>2, <3>1 DEF TellsPart
    <3>3. QED BY <2>2, <3>2 DEF TellsPart
  <2>3. QED BY <2>1, <2>2
<1>4. \A i \in 0 .. L : new[i] = drafts[i]
  BY <1>0, <1>11
<1>5. new[L + 1] = d
  BY <1>0, <1>11
<1>6. Tells(new)'
  <2>1. new \in [0 .. L + 1 -> Parts]
    BY <1>0, <1>1, <1>3, <1>11 DEF Tells
  <2>2. new[0] = <<>>
    BY <1>0, <1>1, <1>4 DEF Tells
  <2>3. \A i \in 1 .. L + 1 : new[i] = Effect(new[i - 1], journal'[i])
    <3>1. ASSUME NEW i \in 1 .. L PROVE new[i] = Effect(new[i - 1], journal'[i])
      <4>1. i \in 0 .. L /\ i - 1 \in 0 .. L
        BY <1>0
      <4>2. drafts[i] = Effect(drafts[i - 1], journal[i])
        BY <1>1 DEF Tells
      <4>3. QED BY <1>2, <1>4, <4>1, <4>2
    <3>2. new[L + 1] = Effect(new[L], journal'[L + 1])
      BY <1>0, <1>2, <1>4, <1>5
    <3>3. \A i \in 1 .. L + 1 : i \in 1 .. L \/ i = L + 1
      BY <1>0
    <3> HIDE DEF d
    <3>4. QED
      <4>1. L + 1 - 1 = L
        BY <1>0
      <4>2. QED BY <3>1, <3>2, <3>3, <4>1
  <2>4. \A m \in Requests : gen'[m].pc \in Live => new[L + 1] = gen'[m].parts
    BY <1>3, <1>5
  <2> HIDE DEF d
  <2>5. /\ new \in [0 .. Len(journal') -> Parts] /\ new[0] = <<>>
        /\ \A i \in 1 .. Len(journal') : new[i] = Effect(new[i - 1], journal'[i])
        /\ \A m \in Requests : gen'[m].pc \in Live => new[Len(journal')] = gen'[m].parts
    <3> HIDE DEF L
    <3>1. QED BY <1>2, <2>1, <2>2, <2>3, <2>4
  <2>6. QED BY <2>5 DEF Tells, Effect
<1> HIDE DEF d
<1>7. page'.draft = new[page'.cursor]
  BY <1>0, <1>1, <1>4 DEF PageFollows
<1>8. ASSUME page.pc = "reading"
      PROVE  /\ \A i \in 1 .. Len(wire') :
                  \/ /\ Seen(i - 1)' < wire'[i].seq
                     /\ wire'[i].event = journal'[wire'[i].seq]
                     /\ new[wire'[i].seq - 1] = new[Seen(i - 1)']
                  \/ /\ Len(wire') = 1 /\ wire'[i].seq = 0 /\ wire'[i].event = Event("completed")
                     /\ gen'[page.try].pc = "done"
             /\ up' /\ gen'[page.try].pc # "done" => new[L + 1] = new[Seen(Len(wire))']
  <2>1. ASSUME NEW i \in 1 .. Len(wire), wire'[i] = wire[i], Seen(i - 1)' = Seen(i - 1),
               gen[page.try].pc = "done" => wire' = wire /\ gen'[page.try].pc = "done"
        PROVE  \/ /\ Seen(i - 1)' < wire'[i].seq
                  /\ wire'[i].event = journal'[wire'[i].seq]
                  /\ new[wire'[i].seq - 1] = new[Seen(i - 1)']
               \/ /\ Len(wire') = 1 /\ wire'[i].seq = 0 /\ wire'[i].event = Event("completed")
                  /\ gen'[page.try].pc = "done"
    <3>1. i - 1 \in 0 .. Len(wire) /\ i \in 0 .. Len(wire) /\ i # 0
      BY <1>0
    <3>2. Seen(i) = wire[i].seq /\ Seen(i - 1) \in 0 .. L /\ wire[i].seq \in 0 .. L
      BY <1>0, <3>1 DEF Seen
    <3>3. CASE /\ Seen(i - 1) < wire[i].seq
               /\ wire[i].event = journal[wire[i].seq]
               /\ drafts[wire[i].seq - 1] = drafts[Seen(i - 1)]
      <4>1. wire[i].seq \in 1 .. L /\ wire[i].seq - 1 \in 0 .. L
        BY <1>0, <3>2, <3>3
      <4>2. QED BY <1>2, <1>4, <2>1, <3>2, <3>3, <4>1
    <3>4. CASE /\ Len(wire) = 1 /\ wire[i].seq = 0 /\ wire[i].event = Event("completed")
               /\ gen[page.try].pc = "done"
      BY <2>1, <3>4
    <3>5. QED BY <1>1, <1>8, <3>3, <3>4 DEF PageFollows
  <2>2. CASE ~Connected(n)
    <3>1. wire' = wire /\ \A i \in 0 .. Len(wire) : Seen(i)' = Seen(i)
      BY <2>2 DEF Emit, Seen
    <3>2. gen[page.try].pc = "done" <=> gen'[page.try].pc = "done"
      BY <1>0
    <3>3. ASSUME up', gen'[page.try].pc # "done" PROVE new[L + 1] = new[Seen(Len(wire))]
      <4>1. drafts[L] = drafts[Seen(Len(wire))]
        BY <1>1, <1>8, <3>2, <3>3 DEF PageFollows
      <4>2. d = drafts[L]
        BY <1>3, <1>8, <2>2, <3>3 DEF Connected
      <4>3. Seen(Len(wire)) \in 0 .. L
        BY <1>0
      <4>4. QED BY <1>4, <1>5, <4>1, <4>2, <4>3
    <3>4. \A i \in 1 .. Len(wire) : i - 1 \in 0 .. Len(wire)
      BY <1>0
    <3>5. \A i \in 1 .. Len(wire) : wire'[i] = wire[i] /\ Seen(i - 1)' = Seen(i - 1)
      BY <3>1, <3>4
    <3>6. Len(wire) \in 0 .. Len(wire)
      BY <1>0
    <3>7. QED BY <2>1, <3>1, <3>2, <3>3, <3>5, <3>6
  <2>3. CASE Connected(n)
    <3> DEFINE x == [seq |-> L + 1, event |-> e]
    <3>0. PICK W : W = Len(wire)
      OBVIOUS
    <3>1. wire' = Append(wire, x) /\ up /\ page.try = n
      BY <2>3 DEF Emit, Connected
    <3>2. x \in Deliveries
      BY <1>0 DEF Deliveries
    <3>3. /\ Len(wire') = W + 1 /\ \A i \in 1 .. W : wire'[i] = wire[i]
          /\ wire'[W + 1] = x
      BY <1>0, <3>0, <3>1, <3>2
    <3>4. \A i \in 0 .. W : Seen(i)' = Seen(i)
      BY <1>0, <3>0, <3>3 DEF Seen
    <3>11. gen[page.try].pc # "done"
      BY <3>1
    <3>5. drafts[L] = drafts[Seen(W)]
      BY <1>1, <1>8, <3>0, <3>1, <3>11 DEF PageFollows
    <3>6. Seen(W + 1)' = L + 1
      BY <1>0, <3>0, <3>3 DEF Seen
    <3>7. /\ Seen(W)' < wire'[W + 1].seq
          /\ wire'[W + 1].event = journal'[wire'[W + 1].seq]
          /\ new[wire'[W + 1].seq - 1] = new[Seen(W)']
      <4>1. wire'[W + 1].seq = L + 1 /\ wire'[W + 1].event = e
        BY <3>3
      <4>2. Seen(W) \in 0 .. L /\ Seen(W)' = Seen(W) /\ L \in 0 .. L /\ L + 1 - 1 = L
        BY <1>0, <3>0, <3>4
      <4>3. Seen(W)' < L + 1
        BY <1>0, <4>2
      <4>4. new[L] = new[Seen(W)']
        BY <1>4, <3>5, <4>2
      <4>5. QED BY <1>2, <4>1, <4>2, <4>3, <4>4
    <3>8. \A i \in 1 .. W + 1 :
            (i \in 1 .. W /\ i - 1 \in 0 .. W) \/ (i = W + 1 /\ i - 1 = W)
      BY <1>0, <3>0
    <3>9. ASSUME NEW i \in 1 .. W + 1
          PROVE  \/ /\ Seen(i - 1)' < wire'[i].seq
                    /\ wire'[i].event = journal'[wire'[i].seq]
                    /\ new[wire'[i].seq - 1] = new[Seen(i - 1)']
                 \/ /\ Len(wire') = 1 /\ wire'[i].seq = 0 /\ wire'[i].event = Event("completed")
                    /\ gen'[page.try].pc = "done"
      <4>1. CASE i \in 1 .. W /\ i - 1 \in 0 .. W
        BY <2>1, <3>0, <3>3, <3>4, <3>11, <4>1
      <4>2. CASE i = W + 1 /\ i - 1 = W
        BY <3>7, <4>2
      <4>3. QED BY <3>8, <4>1, <4>2
    <3>10. QED BY <3>0, <3>3, <3>6, <3>9
  <2>4. QED BY <2>2, <2>3
<1>9. PageFollows(new)'
  BY <1>2, <1>7, <1>8 DEF PageFollows, Event
<1>10. ASSUME row.status = "completed", NEW i \in 0 .. L, Final(drafts, i)
       PROVE  \A j \in i .. L + 1 : new[j] = new[L + 1]
  <2>1. \A j \in i .. L : new[j] = d
    <3>1. \A j \in i .. L : j \in 0 .. L /\ drafts[j] = drafts[L]
      BY <1>0, <1>10 DEF Final
    <3>2. d = drafts[L]
      BY <1>3, <1>10
    <3>3. QED BY <1>4, <3>1, <3>2
  <2>2. \A j \in i .. L + 1 : j \in i .. L \/ j = L + 1
    BY <1>0
  <2>3. QED BY <1>5, <2>1, <2>2
<1>12. Kept(new)'
  <2>1. row.status = "completed" => new[L + 1] \in stored
    BY <1>1, <1>3, <1>5 DEF Kept
  <2>2. ASSUME NEW i \in 1 .. L + 1, journal'[i].type = "completed"
        PROVE  row.status = "completed" /\ \A j \in i .. L + 1 : new[j] = new[L + 1]
    <3>1. CASE i \in 1 .. L
      <4>1. row.status = "completed" /\ Final(drafts, i) /\ i \in 0 .. L
        BY <1>0, <1>1, <1>2, <2>2, <3>1 DEF Kept
      <4>2. QED BY <1>10, <4>1
    <3>2. CASE i = L + 1
      <4>1. \A j \in L + 1 .. L + 1 : j = L + 1
        BY <1>0
      <4>2. QED BY <1>2, <2>2, <3>2, <4>1
    <3>3. i \in 1 .. L \/ i = L + 1
      BY <1>0
    <3>4. QED BY <3>1, <3>2, <3>3
  <2>3. ASSUME NEW i \in 1 .. Len(wire'), wire'[i].seq = 0
        PROVE  row.status = "completed" /\ page.draft = <<>>
    <3>1. CASE wire' = wire
      BY <1>1, <2>3, <3>1 DEF Kept
    <3>2. CASE wire' = Append(wire, [seq |-> L + 1, event |-> e])
      <4>1. [seq |-> L + 1, event |-> e] \in Deliveries
        BY <1>0 DEF Deliveries
      <4>2. \/ i \in 1 .. Len(wire) /\ wire'[i] = wire[i]
            \/ wire'[i] = [seq |-> L + 1, event |-> e]
        BY <1>0, <2>3, <3>2, <4>1
      <4>3. L + 1 # 0
        BY <1>0
      <4>4. QED BY <1>1, <2>3, <4>2, <4>3 DEF Kept
    <3>3. QED BY <3>1, <3>2 DEF Emit
  <2>4. ASSUME page.terminal = "completed"
        PROVE  /\ row.status = "completed"
               /\ \/ (\A j \in page.cursor .. L + 1 : new[j] = new[L + 1]) \/ L + 1 > Limit
                  \/ page.draft = <<>> /\ wire' = <<>> /\ gen'[page.try].pc = "done"
    <3>1. row.status = "completed"
      BY <1>1, <2>4 DEF Kept
    <3>2. CASE Final(drafts, page.cursor)
      BY <1>0, <1>10, <3>1, <3>2
    <3>3. CASE page.draft = <<>> /\ wire = <<>> /\ gen[page.try].pc = "done"
      <4>1. page.try # n
        BY <3>3
      <4>2. wire' = wire /\ gen'[page.try].pc = "done"
        BY <1>0, <3>3, <4>1 DEF Emit, Connected
      <4>3. QED BY <3>1, <3>3, <4>2
    <3>4. CASE L > Limit
      BY <1>0, <3>1, <3>4, StreamingAssumption
    <3>5. QED BY <1>1, <2>4, <3>1, <3>2, <3>3, <3>4 DEF Kept
  <2> HIDE DEF L
  <2>5. QED BY <1>2, <2>1, <2>2, <2>3, <2>4 DEF Kept, Final
<1>13. QED BY <1>6, <1>9, <1>12 DEF Follows

LEMMA FollowsGenerate ==
  ASSUME TypeOK, GeneratorsAgree, PageAgrees, CompletionAgrees, SlotAgrees, Follows, ~overtaken',
         TypeOK', GeneratorsAgree', SlotAgrees', NEW n \in Requests, Generate(n)
  PROVE  Follows'
<1> USE DEF requestVars, bounds
<1>0. /\ gen \in [Requests -> Generators] /\ gen[n] \in Generators /\ page.try \in Requests
      /\ UNCHANGED <<page, up>> /\ \A m \in Requests \ {n} : gen'[m] = gen[m]
      /\ \A m \in Requests : gen'[m].parts \in Parts
  <2>1. UNCHANGED <<page, up>>
    BY DEF Generate, Begin, Connect, Receive, Retry, Fail, Cancelled, Answer, CompleteRow,
           Publish, Announce, Close, Lose
  <2>2. \A m \in Requests : gen'[m].parts \in Parts
    <3>1. \A m \in Requests : gen'[m].attempt \in 1 .. Attempts /\ gen'[m].sent \in 0 .. Length
      BY DEF TypeOK, Generators, Requests
    <3>2. \A m \in Requests : gen'[m].parts = Part(m, gen'[m].attempt, gen'[m].sent)
      BY GenerateGen DEF GeneratorsAgree
    <3>3. QED BY <3>1, <3>2 DEF Parts
  <2>3. QED BY <2>1, <2>2, GenerateGen DEF TypeOK, Pages
<1>1. ASSUME NEW pc, Goto(n, pc)
      PROVE  gen'[n].pc = pc /\ gen'[n].parts = gen[n].parts
  BY <1>0, <1>1 DEF Goto, Generators
<1>2. ASSUME NEW t, End(n, t)
      PROVE  gen'[n].pc = "announcing" /\ gen'[n].parts = gen[n].parts
  BY <1>0, <1>2 DEF End, Generators
(* Only the generator that holds the slot has an effect on the history.    *)
<1>3. ASSUME gen[n].pc \in {"calling", "open"}
      PROVE  /\ gen[n].pc \in Live /\ \A m \in Requests \ {n} : gen[m].pc \notin Live
             /\ page.pc = "reading" => page.try = n
             /\ row.status # "completed"
  <2>1. /\ gen[n].pc \in Live /\ slot = n /\ \A m \in Requests : n < m => gen[m].pc = "none"
        /\ row.status = "started"
    BY <1>3 DEF SlotAgrees, Live
  <2>2. \A m \in Requests \ {n} : gen[m].pc \notin Live
    BY <2>1 DEF SlotAgrees
  <2>3. ASSUME page.pc = "reading", page.try # n PROVE FALSE
    <3>1. gen[page.try].pc # "none"
      BY <2>3 DEF PageAgrees
    <3>2. ~(n < page.try)
      BY <1>0, <2>1, <3>1
    <3>3. n > page.try
      BY <1>0, <2>3, <3>2 DEF Requests
    <3>4. gen[n] = NoGenerator
      BY <3>3 DEF GeneratorsAgree
    <3>5. QED BY <1>3, <3>4 DEF NoGenerator
  <2>4. QED BY <2>1, <2>2, <2>3
(* Steps that write nothing.                                               *)
<1>4. ASSUME UNCHANGED <<journal, wire>>, gen[n].pc # "done",
             gen'[n].pc \in Live => gen[n].pc \in Live /\ gen'[n].parts = gen[n].parts,
             row'.status = "completed" =>
               row.status = "completed" \/ (gen[n].pc \in Live /\ gen[n].parts \in stored)
      PROVE  Follows'
  <2>1. gen[page.try].pc = "done" => gen'[page.try].pc = "done"
    BY <1>0, <1>4
  <2>2. \A m \in Requests : gen'[m].pc \in Live =>
          gen[m].pc \in Live /\ gen'[m].parts = gen[m].parts
    BY <1>0, <1>4
  <2>3. /\ stored \subseteq stored' /\ (row.status = "completed" => row'.status = "completed")
        /\ up' => up
    BY <1>0, CompletedStays DEF Next
  <2>4. row'.status = "completed" =>
          row.status = "completed" \/ \E m \in Requests :
            gen[m].pc \in Live /\ gen[m].parts \in stored'
    BY <1>4, <2>3
  <2>5. QED BY <1>0, <1>4, <2>1, <2>2, <2>3, <2>4, FollowsQuietly
(* Steps that write an event. *)
<1>18. ASSUME NEW e \in Events, Emit(n, e), UNCHANGED <<row, stored>>,
              e.type = "completed" => row.status = "completed",
              gen[n].pc # "done", gen'[n].pc # "done",
              gen'[n].pc \in Live => gen[n].pc \in Live,
              NoEffect(n, e) \/ TellsPart(n, e)
       PROVE  Follows'
  <2>1. \A m \in Requests : gen'[m].pc \in Live => gen[m].pc \in Live
    BY <1>0, <1>18
  <2>2. QED BY <1>0, <1>18, <2>1, FollowsEmit
<1>5. CASE Begin(n)
  <2> DEFINE e == Event("started")
  <2>1. e \in Events /\ (\A draft : Effect(draft, e) = draft) /\ e.type # "completed"
    BY EventsAre DEF Effect, Event
  <2>2. /\ gen[n].pc = "new" /\ gen'[n].pc = "calling" /\ gen'[n].parts = gen[n].parts
        /\ Emit(n, e) /\ UNCHANGED <<row, stored>>
    BY <1>1, <1>5 DEF Begin
  <2> HIDE DEF e
  <2>3. QED BY <1>18, <2>1, <2>2 DEF NoEffect, Live
<1>6. CASE Connect(n)
  <2>1. gen'[n].pc = "open" /\ gen'[n].parts = gen[n].parts /\ gen[n].pc = "calling"
    BY <1>0, <1>6 DEF Connect, Generators
  <2>2. QED BY <1>4, <1>6, <2>1 DEF Connect, Live
<1>7. CASE Receive(n)
  <2> DEFINE c == Chunk(n, gen[n].attempt, gen[n].sent + 1)
             e == [Event("delta") EXCEPT !.chunk = c]
  <2>1. /\ gen[n].pc = "open" /\ Emit(n, e) /\ e \in Events /\ e.type = "delta"
        /\ UNCHANGED <<row, stored>>
    BY <1>7, ReceivedIsChunk, EventsAre DEF Receive
  <2>2. Effect(gen[n].parts, e) = Append(gen[n].parts, c)
    BY DEF Effect, Event
  <2>3. gen'[n].pc = "open" /\ gen'[n].parts = Append(gen[n].parts, c)
    BY <1>0, <1>7 DEF Receive, Generators
  <2> HIDE DEF e, c
  <2>4. TellsPart(n, e)
    BY <1>0, <1>3, <2>1, <2>2, <2>3 DEF TellsPart
  <2>5. QED BY <1>18, <2>1, <2>3, <2>4 DEF Live
<1>8. CASE Retry(n)
  <2>1. gen[n].pc \in {"calling", "open"} /\ gen'[n].pc = "calling" /\ gen'[n].parts = <<>>
    BY <1>0, <1>8 DEF Retry, Discard, Generators
  <2>2. CASE gen[n].sent > 0
    <3> DEFINE e == Event("reset")
    <3>1. Emit(n, e) /\ e \in Events /\ e.type = "reset" /\ UNCHANGED <<row, stored>>
      BY <1>8, <2>2, EventsAre DEF Retry, TellReset
    <3>2. Effect(gen[n].parts, e) = gen'[n].parts
      BY <2>1 DEF Effect, Event
    <3> HIDE DEF e
    <3>3. TellsPart(n, e)
      BY <1>0, <1>3, <2>1, <3>2 DEF TellsPart
    <3>4. QED BY <1>18, <2>1, <3>1, <3>3 DEF Live
  <2>3. CASE ~(gen[n].sent > 0)
    <3>1. gen[n].sent = 0
      BY <1>0, <2>3, StreamingAssumption DEF Generators
    <3>2. gen[n].parts = <<>>
      BY <3>1, PartIs DEF GeneratorsAgree
    <3>3. QED BY <1>4, <1>8, <2>1, <2>3, <3>2 DEF Retry, TellReset, Live
  <2>4. QED BY <2>2, <2>3
<1>19. \A code : \A status \in {"failed", "cancelled"} :
         Finish(n, status, code) => (row'.status = "completed" => row.status = "completed")
  BY DEF Finish
<1>9. CASE Fail(n)
  BY <1>2, <1>4, <1>9, <1>19 DEF Fail, Live
<1>10. CASE Cancelled(n)
  BY <1>2, <1>4, <1>10, <1>19 DEF Cancelled, Live
<1>11. CASE Answer(n)
  BY <1>1, <1>4, <1>11 DEF Answer, Live
<1>12. CASE CompleteRow(n)
  <2>1. gen[n].pc = "storing" /\ gen'[n].pc \in {"publishing", "announcing"}
        /\ gen'[n].parts = gen[n].parts /\ UNCHANGED <<journal, wire>>
    BY <1>1, <1>2, <1>12 DEF CompleteRow
  <2>2. gen[n].parts \in stored
    BY <2>1 DEF CompletionAgrees
  <2>3. QED BY <1>4, <2>1, <2>2 DEF Live
<1>13. CASE Publish(n)
  BY <1>2, <1>4, <1>13 DEF Publish, Live
<1>14. CASE Announce(n)
  <2> DEFINE e == Event(gen[n].last)
  <2>1. /\ gen[n].last \in Endings /\ gen[n].pc = "announcing" /\ Emit(n, e)
        /\ UNCHANGED <<row, stored>>
    BY <1>14 DEF Announce, GeneratorsAgree
  <2>2. e \in Events /\ (\A draft : Effect(draft, e) = draft) /\ e.type = gen[n].last
    BY <2>1, EventsAre DEF Effect, Event, Endings
  <2>3. gen'[n].pc = "ended" /\ gen'[n].parts = gen[n].parts
    BY <1>1, <1>14 DEF Announce
  <2>4. gen[n].last = "completed" => row.status = "completed"
    BY <2>1 DEF CompletionAgrees
  <2> HIDE DEF e
  <2>5. QED BY <1>18, <2>1, <2>2, <2>3, <2>4 DEF NoEffect, Live
<1>15. CASE Close(n)
  BY <1>1, <1>4, <1>15, <1>19 DEF Close, Live
<1>16. CASE Lose(n)
  BY <1>1, <1>4, <1>16 DEF Lose, Live
<1>17. QED
  BY <1>5, <1>6, <1>7, <1>8, <1>9, <1>10, <1>11, <1>12, <1>13, <1>14, <1>15, <1>16 DEF Generate

LEMMA TellsStill ==
  ASSUME NEW drafts, Tells(drafts), UNCHANGED <<gen, journal>>
  PROVE  Tells(drafts)'
BY DEF Tells, Effect

(* The page looks at no response: only what it shows is to be told.        *)
LEMMA FollowsAside ==
  ASSUME Follows, UNCHANGED <<gen, journal, row, stored>>, page'.pc # "reading", wire' = <<>>,
         \A drafts : Tells(drafts) /\ PageFollows(drafts) /\ Kept(drafts) =>
           /\ page'.draft = drafts[page'.cursor]
           /\ page'.terminal = "completed" =>
                /\ row.status = "completed"
                /\ \/ Final(drafts, page'.cursor) \/ Len(journal) > Limit
                   \/ page'.draft = <<>> /\ gen[page'.try].pc = "done"
  PROVE  Follows'
<1>1. PICK drafts : Tells(drafts) /\ PageFollows(drafts) /\ Kept(drafts)
  BY DEF Follows
<1>2. Tells(drafts)'
  BY <1>1, TellsStill
<1>3. PageFollows(drafts)'
  BY <1>1 DEF PageFollows
<1>4. Kept(drafts)'
  <2>1. \A i \in 1 .. Len(wire') : FALSE
    OBVIOUS
  <2>2. QED BY <1>1, <2>1 DEF Kept, Final
<1>5. QED BY <1>2, <1>3, <1>4 DEF Follows

LEMMA FollowsPost ==
  ASSUME TypeOK, GeneratorsAgree, PageAgrees, SlotAgrees, Follows, Post
  PROVE  Follows'
<1> DEFINE n == page.try
<1>0. /\ gen \in [Requests -> Generators] /\ n \in Requests /\ page \in Pages
      /\ page.cursor = 0 /\ page.draft = <<>> /\ gen[n] = NoGenerator
      /\ page.terminal = "none" /\ wire = <<>>
  BY DEF TypeOK, Pages, Post, PageAgrees, GeneratorsAgree
<1>1. \A pc : Become(pc) => /\ page'.pc = pc /\ page'.cursor = 0 /\ page'.draft = <<>>
                            /\ page'.try = n /\ page'.terminal = "none"
  BY <1>0 DEF Become, Pages
<1>2. CASE InUse
  <2>1. /\ UNCHANGED <<gen, journal, row, stored>> /\ page'.pc = "recovering" /\ page'.cursor = 0
        /\ page'.draft = <<>> /\ page'.terminal = "none" /\ wire' = <<>>
    BY <1>0, <1>1, <1>2 DEF Post
  <2>2. \A drafts : Tells(drafts) => drafts[0] = <<>>
    BY DEF Tells
  <2>3. QED BY <2>1, <2>2, FollowsAside
<1>3. CASE ~InUse /\ row.status = "completed"
  <2>1. /\ gen' = [gen EXCEPT ![n].pc = "done"] /\ UNCHANGED journal
        /\ wire' = <<[seq |-> 0, event |-> Event("completed")]>>
        /\ page'.cursor = 0 /\ page'.draft = <<>> /\ page'.try = n
    BY <1>1, <1>3 DEF Post
  <2>2. gen'[n].pc = "done" /\ \A m \in Requests \ {n} : gen'[m] = gen[m]
    BY <1>0, <2>1 DEF Generators
  <2>3. PICK drafts : Tells(drafts) /\ PageFollows(drafts) /\ Kept(drafts)
    BY DEF Follows
  <2>4. Tells(drafts)'
    <3>1. \A m \in Requests : gen'[m].pc \in Live => drafts[Len(journal)] = gen'[m].parts
      BY <2>2, <2>3 DEF Tells, Live
    <3>2. QED BY <2>1, <2>3, <3>1 DEF Tells, Live, Parts, Part, Chunk, Requests, Effect
  <2>5. PageFollows(drafts)'
    <3>1. drafts[0] = <<>>
      BY <2>3 DEF Tells
    <3>2. Len(wire') = 1 /\ wire'[1].seq = 0 /\ wire'[1].event = Event("completed")
      BY <2>1
    <3>3. \A i \in 1 .. Len(wire') : i = 1
      BY <3>2
    <3>4. gen'[page'.try].pc = "done"
      BY <2>1, <2>2
    <3>5. QED BY <2>1, <3>1, <3>2, <3>3, <3>4 DEF PageFollows, Event
  <2>6. Kept(drafts)'
    <3>1. UNCHANGED <<row, stored>> /\ page'.terminal = "none"
      BY <1>1, <1>3 DEF Post
    <3>2. QED BY <1>3, <2>1, <2>3, <3>1 DEF Kept, Final
  <2>7. QED BY <2>4, <2>5, <2>6 DEF Follows
<1>4. CASE ~InUse /\ row.status # "completed"
  <2>1. /\ gen' = [gen EXCEPT ![n].pc = "new"] /\ journal' = <<>> /\ wire' = <<>>
        /\ page'.cursor = 0 /\ page'.draft = <<>> /\ page'.try = n
    BY <1>1, <1>4 DEF Post
  <2>2. /\ gen'[n].pc = "new" /\ gen'[n].parts = <<>>
        /\ \A m \in Requests \ {n} : gen'[m] = gen[m]
    BY <1>0, <2>1 DEF Generators, NoGenerator
  <2>3. \A m \in Requests : gen[m].pc \notin Live
    BY <1>4, StreamingAssumption DEF SlotAgrees, InUse, Requests
  <2>4. PICK drafts : drafts = [i \in 0 .. 0 |-> <<>>]
    OBVIOUS
  <2>5. drafts[0] = <<>> /\ drafts \in [0 .. 0 -> Parts] /\ Len(journal') = 0 /\ Len(wire') = 0
    BY <2>1, <2>4, PartsHold
  <2>6. Tells(drafts)'
    <3>1. \A m \in Requests : gen'[m].pc \in Live => drafts[0] = gen'[m].parts
      BY <2>2, <2>3, <2>5
    <3>2. \A i \in 1 .. 0 : FALSE
      OBVIOUS
    <3>3. QED BY <2>5, <3>1, <3>2 DEF Tells, Live, Parts, Part, Chunk, Requests, Effect
  <2>7. PageFollows(drafts)'
    <3>1. \A i \in 1 .. 0 : FALSE
      OBVIOUS
    <3>2. QED BY <2>1, <2>5, <3>1 DEF PageFollows, Seen
  <2>8. Kept(drafts)'
    <3>1. row'.status = "started" /\ page'.terminal = "none"
      BY <1>1, <1>4 DEF Post
    <3>2. \A i \in 1 .. 0 : FALSE
      OBVIOUS
    <3>3. QED BY <2>5, <3>1, <3>2 DEF Kept
  <2>9. QED BY <2>6, <2>7, <2>8 DEF Follows
<1>5. QED BY <1>2, <1>3, <1>4

LEMMA FollowsRead ==
  ASSUME TypeOK, PageAgrees, Follows, Read
  PROVE  Follows'
<1> USE DEF requestVars, bounds
<1> DEFINE x == Head(wire)
           L == Len(journal)
<1>0. /\ wire \in Seq(Deliveries) /\ Len(wire) \in Nat /\ Len(wire) > 0 /\ x = wire[1]
      /\ x \in Deliveries /\ page \in Pages /\ L \in Nat /\ page.cursor \in 0 .. L
      /\ \A i \in 0 .. Len(wire) : Seen(i) \in 0 .. L
  BY InHistory DEF TypeOK, Read
<1>1. /\ page' = Consume(page, x) /\ wire' = Tail(wire)
      /\ UNCHANGED <<gen, journal, up, row, stored>>
      /\ page.pc = "reading"
  BY DEF Read
<1>2. /\ page'.pc = page.pc /\ page'.try = page.try
      /\ page'.cursor = IF x.seq <= page.cursor THEN page.cursor ELSE x.seq
      /\ page'.draft = IF x.seq # 0 /\ x.seq <= page.cursor THEN page.draft
                       ELSE Effect(page.draft, x.event)
  BY <1>0, <1>1, ConsumeIs
<1>9. page'.terminal = "completed" => page.terminal = "completed" \/ x.event.type = "completed"
  BY <1>0, <1>1, ConsumeIs
<1>3. Len(wire') = Len(wire) - 1 /\ \A i \in 1 .. Len(wire') : wire'[i] = wire[i + 1]
  BY <1>0, <1>1
<1>4. PICK drafts : Tells(drafts) /\ PageFollows(drafts) /\ Kept(drafts)
  BY DEF Follows
<1>5. Tells(drafts)'
  BY <1>1, <1>4, TellsStill
<1> HIDE DEF x
<1>6. CASE /\ page.cursor < x.seq /\ x.event = journal[x.seq]
           /\ drafts[x.seq - 1] = drafts[page.cursor]
  <2>1. x.seq \in 1 .. L
    <3>1. 1 \in 0 .. Len(wire) /\ Seen(1) = x.seq
      BY <1>0 DEF Seen
    <3>2. x.seq \in 0 .. L
      BY <1>0, <3>1
    <3>3. QED BY <1>0, <1>6, <3>2
  <2>2. page'.cursor = x.seq /\ page'.draft = Effect(page.draft, x.event)
    BY <1>0, <1>2, <1>6, <2>1
  <2>3. page'.draft = drafts[page'.cursor]
    <3>1. page.draft = drafts[page.cursor]
      BY <1>4 DEF PageFollows
    <3>2. drafts[x.seq] = Effect(drafts[x.seq - 1], journal[x.seq])
      BY <1>4, <2>1 DEF Tells
    <3>3. QED BY <1>6, <2>2, <3>1, <3>2
  <2>4. \A i \in 0 .. Len(wire') : Seen(i)' = Seen(i + 1)
    <3>1. Seen(0)' = Seen(1)
      BY <1>0, <2>2 DEF Seen
    <3>2. \A i \in 1 .. Len(wire') : Seen(i)' = Seen(i + 1)
      BY <1>0, <1>3 DEF Seen
    <3>3. \A i \in 0 .. Len(wire') : i = 0 \/ i \in 1 .. Len(wire')
      BY <1>0, <1>3
    <3>4. QED BY <3>1, <3>2, <3>3
  <2>5. ASSUME NEW i \in 1 .. Len(wire')
        PROVE  /\ Seen(i - 1)' < wire'[i].seq
               /\ wire'[i].event = journal'[wire'[i].seq]
               /\ drafts[wire'[i].seq - 1] = drafts[Seen(i - 1)']
    <3>1. i + 1 \in 1 .. Len(wire) /\ i + 1 - 1 = i /\ Len(wire) # 1 /\ i - 1 \in 0 .. Len(wire')
          /\ i - 1 + 1 = i
      <4>1. Len(wire) \in Nat /\ Len(wire) > 0 /\ Len(wire') = Len(wire) - 1
        BY <1>0, <1>3
      <4>2. i \in Nat /\ 1 <= i /\ i <= Len(wire) - 1
        BY <4>1
      <4>3. QED BY <4>1, <4>2
    <3>2. Seen(i - 1)' = Seen(i) /\ wire'[i] = wire[i + 1]
      BY <1>3, <2>4, <3>1
    <3>3. /\ Seen(i) < wire[i + 1].seq
          /\ wire[i + 1].event = journal[wire[i + 1].seq]
          /\ drafts[wire[i + 1].seq - 1] = drafts[Seen(i)]
      <4>1. \A j \in 1 .. Len(wire) :
              /\ Seen(j - 1) < wire[j].seq
              /\ wire[j].event = journal[wire[j].seq]
              /\ drafts[wire[j].seq - 1] = drafts[Seen(j - 1)]
        BY <1>1, <1>4, <3>1 DEF PageFollows
      <4>2. QED BY <3>1, <4>1
    <3>4. QED BY <1>1, <3>2, <3>3
  <2>6. Seen(Len(wire))' = Seen(Len(wire))
    <3>1. Len(wire') + 1 = Len(wire) /\ Len(wire) - 1 \in 0 .. Len(wire) - 1
      <4>1. Len(wire) \in Nat /\ Len(wire) > 0 /\ Len(wire') = Len(wire) - 1
        BY <1>0, <1>3
      <4>2. QED BY <4>1
    <3>2. QED BY <1>3, <2>4, <3>1
  <2>7. up' /\ gen'[page'.try].pc # "done" => drafts[L] = drafts[Seen(Len(wire))']
    BY <1>1, <1>2, <1>4, <2>6 DEF PageFollows
  <2>8. PageFollows(drafts)'
    BY <1>1, <2>3, <2>5, <2>7 DEF PageFollows, Event
  <2>9. \A i \in 1 .. Len(wire') : wire'[i].seq # 0
    <3>1. ASSUME NEW i \in 1 .. Len(wire') PROVE wire'[i].seq # 0
      <4>1. i - 1 \in 0 .. Len(wire') /\ i - 1 + 1 \in 0 .. Len(wire)
        BY <1>0, <1>3
      <4>2. Seen(i - 1)' \in 0 .. L
        BY <1>0, <2>4, <4>1
      <4>3. Seen(i - 1)' < wire'[i].seq
        BY <2>5
      <4>4. QED BY <1>0, <4>2, <4>3
    <3>2. QED BY <3>1
  <2>10. ASSUME page'.terminal = "completed"
         PROVE  row.status = "completed" /\ (Final(drafts, x.seq) \/ L > Limit)
    <3>1. CASE page.terminal = "completed"
      <4>1. wire # <<>>
        BY <1>0
      <4>2. row.status = "completed" /\ (Final(drafts, page.cursor) \/ L > Limit)
        BY <1>4, <3>1, <4>1 DEF Kept
      <4>3. \A j \in x.seq .. L : j \in page.cursor .. L
        BY <1>0, <1>6, <2>1
      <4>4. QED BY <4>2, <4>3 DEF Final
    <3>2. CASE x.event.type = "completed"
      BY <1>4, <1>6, <2>1, <3>2 DEF Kept
    <3>3. QED BY <1>9, <2>10, <3>1, <3>2
  <2>11. Kept(drafts)'
    BY <1>1, <1>4, <2>2, <2>9, <2>10 DEF Kept, Final
  <2>12. QED BY <1>5, <2>8, <2>11 DEF Follows
<1>7. CASE /\ Len(wire) = 1 /\ x.seq = 0 /\ x.event = Event("completed")
           /\ gen[page.try].pc = "done"
  <2>1. page'.cursor = page.cursor /\ page'.draft = page.draft
    BY <1>0, <1>2, <1>7 DEF Effect, Event
  <2>2. \A i \in 1 .. Len(wire') : FALSE
    BY <1>3, <1>7
  <2>3. PageFollows(drafts)'
    BY <1>1, <1>2, <1>4, <1>7, <2>1, <2>2 DEF PageFollows
  <2>4. wire' = <<>>
    BY <1>0, <1>1, <1>7
  <2>5. row.status = "completed" /\ page.draft = <<>>
    <3>1. 1 \in 1 .. Len(wire) /\ wire[1].seq = 0
      BY <1>0, <1>7
    <3>2. QED BY <1>4, <3>1 DEF Kept
  <2>6. Kept(drafts)'
    BY <1>1, <1>2, <1>4, <1>7, <2>1, <2>2, <2>4, <2>5 DEF Kept, Final
  <2>7. QED BY <1>5, <2>3, <2>6 DEF Follows
<1>8. QED
  <2>1. 1 \in 1 .. Len(wire) /\ Seen(1 - 1) = page.cursor
    BY <1>0 DEF Seen
  <2>2. QED BY <1>0, <1>1, <1>4, <1>6, <1>7, <2>1 DEF PageFollows

LEMMA FollowsPage ==
  ASSUME TypeOK, GeneratorsAgree, PageAgrees, SlotAgrees, Follows,
         Send \/ Drop \/ PollFails \/ Stop \/ Restart \/ UNCHANGED vars
  PROVE  Follows'
<1> USE DEF requestVars, bounds
<1>0. page \in Pages /\ journal \in Seq(Events) /\ (page.pc # "reading" => wire = <<>>)
  BY DEF TypeOK, PageAgrees
<1>1. \A pc : Become(pc) => /\ page'.pc = pc /\ page'.cursor = page.cursor /\ page'.try = page.try
                            /\ page'.draft = page.draft /\ page'.terminal = page.terminal
  BY <1>0 DEF Become, Pages
<1>12. Upto(page) = Len(journal) \/ Len(journal) > Limit
  BY <1>0, MissedIs DEF PageAgrees, Pages
(* Who knows of a completion, or reads of it in the journal. *)
<1>2. ASSUME NEW drafts, Tells(drafts), PageFollows(drafts), Kept(drafts)
      PROVE  /\ page.draft = drafts[page.cursor] /\ drafts[0] = <<>>
             /\ Recovered(page).draft = drafts[Upto(page)]
             /\ page.terminal = "completed" =>
                  /\ row.status = "completed"
                  /\ \/ Final(drafts, page.cursor) \/ Len(journal) > Limit
                     \/ page.draft = <<>> /\ gen[page.try].pc = "done"
             /\ Recovered(page).terminal = "completed" => row.status = "completed"
             /\ Final(drafts, Upto(page)) \/ Len(journal) > Limit
  <2>1. page.draft = drafts[page.cursor] /\ drafts[0] = <<>>
    BY <1>2 DEF Tells, PageFollows
  <2>2. Recovered(page).draft = drafts[Upto(page)]
    BY <1>2, <2>1, RecoveredIs, MissedShows DEF PageAgrees, Tells
  <2>3. page.terminal = "completed" =>
          /\ row.status = "completed"
          /\ \/ Final(drafts, page.cursor) \/ Len(journal) > Limit
             \/ page.draft = <<>> /\ gen[page.try].pc = "done"
    BY <1>2 DEF Kept
  <2>4. Missed(page).terminal = "completed" => row.status = "completed"
    BY <1>2, <2>3, MissedShows DEF PageAgrees, Kept
  <2>5. Recovered(page).terminal = "completed" => row.status = "completed"
    BY <2>4, RecoveredIs
  <2>6. Final(drafts, Upto(page)) \/ Len(journal) > Limit
    <3>1. \A j \in Len(journal) .. Len(journal) : j = Len(journal)
      BY <1>0
    <3>2. QED BY <1>12, <3>1 DEF Final
  <2>7. QED BY <2>1, <2>2, <2>3, <2>5, <2>6
<1>3. ASSUME UNCHANGED <<gen, journal, row, stored>>, page'.pc # "reading", wire' = <<>>,
             \/ /\ page'.cursor = page.cursor /\ page'.draft = page.draft
                /\ page'.terminal = page.terminal /\ page'.try = page.try
             \/ /\ page'.cursor = Upto(page) /\ page'.draft = Recovered(page).draft
                /\ page'.terminal = Recovered(page).terminal
             \/ page'.cursor = 0 /\ page'.draft = <<>> /\ page'.terminal = "none"
      PROVE  Follows'
  <2>1. ASSUME NEW drafts, Tells(drafts), PageFollows(drafts), Kept(drafts)
        PROVE  /\ page'.draft = drafts[page'.cursor]
               /\ page'.terminal = "completed" =>
                    /\ row.status = "completed"
                    /\ \/ Final(drafts, page'.cursor) \/ Len(journal) > Limit
                       \/ page'.draft = <<>> /\ gen[page'.try].pc = "done"
    BY <1>2, <1>3, <2>1
  <2>2. QED BY <1>3, <2>1, FollowsAside
<1>4. CASE Poll
  <2>1. /\ UNCHANGED <<gen, journal, row, stored>> /\ page'.pc # "reading" /\ wire' = <<>>
        /\ page'.cursor = Upto(page) /\ page'.draft = Recovered(page).draft
        /\ page'.terminal = Recovered(page).terminal
    BY <1>0, <1>4, RecoveredIs DEF Poll, Pages
  <2>2. QED BY <1>3, <2>1
<1>5. CASE Settle
  <2>1. ASSUME NEW p \in Pages, page' = Settled(p),
               p = page \/ p = Recovered(page)
        PROVE  Follows'
    <3>1. /\ UNCHANGED <<gen, journal, row, stored>> /\ wire' = <<>>
      BY <1>0, <1>5 DEF Settle
    <3>2. /\ page'.pc # "reading"
          /\ \/ page'.cursor = 0 /\ page'.draft = <<>> /\ page'.terminal = "none"
             \/ /\ page'.cursor = p.cursor /\ page'.draft = p.draft
                /\ page'.terminal = p.terminal /\ page'.try = p.try
      BY <2>1, SettledIs DEF Endings
    <3>3. Recovered(page).cursor = Upto(page)
      BY RecoveredIs
    <3>4. QED BY <1>3, <2>1, <3>1, <3>2, <3>3
  <2>2. QED BY <1>0, <1>5, <2>1, RecoveredIs DEF Settle
<1>6. CASE StreamEnds \/ StreamBreaks \/ PollFails
  BY <1>0, <1>1, <1>3, <1>6 DEF StreamEnds, StreamBreaks, PollFails
<1>7. CASE Drop
  BY <1>7, FollowsQuietly DEF Drop
<1>8. CASE Stop
  <2>1. CASE Become("cancelled") /\ wire' = <<>>
    BY <1>1, <1>3, <1>8, <2>1 DEF Stop
  <2>2. CASE UNCHANGED <<page, up, wire>>
    BY <1>8, <2>2, FollowsQuietly DEF Stop
  <2>3. QED BY <1>8, <2>1, <2>2 DEF Stop
<1>9. CASE Restart
  <2>1. \A m \in Requests : gen'[m].pc \in {"none", "done"} /\ (gen[m].pc = "done" => gen'[m].pc = "done")
    BY <1>9 DEF Restart, TypeOK, Generators
  <2>2. page.try \in Requests
    BY <1>0 DEF Pages
  <2>3. /\ UNCHANGED <<journal, wire, page, stored>> /\ ~up'
        /\ row'.status = "completed" <=> row.status = "completed"
    BY <1>9 DEF Restart
  <2>4. QED BY <2>1, <2>2, <2>3, FollowsQuietly DEF Live
<1>10. CASE UNCHANGED vars
  BY <1>10, FollowsQuietly DEF vars
<1>11. QED
  BY <1>4, <1>5, <1>6, <1>7, <1>8, <1>9, <1>10, FollowsPost, FollowsRead DEF Send

-----------------------------------------------------------------------------
(* The theorems. *)

(* The invariant holds in every behaviour of the page and its generators. *)
THEOREM StreamInvariant == Spec => []StreamInv
<1> USE StreamingAssumption
<1>1. Init => StreamInv
  <2> SUFFICES ASSUME Init PROVE StreamInv
    OBVIOUS
  <2>1. TypeOK
    <3>1. 1 \in 1 .. Attempts /\ 0 \in 0 .. Length /\ 1 \in Requests
      BY DEF Requests
    <3>2. <<>> \in Seq(Chunks) /\ <<>> \in Seq(Events) /\ <<>> \in Seq(Deliveries)
      OBVIOUS
    <3>3. NoGenerator \in Generators
      BY <3>1, <3>2 DEF NoGenerator, Generators
    <3>4. page \in Pages
      BY <3>1, <3>2 DEF Init, Pages, Codes
    <3>5. gen \in [Requests -> Generators]
      BY <3>3 DEF Init
    <3>6. row \in [status : {"none", "started"} \cup Endings, code : Codes]
      BY DEF Init, Codes
    <3>7. QED BY <3>2, <3>4, <3>5, <3>6 DEF Init, TypeOK
  <2>2. \A n \in Requests : gen[n] = NoGenerator
    BY DEF Init
  <2>3. GeneratorsAgree
    <3>1. \A n \in Requests : Part(n, 1, 0) = <<>>
      BY PartIs
    <3>2. QED BY <2>2, <3>1 DEF GeneratorsAgree, NoGenerator
  <2>4. PageAgrees
    BY DEF Init, PageAgrees
  <2>5. StoredAnswersAreWhole /\ AnswerIsRecorded
    BY DEF Init, StoredAnswersAreWhole, AnswerIsRecorded
  <2>6. SlotAgrees
    BY <2>2 DEF SlotAgrees, NoGenerator, Live
  <2>7. Follows
    <3>1. PICK drafts : drafts = [i \in 0 .. 0 |-> <<>>]
      OBVIOUS
    <3>2. drafts[0] = <<>> /\ drafts \in [0 .. 0 -> Parts] /\ Len(journal) = 0
      BY <2>1, <2>3, <3>1, PartsHold DEF Init
    <3>3. \A i \in 1 .. 0 : FALSE
      OBVIOUS
    <3>4. Tells(drafts)
      BY <2>2, <3>2, <3>3 DEF Tells, NoGenerator, Live
    <3>5. PageFollows(drafts)
      BY <3>2 DEF Init, PageFollows
    <3>6. Kept(drafts)
      BY <3>2, <3>3 DEF Init, Kept
    <3>7. QED BY <3>4, <3>5, <3>6 DEF Follows
  <2>8. CompletionAgrees
    BY <2>2 DEF CompletionAgrees, NoGenerator
  <2>9. QED BY <2>1, <2>3, <2>4, <2>5, <2>6, <2>7, <2>8 DEF StreamInv
<1>2. StreamInv /\ [Next]_vars => StreamInv'
  <2> SUFFICES ASSUME StreamInv, [Next]_vars PROVE StreamInv'
    OBVIOUS
  <2>1. /\ TypeOK /\ GeneratorsAgree /\ PageAgrees /\ StoredAnswersAreWhole /\ CompletionAgrees
        /\ ~overtaken => SlotAgrees /\ Follows /\ (crashes = 0 => AnswerIsRecorded)
    BY DEF StreamInv
  <2>2. TypeOK' /\ GeneratorsAgree' /\ PageAgrees' /\ StoredAnswersAreWhole' /\ CompletionAgrees'
    BY <2>1, TypeStep, GeneratorsStep, PageStep, WholeStep, CompletionStep
  <2>3. ASSUME ~overtaken'
        PROVE  SlotAgrees' /\ Follows' /\ (crashes' = 0 => AnswerIsRecorded')
    <3>1. SlotAgrees /\ Follows /\ (crashes = 0 => AnswerIsRecorded)
      BY <2>1, <2>3, OvertakenStep
    <3>2. SlotAgrees'
      BY <2>1, <2>3, <3>1, SlotStep
    <3>3. Follows'
      BY <2>1, <2>2, <2>3, <3>1, <3>2, FollowsGenerate, FollowsPage DEF Next
    <3>4. ASSUME crashes' = 0 PROVE AnswerIsRecorded'
      <4>1. crashes = 0
        <5>1. crashes' = crashes \/ crashes' = crashes + 1
          <6>1. \A n \in Requests : Generate(n) => crashes' = crashes
            BY <2>1, GenerateGen
          <6>2. QED
            BY <6>1 DEF Next, Send, Post, Read, StreamEnds, StreamBreaks, Poll, Settle, Drop,
                        PollFails, Stop, Lost, Restart, vars, bounds
        <5>2. crashes \in Nat
          BY <2>1 DEF TypeOK
        <5>3. QED BY <3>4, <5>1, <5>2
      <4>2. QED BY <2>1, <2>3, <3>1, <3>4, <4>1, RecordStep
    <3>5. QED BY <3>2, <3>3, <3>4
  <2>4. QED BY <2>2, <2>3 DEF StreamInv
<1>3. QED BY <1>1, <1>2, PTL DEF Spec

(* Whatever breaks on either side, as long as no generator ends the        *)
(* request of another the page shows the beginning of one answer.          *)
THEOREM StreamDraftIsOneAnswer == Spec => []DraftIsOneAnswer
<1>1. StreamInv => DraftIsOneAnswer
  <2> SUFFICES ASSUME StreamInv, ~overtaken
               PROVE  \E n \in Requests, k \in 1 .. Attempts : IsPrefix(page.draft, Whole(n, k))
    BY DEF DraftIsOneAnswer
  <2>1. PICK drafts : Tells(drafts) /\ PageFollows(drafts)
    BY DEF StreamInv, Follows
  <2>2. page.draft \in Parts
    <3>1. page.cursor \in 0 .. Len(journal)
      BY InHistory DEF StreamInv
    <3>2. QED BY <2>1, <3>1 DEF Tells, PageFollows
  <2>3. PICK n \in Requests, k \in 1 .. Attempts, m \in 0 .. Length : page.draft = Part(n, k, m)
    BY <2>2 DEF Parts
  <2>4. QED BY <2>3, PartBeginsWhole
<1>2. QED BY <1>1, StreamInvariant, PTL

(* A stored answer is all that the provider has sent for it, up to [DONE]  *)
(* or the end of the body.                                                 *)
THEOREM StreamStoredAnswersAreWhole == Spec => []StoredAnswersAreWhole
<1>1. StreamInv => StoredAnswersAreWhole
  BY DEF StreamInv
<1>2. QED BY <1>1, StreamInvariant, PTL

(* One sending, however often it is tried, stores at most one answer.      *)
THEOREM StreamAnsweredOnce == Spec => []AnsweredOnce
<1>1. StreamInv => AnsweredOnce
  <2> SUFFICES ASSUME StreamInv, crashes = 0, ~overtaken PROVE Cardinality(stored) <= 1
    BY DEF AnsweredOnce
  <2>1. stored = {} \/ \E parts : stored = {parts}
    BY DEF StreamInv, AnswerIsRecorded
  <2>2. Cardinality({}) = 0
    BY FS_EmptySet
  <2>3. \A parts : Cardinality({parts}) = 1
    BY FS_Singleton
  <2>4. CASE stored = {}
    BY <2>2, <2>4
  <2>5. CASE \E parts : stored = {parts}
    <3>1. PICK parts : stored = {parts}
      BY <2>5
    <3>2. Cardinality(stored) = 1
      BY <2>3, <3>1
    <3>3. QED BY <3>2
  <2>6. QED BY <2>1, <2>4, <2>5
<1>2. QED BY <1>1, StreamInvariant, PTL

(* A page that has been told of the completion shows the stored answer, or *)
(* has shown nothing.                                                      *)
THEOREM StreamDraftIsStored == Spec => []DraftIsStored
<1>1. StreamInv => DraftIsStored
  <2> SUFFICES ASSUME StreamInv, page.pc = "completed", ~overtaken
               PROVE  page.draft \in stored \cup {<<>>} \/ Len(journal) > Limit
    BY DEF DraftIsStored
  <2>1. PICK drafts : PageFollows(drafts) /\ Kept(drafts)
    BY DEF StreamInv, Follows
  <2>2. page.terminal = "completed"
    BY DEF StreamInv, PageAgrees
  <2>3. row.status = "completed" /\ drafts[Len(journal)] \in stored
    BY <2>1, <2>2 DEF Kept
  <2>4. ASSUME Final(drafts, page.cursor) PROVE page.draft \in stored
    <3>1. page.cursor \in 0 .. Len(journal)
      BY InHistory DEF StreamInv
    <3>2. page.cursor \in page.cursor .. Len(journal)
      BY <3>1
    <3>3. page.draft = drafts[Len(journal)]
      BY <2>1, <2>4, <3>2 DEF PageFollows, Final
    <3>4. QED BY <2>3, <3>3
  <2>5. QED BY <2>1, <2>2, <2>4 DEF Kept
<1>2. QED BY <1>1, StreamInvariant, PTL
=============================================================================
