---------------------------- MODULE ChatStreaming ----------------------------
(***************************************************************************)
(* One message sent from the web interface, from the provider's stream to  *)
(* the text on the screen: stream_events of api/llm.py, which connects     *)
(* again when a stream breaks; the generator of _stream_chat in            *)
(* api/app.py; the journal of its events in graph_core/store.py; and       *)
(* send and stopGenerating of the web page, which read the live stream,    *)
(* fall back on the journal and repeat the request with the same key.      *)
(*                                                                         *)
(* Request n of the page is served by generator n.  A generator is         *)
(* suspended at every yield and may be closed there once its connection    *)
(* to the browser is gone.  _chat_begin and _chat_finish are one step      *)
(* each: ChatRequests takes them apart.  Events that only show progress    *)
(* and the choice of the network route are left out.                       *)
(***************************************************************************)
EXTENDS Integers, Sequences, SequencesExt, FiniteSets

CONSTANTS Tries,      \* requests that the page makes for a message
          Attempts,   \* CONNECT_RETRY_ATTEMPTS of a generator
          Length,     \* chunks in an answer of the provider
          Limit,      \* events that one look at the journal returns
          MaxLosses,  \* bound: failures between the browser and the server
          MaxCrashes  \* bound: restarts of the process

ASSUME StreamingAssumption == /\ Tries \in Nat \ {0} /\ Attempts \in Nat \ {0}
                              /\ Length \in Nat \ {0} /\ Limit \in Nat \ {0}
                              /\ MaxLosses \in Nat /\ MaxCrashes \in Nat

VARIABLES
  row,        \* chat_requests: status and error_code
  journal,    \* chat_stream_events; the sequence of an event is its index
  slot,       \* chat_active[key]: the generator whose Event it is, or 0
  gen,        \* each generator
  stopped,    \* generators whose Event is set
  stored,     \* assistant messages of the conversation
  wire, up,   \* the response to the page: events under way, not broken
  page,       \* send
  cut,        \* history: connections that ended before [DONE]
  overtaken,  \* history: a generator has ended the request of another
  losses, crashes

vars == <<row, journal, slot, gen, stopped, stored, wire, up, page, cut, overtaken,
          losses, crashes>>

Requests == 1 .. Tries
Chunk(n, k, i) == <<n, k, i>>  \* the i-th of generator n's k-th connection
Whole(n, k) == [i \in 1 .. Length |-> Chunk(n, k, i)]

NoGenerator == [pc |-> "none", attempt |-> 1, sent |-> 0,
                parts |-> <<>>, last |-> "none"]
Init == /\ row = [status |-> "none", code |-> "none"] /\ journal = <<>> /\ slot = 0
        /\ gen = [n \in Requests |-> NoGenerator] /\ stopped = {} /\ stored = {}
        /\ wire = <<>> /\ up = FALSE
        /\ page = [pc |-> "posting", try |-> 1, cursor |-> 0, draft |-> <<>>,
                   terminal |-> "none", code |-> "none"]
        /\ cut = {} /\ overtaken = FALSE /\ losses = 0 /\ crashes = 0

requestVars == <<row, slot, overtaken>>
bounds == <<losses, crashes>>
-----------------------------------------------------------------------------
(* The server: the life of generator n.                                    *)

(* _chat_sse: an event is written to the journal, then to the response.    *)
Event(type) == [type |-> type, chunk |-> <<>>]
Connected(n) == up /\ page.try = n
Emit(n, e) == /\ journal' = Append(journal, e)
              /\ wire' = IF Connected(n)
                         THEN Append(wire, [seq |-> Len(journal) + 1, event |-> e]) ELSE wire

(* _chat_finish without a result: the slot goes, whoever holds it by now,  *)
(* and the row is finished if it is started.  Mutant: only the slot.       *)
Finish_SlotOnly(n, status, code) ==
  /\ slot' = 0 /\ UNCHANGED row
  /\ overtaken' = (overtaken \/ slot \notin {0, n})
Finish(n, status, code) ==
  /\ slot' = 0
  /\ row' = IF row.status = "started" THEN [status |-> status, code |-> code] ELSE row
  /\ overtaken' = (overtaken \/ slot \notin {0, n})

Goto(n, pc) == gen' = [gen EXCEPT ![n].pc = pc]
End(n, type) == gen' = [gen EXCEPT ![n].pc = "announcing", ![n].last = type]

Begin(n) == /\ gen[n].pc = "new" /\ Goto(n, "calling") /\ Emit(n, Event("started"))
            /\ UNCHANGED <<requestVars, stopped, stored, up, page, cut, bounds>>

(* The provider accepts the request; an option that it rejects is left out *)
(* and the request made again at once, which changes nothing here.         *)
Connect(n) == /\ gen[n].pc = "calling" /\ n \notin stopped
              /\ gen' = [gen EXCEPT ![n].pc = "open", ![n].sent = 0]
              /\ UNCHANGED <<requestVars, journal, stopped, stored, wire, up, page, cut, bounds>>

(* A chunk of the answer arrives.                                          *)
Receive(n) == LET c == Chunk(n, gen[n].attempt, gen[n].sent + 1) IN
  /\ gen[n].pc = "open" /\ n \notin stopped /\ gen[n].sent < Length
  /\ gen' = [gen EXCEPT ![n].sent = @ + 1, ![n].parts = Append(@, c)]
  /\ Emit(n, [Event("delta") EXCEPT !.chunk = c])
  /\ UNCHANGED <<requestVars, stopped, stored, up, page, cut, bounds>>

(* A failure that may be transient is retried from the start: what came    *)
(* through is discarded, here and by those who read the events.  Mutants:  *)
(* it is kept here; the readers are not told.                              *)
Discard_Nothing(parts) == parts
Discard(parts) == <<>>
TellReset_Never(n) == UNCHANGED <<journal, wire>>
TellReset(n) == IF gen[n].sent > 0 THEN Emit(n, Event("reset")) ELSE UNCHANGED <<journal, wire>>

Retry(n) == /\ gen[n].pc \in {"calling", "open"} /\ n \notin stopped
            /\ gen[n].attempt < Attempts /\ TellReset(n)
            /\ gen' = [gen EXCEPT ![n].pc = "calling", ![n].attempt = @ + 1, ![n].sent = 0,
                                  ![n].parts = Discard(@)]
            /\ UNCHANGED <<requestVars, stopped, stored, up, page, cut, bounds>>

(* Any failure that is not retried, and an answer without content.         *)
Fail(n) == /\ gen[n].pc \in {"calling", "open"}
           /\ Finish(n, "failed", "aiUnavailable") /\ End(n, "failed")
           /\ UNCHANGED <<journal, stopped, stored, wire, up, page, cut, bounds>>

(* The Event is looked at before and after whatever the provider sends.    *)
Cancelled(n) == /\ gen[n].pc \in {"calling", "open"} /\ n \in stopped
                /\ Finish(n, "cancelled", "chatCancelled") /\ End(n, "cancelled")
                /\ UNCHANGED <<journal, stopped, stored, wire, up, page, cut, bounds>>

(* The provider has sent [DONE], or the body has just ended: what has come *)
(* is the answer.                                                          *)
Answer(n) == /\ gen[n].pc = "open" /\ n \notin stopped /\ gen[n].sent > 0
             /\ stored' = stored \cup {gen[n].parts} /\ Goto(n, "storing")
             /\ cut' = IF gen[n].sent < Length THEN cut \cup {<<n, gen[n].attempt>>} ELSE cut
             /\ UNCHANGED <<requestVars, journal, stopped, wire, up, page, bounds>>

CompleteRow(n) ==
  /\ gen[n].pc = "storing"
  /\ IF row.status = "started"
     THEN /\ row' = [status |-> "completed", code |-> "none"] /\ Goto(n, "publishing")
          /\ UNCHANGED <<slot, overtaken>>
     ELSE Finish(n, "failed", "aiUnavailable") /\ End(n, "failed")
  /\ UNCHANGED <<journal, stopped, stored, wire, up, page, cut, bounds>>

Publish(n) == /\ gen[n].pc = "publishing" /\ End(n, "completed")
              /\ slot' = 0 /\ overtaken' = (overtaken \/ slot \notin {0, n})
              /\ UNCHANGED <<row, journal, stopped, stored, wire, up, page, cut, bounds>>

Announce(n) == /\ gen[n].pc = "announcing" /\ Goto(n, "ended") /\ Emit(n, Event(gen[n].last))
               /\ UNCHANGED <<requestVars, stopped, stored, up, page, cut, bounds>>

(* The finally clause, when the generator is resumed after its last event  *)
(* or closed, now or earlier; one that was never started runs nothing.     *)
Close(n) == /\ \/ gen[n].pc = "ended"
               \/ gen[n].pc \in {"calling", "open"} /\ ~Connected(n)
            /\ Finish(n, "failed", "chatInterrupted") /\ Goto(n, "done")
            /\ UNCHANGED <<journal, stopped, stored, wire, up, page, cut, bounds>>

Lose(n) == /\ gen[n].pc = "new" /\ ~Connected(n) /\ Goto(n, "lost")
           /\ UNCHANGED <<requestVars, journal, stopped, stored, wire, up, page, cut, bounds>>
-----------------------------------------------------------------------------
(* The page.                                                               *)

Become(pc) == page' = [page EXCEPT !.pc = pc]
Lost == losses < MaxLosses /\ losses' = losses + 1 /\ UNCHANGED crashes

(* _chat_begin: the key is in use, or completed, or its row is (re)opened, *)
(* and the events of the request before are deleted.  Mutant: the slot is  *)
(* not looked at.                                                          *)
InUse_Never == FALSE
InUse == slot # 0

Post == LET n == page.try IN
  /\ page.pc = "posting"
  /\ \/ /\ InUse /\ Become("recovering")
        /\ UNCHANGED <<row, journal, slot, gen, wire, up>>
     \/ /\ ~InUse /\ row.status = "completed" /\ Become("reading") /\ up' = TRUE
        /\ wire' = <<[seq |-> 0, event |-> Event("completed")]>>
        /\ gen' = [gen EXCEPT ![n].pc = "done"]
        /\ UNCHANGED <<row, journal, slot>>
     \/ /\ row.status # "completed" /\ ~InUse /\ Become("reading") /\ up' = TRUE
        /\ row' = [status |-> "started", code |-> "none"] /\ journal' = <<>>
        /\ slot' = n /\ gen' = [gen EXCEPT ![n].pc = "new"] /\ wire' = <<>>
  /\ UNCHANGED <<stopped, stored, cut, overtaken, bounds>>

(* consumeStreamEvent: an event that was seen is skipped.                  *)
Consume(p, x) ==
  IF x.seq # 0 /\ x.seq <= p.cursor THEN p
  ELSE [p EXCEPT !.cursor = IF x.seq = 0 THEN @ ELSE x.seq,
                 !.draft = IF x.event.type = "reset" THEN <<>>
                           ELSE IF x.event.type = "delta" THEN Append(@, x.event.chunk) ELSE @,
                 !.terminal = IF x.event.type \in {"completed", "failed", "cancelled"}
                              THEN x.event.type ELSE @,
                 !.code = IF x.event.type = "failed" THEN "aiUnavailable" ELSE @]

Read == /\ page.pc = "reading" /\ wire # <<>>
        /\ page' = Consume(page, Head(wire)) /\ wire' = Tail(wire)
        /\ UNCHANGED <<requestVars, journal, gen, stopped, stored, up, cut, bounds>>

(* The response ends with its generator, or it breaks.                     *)
StreamEnds == /\ page.pc = "reading" /\ wire = <<>> /\ up /\ gen[page.try].pc = "done"
              /\ up' = FALSE /\ Become("settling")
              /\ UNCHANGED <<requestVars, journal, gen, stopped, stored, wire, cut, bounds>>

Drop == /\ up /\ page.pc = "reading" /\ up' = FALSE /\ Lost
        /\ UNCHANGED <<requestVars, journal, gen, stopped, stored, wire, page, cut>>

StreamBreaks == /\ page.pc = "reading" /\ ~up /\ wire' = <<>> /\ Become("recovering")
                /\ UNCHANGED <<requestVars, journal, gen, stopped, stored, up, cut, bounds>>

(* recoverEvents: the next events after the last one seen, then the        *)
(* status.  Mutant: the status alone.                                      *)
Upto(p) == IF p.cursor + Limit < Len(journal) THEN p.cursor + Limit ELSE Len(journal)
Missed(p) ==
  LET after[i \in p.cursor .. Upto(p)] ==
        IF i = p.cursor THEN p ELSE Consume(after[i - 1], [seq |-> i, event |-> journal[i]])
  IN  after[Upto(p)]
Recovered_Status(p) == IF row.status = "started" THEN p
                       ELSE [p EXCEPT !.terminal = row.status]
Recovered(p) ==
  LET q == Missed(p) IN
    IF row.status = "started" THEN q
    ELSE [q EXCEPT !.terminal = row.status,
                   !.code = IF row.status = "failed" /\ @ = "none" THEN row.code ELSE @]

(* After a broken stream the page polls until the request is not started.  *)
Poll == /\ page.pc = "recovering" /\ row.status # "none"
        /\ page' = [Recovered(page) EXCEPT
                      !.pc = IF row.status = "started" THEN "recovering" ELSE "settling"]
        /\ UNCHANGED <<requestVars, journal, gen, stopped, stored, wire, up, cut, bounds>>

PollFails == /\ page.pc = "recovering" /\ Lost
             /\ Become(IF page.try = Tries THEN "error" ELSE "settling")
             /\ UNCHANGED <<requestVars, journal, gen, stopped, stored, wire, up, cut>>

(* An end that is known is shown; without one the page looks once more,    *)
(* and repeats the request unless it was the last.                         *)
Known(p) == \/ p.terminal \in {"completed", "cancelled"}
            \/ p.terminal = "failed" /\ p.code # "chatInterrupted"
Settled(p) ==
  IF Known(p) THEN [p EXCEPT !.pc = IF p.terminal = "failed" THEN "error" ELSE p.terminal]
  ELSE IF p.try = Tries THEN [p EXCEPT !.pc = "error"]
  ELSE [p EXCEPT !.pc = "posting", !.try = @ + 1, !.cursor = 0, !.draft = <<>>,
                 !.terminal = "none", !.code = "none"]

Settle == /\ page.pc = "settling"
          /\ IF page.terminal = "none"
             THEN \/ page' = Settled(Recovered(page)) /\ UNCHANGED bounds
                  \/ page' = Settled(page) /\ Lost
             ELSE page' = Settled(page) /\ UNCHANGED bounds
          /\ UNCHANGED <<requestVars, journal, gen, stopped, stored, wire, up, cut>>

(* stopGenerating: a confirmed cancellation ends the sending; the          *)
(* confirmation may be lost.                                               *)
Ended == page.pc \in {"completed", "cancelled", "error"}
Stop == /\ ~Ended /\ slot # 0 /\ stopped' = stopped \cup {slot}
        /\ \/ Become("cancelled") /\ up' = FALSE /\ wire' = <<>> /\ UNCHANGED bounds
           \/ Lost /\ UNCHANGED <<page, up, wire>>
        /\ UNCHANGED <<requestVars, journal, gen, stored, cut>>

(* The process dies and starts again: recover_chat_requests.               *)
Restart == /\ crashes < MaxCrashes /\ crashes' = crashes + 1
           /\ row' = IF row.status = "started"
                     THEN [status |-> "failed", code |-> "chatInterrupted"] ELSE row
           /\ slot' = 0 /\ stopped' = {} /\ up' = FALSE
           /\ gen' = [n \in Requests |-> IF gen[n].pc = "none" THEN gen[n]
                                         ELSE [gen[n] EXCEPT !.pc = "done"]]
           /\ UNCHANGED <<journal, stored, wire, page, cut, overtaken, losses>>
-----------------------------------------------------------------------------
Generate(n) == \/ Begin(n) \/ Connect(n) \/ Receive(n) \/ Retry(n) \/ Fail(n)
               \/ Cancelled(n) \/ Answer(n) \/ CompleteRow(n) \/ Publish(n) \/ Announce(n)
               \/ Close(n) \/ Lose(n)
Send == Post \/ Read \/ StreamEnds \/ StreamBreaks \/ Poll \/ Settle

Next == \/ \E n \in Requests : Generate(n)
        \/ Send \/ Drop \/ PollFails \/ Stop \/ Restart

Spec == Init /\ [][Next]_vars

(* Threads run, the provider answers or fails, a response without a reader *)
(* is closed, and the page runs.                                           *)
FairSpec == Spec /\ WF_vars(Send) /\ \A n \in Requests : WF_vars(Generate(n))
-----------------------------------------------------------------------------
(* Properties.                                                             *)

Chunks == Requests \X (1 .. Attempts) \X (1 .. Length)
Endings == {"completed", "failed", "cancelled"}
Codes == {"none", "aiUnavailable", "chatCancelled", "chatInterrupted"}
Events == {Event(type) : type \in {"started", "reset"} \cup Endings}
            \cup [type : {"delta"}, chunk : Chunks]
Deliveries == [seq : Nat, event : Events]
Generators == [pc : {"none", "new", "lost", "calling", "open", "storing", "publishing",
                     "announcing", "ended", "done"},
               attempt : 1 .. Attempts, sent : 0 .. Length, parts : Seq(Chunks),
               last : Endings \cup {"none"}]

Pages == [pc : {"posting", "reading", "recovering", "settling", "error"} \cup Endings,
          try : Requests, cursor : Nat, draft : Seq(Chunks),
          terminal : Endings \cup {"none"}, code : Codes]

TypeOK ==
  /\ row \in [status : {"none", "started"} \cup Endings, code : Codes]
  /\ journal \in Seq(Events) /\ wire \in Seq(Deliveries)
  /\ slot \in Requests \cup {0} /\ gen \in [Requests -> Generators]
  /\ stopped \in SUBSET Requests /\ stored \in SUBSET Seq(Chunks)
  /\ page \in Pages
  /\ cut \in SUBSET (Requests \X (1 .. Attempts))
  /\ up \in BOOLEAN /\ overtaken \in BOOLEAN /\ losses \in Nat /\ crashes \in Nat

(* What the page shows is the beginning of one answer of the provider: no  *)
(* chunk twice, none missing, none of a stream that was given up, however  *)
(* streams break on either side and whatever is read from the journal.     *)
DraftIsOneAnswer ==
  overtaken \/ \E n \in Requests, k \in 1 .. Attempts : IsPrefix(page.draft, Whole(n, k))

(* docs/local-graph-chat.md:56: no half-finished assistant message after a *)
(* cancellation or a failure of the provider.  A body that ends without    *)
(* [DONE] is no failure to the code: then the answer is what came.         *)
StoredAnswersAreWhole ==
  \A parts \in stored : \E n \in Requests, k \in 1 .. Attempts :
    \/ parts = Whole(n, k)
    \/ <<n, k>> \in cut /\ IsPrefix(parts, Whole(n, k))

(* The text that has grown on the screen is the one that is stored when    *)
(* the page learns that the sending is completed, from the stream or from  *)
(* the journal; or it has shown nothing, when it is told so at once.  Only *)
(* a journal of more events than one look returns may leave it behind.     *)
DraftIsStored ==
  page.pc = "completed" /\ ~overtaken =>
    page.draft \in stored \cup {<<>>} \/ Len(journal) > Limit

(* The page asks again only for what has no answer: one sending stores at  *)
(* most one, unless the process dies or a generator is overtaken.          *)
AnsweredOnce == crashes = 0 /\ ~overtaken => Cardinality(stored) <= 1

(* docs/host-and-release-p3.md:89: a single complete assistant message for *)
(* the repeated requests of one key.                                       *)
SingleAnswer == crashes = 0 => Cardinality(stored) <= 1

(* A sending ends, but for a generator that was dropped before it started. *)
SendEnds == <>(Ended \/ \E n \in Requests : gen[n].pc = "lost")
=============================================================================
