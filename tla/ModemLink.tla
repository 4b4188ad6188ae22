----------------------------- MODULE ModemLink ------------------------------
(***************************************************************************)
(* The line protocol between the driver (components/nbiot/modem.c) and the *)
(* SIM7080G.  The receive task turns the UART's bytes into lines and       *)
(* queues them; the driver sends a command and reads lines until those it  *)
(* waits for have come, an error line comes, or the time is up.  No line   *)
(* says which command it answers, news (URCs) come in between, and the     *)
(* queue is flushed before some commands only.                             *)
(*                                                                         *)
(* A line is said when the receive task has it whole: the wire adds only   *)
(* delay.  Four commands stand for all: "activate" (AT+CNACT=0,1, and any  *)
(* command that is answered with OK), "para" and "action" (the two of a    *)
(* publish), "query" (AT+CNACT?).  The driver may send them in any order   *)
(* ModemSession gives and in any other.                                    *)
(***************************************************************************)
EXTENDS Naturals, Sequences, FiniteSets

CONSTANTS
  CmdQueueLen,  \* CMD_QUEUE_LEN
  MaxCommands,  \* bound: commands sent
  MaxNews,      \* bound: times the modem drops the PDP context
  MaxLate,      \* bound: commands given up while the modem is not done with them
  MaxBoots,     \* bound: boots after the first
  MaxRestarts   \* bound: restarts of the modem

ASSUME LinkAssumption ==
  /\ CmdQueueLen \in Nat \ {0}
  /\ MaxCommands \in Nat /\ MaxNews \in Nat /\ MaxLate \in Nat /\ MaxBoots \in Nat
  /\ MaxRestarts \in Nat

VARIABLES
  waiting,     \* the command the driver waits on, or "none"
  seen,        \* of the lines it waits for, those it has read
  g_pdp_known_active,
  published,   \* a publish has returned true in this boot
  line_queue,
  asked,       \* the modem: commands it has not begun with
  reply,       \* the modem: lines it has still to say
  pdp,         \* the modem: the context is active
  said,        \* history: what the modem said to each command
  results,     \* history: what each call returned
  sent,        \* history: the modem has sent a request in this boot
  missed,      \* history: how news of the context has been lost in this boot
  inherited,   \* history: this boot began with an answer outstanding
  report,      \* history: the request whose report this wait has read, or 0
  backed,      \* history: per publish that returned true, that request
  news, late, boots, restarts

driver == <<waiting, seen, g_pdp_known_active, published>>
device == <<asked, reply, pdp>>
credit == <<report, backed>>
history == <<said, results, sent, missed, inherited, credit>>
bounds == <<news, late, boots, restarts>>
vars == <<driver, line_queue, device, history, bounds>>

Kinds == {"activate", "para", "action", "query"}
Texts == {"ok", "error", "report", "active", "inactive", "deactive", "overtaken"}
Losses == {"dropped", "flushed", "overwritten", "restarted"}

\* A line is a text and the number of the command it answers, which the text
\* does not show; 0 for news.
Line == [text : Texts, cmd : Nat]
TypeOK ==
  /\ waiting \in Kinds \cup {"none"}
  /\ seen \in SUBSET Texts
  /\ g_pdp_known_active \in BOOLEAN
  /\ published \in BOOLEAN
  /\ line_queue \in Seq(Line) /\ Len(line_queue) <= CmdQueueLen
  /\ asked \in Seq([kind : Kinds, cmd : Nat])
  /\ reply \in Seq([text : {"ok", "error", "report", "info"}, cmd : Nat])
  /\ pdp \in BOOLEAN
  /\ said \in Seq({"none", "ok", "error"})
  /\ results \in Seq(BOOLEAN)
  /\ sent \in BOOLEAN
  /\ missed \in SUBSET Losses
  /\ inherited \in BOOLEAN
  /\ report \in Nat /\ backed \in Seq(Nat)
  /\ news \in 0 .. MaxNews /\ late \in 0 .. MaxLate /\ boots \in 0 .. MaxBoots
  /\ restarts \in 0 .. MaxRestarts

Init ==
  /\ waiting = "none" /\ seen = {}
  /\ g_pdp_known_active = FALSE /\ published = FALSE
  /\ line_queue = <<>>
  /\ asked = <<>> /\ reply = <<>> /\ pdp \in BOOLEAN
  /\ said = <<>> /\ results = <<>>
  /\ sent = FALSE /\ missed = {} /\ inherited = FALSE
  /\ report = 0 /\ backed = <<>>
  /\ news = 0 /\ late = 0 /\ boots = 0 /\ restarts = 0

Mentions(text) == \E i \in 1 .. Len(line_queue) : line_queue[i].text = text
Outstanding ==
  asked # <<>> \/ reply # <<>> \/ \E i \in 1 .. Len(line_queue) : line_queue[i].cmd # 0

-----------------------------------------------------------------------------
(* The modem and the receive task.                                         *)

\* modem_push_line(): a full queue drops the new line.  Mutant: it grows.
PushLine_Grow(text, cmd) ==
  /\ line_queue' = Append(line_queue, [text |-> text, cmd |-> cmd])
  /\ UNCHANGED missed
PushLine(text, cmd) ==
  IF Len(line_queue) < CmdQueueLen
  THEN /\ line_queue' = Append(line_queue, [text |-> text, cmd |-> cmd])
       /\ UNCHANGED missed
  ELSE /\ UNCHANGED line_queue
       /\ missed' = IF text = "deactive" THEN missed \cup {"dropped"} ELSE missed

Answers(kind) ==
  CASE kind \in {"activate", "para"} -> {<<"ok">>}
    [] kind = "action" -> {<<"report", "ok">>, <<"ok", "report">>}
    [] kind = "query" -> {<<"info", "ok">>}

\* The modem begins with the next command: it carries it out, or refuses.
Obey ==
  /\ asked # <<>> /\ reply = <<>>
  /\ LET c == Head(asked) IN
     /\ asked' = Tail(asked)
     /\ \/ /\ \E a \in Answers(c.kind) :
                reply' = [i \in 1 .. Len(a) |-> [text |-> a[i], cmd |-> c.cmd]]
           /\ said' = [said EXCEPT ![c.cmd] = "ok"]
           /\ pdp' = (pdp \/ c.kind = "activate")
           /\ sent' = (sent \/ c.kind = "action")
        \/ /\ reply' = <<[text |-> "error", cmd |-> c.cmd]>>
           /\ said' = [said EXCEPT ![c.cmd] = "error"]
           /\ UNCHANGED <<pdp, sent>>
  /\ UNCHANGED <<driver, line_queue, results, missed, inherited, credit, bounds>>

\* A command that the modem does not get, or never answers.
Ignore ==
  /\ asked # <<>>
  /\ asked' = Tail(asked)
  /\ UNCHANGED <<driver, line_queue, reply, pdp, history, bounds>>

\* The next line of the answer comes in; +CNACT: tells the truth of the moment.
Say ==
  /\ reply # <<>>
  /\ LET l == Head(reply)
         text == IF l.text # "info" THEN l.text ELSE IF pdp THEN "active" ELSE "inactive"
     IN PushLine(text, l.cmd)
  /\ reply' = Tail(reply)
  /\ UNCHANGED <<driver, asked, pdp, said, results, sent, inherited, credit, bounds>>

\* The network drops the context: +APP PDP: 0,DEACTIVE comes in.
DropPdp ==
  /\ pdp /\ news < MaxNews
  /\ pdp' = FALSE
  /\ news' = news + 1
  /\ PushLine("deactive", 0)
  /\ UNCHANGED <<driver, asked, reply, said, results, sent, inherited, credit, late,
                 boots, restarts>>

\* A PWRKEY pulse of modem_basic_init() between two calls, or the modem starts
\* afresh by itself: it forgets what it was asked and its context, and says
\* nothing of it.  The flag of the driver stays.
Restart ==
  /\ restarts < MaxRestarts
  /\ restarts' = restarts + 1
  /\ asked' = <<>> /\ reply' = <<>> /\ pdp' = FALSE
  /\ missed' = IF pdp THEN missed \cup {"restarted"} ELSE missed
  /\ UNCHANGED <<driver, line_queue, said, results, sent, inherited, credit, news, late,
                 boots>>

-----------------------------------------------------------------------------
(* The driver.                                                             *)

\* modem_send_line(), and the wait begins.
Issue(kind) ==
  /\ Len(said) < MaxCommands
  /\ asked' = Append(asked, [kind |-> kind, cmd |-> Len(said) + 1])
  /\ said' = Append(said, "none")
  /\ waiting' = kind
  /\ seen' = {}

\* coap_publish_impl() begins with "para"; "action" follows by itself.
Send ==
  /\ waiting = "none"
  /\ \E kind \in Kinds \ {"action"} : Issue(kind)
  /\ UNCHANGED <<g_pdp_known_active, published, line_queue, reply, pdp, results, sent,
                 missed, inherited, credit, bounds>>

\* The lines that end a wait.  Mutants: one of the two is enough.
Awaited_Report(kind) == IF kind = "action" THEN {"report"} ELSE {"ok"}
Awaited_Ok(kind) == {"ok"}
Awaited(kind) == IF kind = "action" THEN {"report", "ok"} ELSE {"ok"}

\* What is_pdp_active() makes of the lines it has read.
QueryResult(lines) == {"active", "ok"} \subseteq lines

\* The report that a wait has read when it has read this line.
ReportWith(line) == IF line.text = "report" THEN line.cmd ELSE report

\* coap_publish_impl() goes on if its parameters were taken.  Mutant: anyway.
Return_Anyway(ok) ==
  /\ results' = Append(results, ok)
  /\ published' = (published \/ (ok /\ waiting = "action"))
  /\ backed' = IF ok /\ waiting = "action"
               THEN Append(backed, ReportWith(Head(line_queue))) ELSE backed
  /\ report' = 0
  /\ IF waiting = "para" THEN Issue("action")
     ELSE waiting' = "none" /\ seen' = {} /\ UNCHANGED <<asked, said>>
Return(ok) ==
  /\ results' = Append(results, ok)
  /\ published' = (published \/ (ok /\ waiting = "action"))
  /\ backed' = IF ok /\ waiting = "action"
               THEN Append(backed, ReportWith(Head(line_queue))) ELSE backed
  /\ report' = 0
  /\ IF ok /\ waiting = "para" THEN Issue("action")
     ELSE waiting' = "none" /\ seen' = {} /\ UNCHANGED <<asked, said>>

\* handle_urc().  Mutant: it only asks for a restart of CoAP.
AfterNews_Forgotten(text) == g_pdp_known_active
AfterNews(text) == text # "deactive" /\ g_pdp_known_active

\* The lines read so far, with the next one.  "overtaken" is for the history:
\* the driver does not see that news came after the answer to its query.
SeenWith(text) ==
  IF text = "active" THEN (seen \ {"overtaken"}) \cup {text}
  ELSE seen \cup {text} \cup IF text = "deactive" /\ "active" \in seen
                             THEN {"overtaken"} ELSE {}

Reading == waiting # "none" /\ line_queue # <<>> /\ line_queue' = Tail(line_queue)

\* A line that does not end the wait.
ReadOn ==
  /\ Reading
  /\ LET text == Head(line_queue).text IN
     /\ text # "error" /\ ~(Awaited(waiting) \subseteq SeenWith(text))
     /\ seen' = SeenWith(text)
     /\ g_pdp_known_active' = AfterNews(text)
  /\ report' = ReportWith(Head(line_queue))
  /\ UNCHANGED <<waiting, published, device, said, results, sent, missed, inherited,
                 backed, bounds>>

\* The last of the lines it waits for.  is_pdp_active() keeps what it has read
\* of the context, whatever news came after.
ReadLast ==
  /\ Reading
  /\ LET lines == SeenWith(Head(line_queue).text) IN
     /\ Head(line_queue).text # "error" /\ Awaited(waiting) \subseteq lines
     /\ IF waiting = "query"
        THEN /\ g_pdp_known_active' = QueryResult(lines)
             /\ missed' = IF {"active", "overtaken"} \subseteq lines
                          THEN missed \cup {"overwritten"} ELSE missed
             /\ Return(QueryResult(lines))
        ELSE Return(TRUE) /\ UNCHANGED <<g_pdp_known_active, missed>>
  /\ UNCHANGED <<reply, pdp, sent, inherited, bounds>>

\* is_error_line(): the call fails; a query leaves the flag as it is.
ReadError ==
  /\ Reading
  /\ Head(line_queue).text = "error"
  /\ Return(FALSE)
  /\ UNCHANGED <<g_pdp_known_active, reply, pdp, sent, missed, inherited, bounds>>

\* The deadline passes.
TimeOut ==
  /\ waiting # "none"
  /\ Outstanding => late < MaxLate
  /\ late' = IF Outstanding THEN late + 1 ELSE late
  /\ g_pdp_known_active' = (waiting # "query" /\ g_pdp_known_active)
  /\ Return(FALSE)
  /\ UNCHANGED <<line_queue, reply, pdp, sent, missed, inherited, news, boots, restarts>>

\* modem_flush_input(), before the CoAP set-up and at the end of the bring-up.
Flush ==
  /\ waiting = "none" /\ line_queue # <<>>
  /\ line_queue' = <<>>
  /\ missed' = IF Mentions("deactive") THEN missed \cup {"flushed"} ELSE missed
  /\ UNCHANGED <<driver, device, said, results, sent, inherited, credit, bounds>>

\* The CPU sleeps between two calls, and modem_driver_start() runs at the next
\* boot; the modem goes on with what it has.
Boot ==
  /\ waiting = "none" /\ boots < MaxBoots
  /\ boots' = boots + 1
  /\ line_queue' = <<>>
  /\ seen' = {} /\ g_pdp_known_active' = FALSE /\ published' = FALSE
  /\ sent' = FALSE /\ missed' = {}
  /\ inherited' = (asked # <<>> \/ reply # <<>>)
  /\ UNCHANGED <<waiting, device, said, results, credit, news, late, restarts>>

Next ==
  \/ Obey \/ Ignore \/ Say \/ DropPdp \/ Restart
  \/ Send \/ ReadOn \/ ReadLast \/ ReadError \/ TimeOut \/ Flush \/ Boot

Spec == Init /\ [][Next]_vars

-----------------------------------------------------------------------------
(* Properties.                                                             *)

\* While no command has been given up too early, a call that returns true has
\* the modem's own OK to that very command, whatever the queue has dropped and
\* whatever news came in between (modem.c:245, modem.c:104).
OwnAnswer == \A n \in 1 .. Len(results) : results[n] => said[n] = "ok"
AnswerIsOwn == late = 0 => OwnAnswer

\* Late answers shift from call to call, across the sleep too, but none is made
\* of nothing and none counts twice: every publish that ever returned true took
\* the report of a request that the modem has sent and that no other publish took.
EachHasRequest ==
  \A i \in 1 .. Len(backed) :
    /\ backed[i] \in 1 .. Len(said) /\ said[backed[i]] = "ok"
    /\ \A j \in i + 1 .. Len(backed) : backed[j] # backed[i]

\* It is a request of this boot unless an answer from before the sleep was to come.
PublishedWasSent == EachHasRequest /\ (published /\ ~inherited => sent)

\* What the driver believes of the PDP context is true once it has read all the
\* lines, unless news of its end was dropped, flushed, or overwritten by the
\* answer to a query, or there was none because the modem has restarted: no
\* other order of lines and calls makes it wrong (modem.c:573).
BeliefIsTrue == g_pdp_known_active /\ ~Mentions("deactive") => pdp
KnownUnlessMissed == missed = {} => BeliefIsTrue

\* News that the driver has read is news that it keeps.  It is not: see
\* KnownUnlessMissed.
PdpNewsKept ==
  missed \cap {"dropped", "flushed", "restarted"} = {} => BeliefIsTrue

\* The driver against its purpose: a synchronous port, from the start until a
\* deadline turns out to be shorter than the modem is slow.
Port == INSTANCE CommandPort WITH asking <- waiting # "none"
ImplementsPort == Port!Init /\ [][late' = 0 => Port!Next]_(Port!vars)
=============================================================================
