-------------------------- MODULE ModemLinkProofs ---------------------------
(***************************************************************************)
(* Proofs about ModemLink, for every length of the queue and any number of *)
(* commands, dropped contexts, late answers and boots: whose answer a call *)
(* takes, what a publish that succeeds has behind it, when the driver may  *)
(* be wrong about the PDP context, and that the link is a synchronous port *)
(* while no command is given up too early.                                 *)
(***************************************************************************)
EXTENDS ModemLink, TLAPS

USE DEF driver, device, history, credit, bounds

-----------------------------------------------------------------------------
(* The inductive invariant.                                                *)

Coming(text) == \E i \in 1 .. Len(reply) : reply[i].text = text

\* The lines that end any wait, and those that end the wait for this command.
Last(kind) == IF kind = "action" THEN {"error"} ELSE {"ok", "error"}

\* A line that answers no command is news.
NewsInv ==
  \A i \in 1 .. Len(line_queue) : line_queue[i].cmd = 0 => line_queue[i].text = "deactive"

\* Commands have numbers.
AskedNumbered ==
  /\ \A i \in 1 .. Len(asked) : asked[i].cmd # 0
  /\ \A i \in 1 .. Len(reply) : reply[i].cmd # 0

\* A wait that could end has ended.
WaitInv ==
  waiting # "none" => ~(Awaited(waiting) \subseteq seen) /\ "error" \notin seen

\* "active" holds until a later line takes it back, in the queue and when read.
QueueBelief ==
  \A i \in 1 .. Len(line_queue) :
    line_queue[i].text = "active" =>
      pdp \/ \E j \in i + 1 .. Len(line_queue) : line_queue[j].text = "deactive"
SeenBelief ==
  "active" \in seen /\ "overtaken" \notin seen /\ ~Mentions("deactive") => pdp
BeliefInv == missed = {} => BeliefIsTrue /\ QueueBelief /\ SeenBelief

\* A report is of a request that was sent, wherever it has got to.
SentInv ==
  ~inherited /\ (published \/ "report" \in seen \/ Mentions("report") \/ Coming("report")) => sent

\* A command the modem has not begun with has had no answer, and is asked once.
AskedFresh ==
  \A i \in 1 .. Len(asked) :
    /\ asked[i].cmd \in 1 .. Len(said) /\ said[asked[i].cmd] = "none"
    /\ \A j \in i + 1 .. Len(asked) : asked[j].cmd # asked[i].cmd

\* There is one report of each request that was sent: it is still to be said,
\* queued, read in this wait, taken by a publish, or lost.
IsSent(m) == m \in 1 .. Len(said) /\ said[m] = "ok"
Unused(m) == IsSent(m) /\ m # report /\ \A i \in 1 .. Len(backed) : backed[i] # m
ReplyReports ==
  \A i \in 1 .. Len(reply) :
    reply[i].text = "report" =>
      /\ Unused(reply[i].cmd)
      /\ \A j \in i + 1 .. Len(reply) : reply[j].text # "report"
      /\ \A j \in 1 .. Len(line_queue) :
           line_queue[j].text = "report" => line_queue[j].cmd # reply[i].cmd
QueueReports ==
  \A i \in 1 .. Len(line_queue) :
    line_queue[i].text = "report" =>
      /\ Unused(line_queue[i].cmd)
      /\ \A j \in i + 1 .. Len(line_queue) :
           line_queue[j].text = "report" => line_queue[j].cmd # line_queue[i].cmd
ReadReport ==
  /\ report # 0 => IsSent(report) /\ \A i \in 1 .. Len(backed) : backed[i] # report
  /\ "report" \in seen => report # 0
ReportInv == ReplyReports /\ QueueReports /\ ReadReport /\ EachHasRequest

\* No answer is to come while none is waited for.
IdleInv ==
  waiting = "none" =>
    /\ Len(said) = Len(results)
    /\ asked = <<>> /\ reply = <<>>
    /\ \A i \in 1 .. Len(line_queue) : line_queue[i].cmd = 0

\* The command that is waited on has not been begun with, and nothing has been
\* said to it, or whatever is to come answers it.
AskedInv ==
  waiting # "none" =>
    /\ Len(said) = Len(results) + 1
    /\ Len(asked) <= 1
    /\ asked # <<>> =>
         /\ asked[1].cmd = Len(said) /\ asked[1].kind = waiting
         /\ said[Len(said)] = "none"
         /\ reply = <<>>
         /\ \A i \in 1 .. Len(line_queue) : line_queue[i].cmd = 0
         /\ seen \cap {"ok", "report"} = {}
    /\ \A i \in 1 .. Len(reply) : reply[i].cmd = Len(said)
    /\ \A i \in 1 .. Len(line_queue) : line_queue[i].cmd \in {0, Len(said)}

\* The lines tell what the modem said.
SaidInv ==
  waiting # "none" =>
    /\ seen \cap {"ok", "report"} # {} \/ Coming("ok") \/ Coming("report")
         \/ Mentions("ok") \/ Mentions("report") => said[Len(said)] = "ok"
    /\ Coming("error") \/ Mentions("error") => said[Len(said)] = "error"

\* Nothing comes after a line that ends the wait.
LastInv ==
  waiting # "none" =>
    /\ \A i \in 1 .. Len(line_queue) :
         line_queue[i].text \in Last(waiting) =>
           /\ reply = <<>>
           /\ \A j \in i + 1 .. Len(line_queue) : line_queue[j].cmd = 0
    /\ \A i \in 1 .. Len(reply) : reply[i].text \in Last(waiting) => i = Len(reply)

\* A request is answered with one OK and one report.
OnceInv ==
  waiting = "action" =>
    /\ \A i \in 1 .. Len(line_queue) :
         line_queue[i].cmd # 0 =>
           /\ line_queue[i].text \in {"ok", "report", "error"} \ seen
           /\ \A j \in i + 1 .. Len(line_queue) : line_queue[j].text # line_queue[i].text
           /\ \A j \in 1 .. Len(reply) : reply[j].text # line_queue[i].text
    /\ \A i \in 1 .. Len(reply) :
         /\ reply[i].text \in {"ok", "report", "error"} \ seen
         /\ \A j \in i + 1 .. Len(reply) : reply[j].text # reply[i].text

\* Nothing of this is true once a command has been given up too early.
PortInv ==
  late = 0 => OwnAnswer /\ IdleInv /\ AskedInv /\ SaidInv /\ LastInv /\ OnceInv

IInv ==
  /\ TypeOK /\ AskedNumbered /\ NewsInv /\ WaitInv /\ BeliefInv /\ SentInv
  /\ AskedFresh /\ ReportInv
  /\ PortInv
-----------------------------------------------------------------------------
(* The queue.                                                              *)

\* The first of a sequence, and the rest.
LEMMA FirstAndRest ==
  ASSUME NEW S, NEW s \in Seq(S), s # <<>>
  PROVE  /\ Len(s) >= 1 /\ Head(s) = s[1] /\ s[1] \in S
         /\ Tail(s) \in Seq(S) /\ Len(Tail(s)) = Len(s) - 1
         /\ \A i \in 1 .. Len(s) - 1 : Tail(s)[i] = s[i + 1]
OBVIOUS

\* The elements of a sequence.
LEMMA Elements ==
  ASSUME NEW S, NEW s \in Seq(S)
  PROVE  \A i \in 1 .. Len(s) : s[i] \in S
OBVIOUS

\* What is pushed is the last line, or is lost with the queue full.
LEMMA Pushed ==
  ASSUME TypeOK, NEW text \in Texts, NEW cmd \in Nat, PushLine(text, cmd)
  PROVE  /\ line_queue' \in Seq(Line) /\ Len(line_queue') <= CmdQueueLen
         /\ Len(line_queue') \in {Len(line_queue), Len(line_queue) + 1}
         /\ \A i \in 1 .. Len(line_queue) : line_queue'[i] = line_queue[i]
         /\ \A i \in 1 .. Len(line_queue') :
              i > Len(line_queue) => line_queue'[i] = [text |-> text, cmd |-> cmd]
         /\ missed' \in SUBSET Losses /\ (missed' = {} => missed = {})
         /\ \/ Len(line_queue') = Len(line_queue) + 1 /\ missed' = missed
            \/ /\ Len(line_queue') = Len(line_queue)
               /\ text = "deactive" => missed' # {}
<1>1. CASE Len(line_queue) < CmdQueueLen
  <2>1. /\ line_queue' = Append(line_queue, [text |-> text, cmd |-> cmd])
        /\ missed' = missed
    BY <1>1 DEF PushLine
  <2>2. [text |-> text, cmd |-> cmd] \in Line /\ line_queue \in Seq(Line)
    BY DEF Line, TypeOK
  <2>3. /\ line_queue' \in Seq(Line) /\ Len(line_queue') = Len(line_queue) + 1
        /\ \A i \in 1 .. Len(line_queue) : line_queue'[i] = line_queue[i]
        /\ line_queue'[Len(line_queue) + 1] = [text |-> text, cmd |-> cmd]
    BY <2>1, <2>2
  <2>4. missed \in SUBSET Losses /\ Len(line_queue) \in Nat /\ CmdQueueLen \in Nat
    BY <2>2, LinkAssumption DEF TypeOK
  <2>5. \A i \in 1 .. Len(line_queue') :
          i > Len(line_queue) => line_queue'[i] = [text |-> text, cmd |-> cmd]
    BY <2>3, <2>4
  <2>6. Len(line_queue') <= CmdQueueLen
    BY <2>3, <2>4, <1>1
  <2>7. QED
    BY <2>1, <2>3, <2>4, <2>5, <2>6
<1>2. CASE ~(Len(line_queue) < CmdQueueLen)
  <2>1. /\ line_queue' = line_queue
        /\ missed' = IF text = "deactive" THEN missed \cup {"dropped"} ELSE missed
    BY <1>2 DEF PushLine
  <2>2. line_queue \in Seq(Line) /\ Len(line_queue) \in Nat /\ Len(line_queue) <= CmdQueueLen
    BY DEF TypeOK
  <2>3. /\ missed' \in SUBSET Losses /\ (missed' = {} => missed = {})
        /\ text = "deactive" => missed' # {}
    BY <2>1 DEF TypeOK, Losses
  <2>4. QED
    BY <2>1, <2>2, <2>3
<1>3. QED
  BY <1>1, <1>2

\* Each line after a push is one that was there, or the new one.
LEMMA PushedLine ==
  ASSUME TypeOK, NEW text \in Texts, NEW cmd \in Nat, PushLine(text, cmd),
         NEW i \in 1 .. Len(line_queue')
  PROVE  \/ i \in 1 .. Len(line_queue) /\ line_queue'[i] = line_queue[i]
         \/ i = Len(line_queue) + 1 /\ line_queue'[i].text = text /\ line_queue'[i].cmd = cmd
<1>1. Len(line_queue) \in Nat
  BY DEF TypeOK
<1>2. [text |-> text, cmd |-> cmd].text = text /\ [text |-> text, cmd |-> cmd].cmd = cmd
  OBVIOUS
<1>3. Len(line_queue') \in {Len(line_queue), Len(line_queue) + 1}
  BY Pushed
<1>4. CASE i <= Len(line_queue)
  <2>1. i \in 1 .. Len(line_queue)
    BY <1>1, <1>3, <1>4
  <2>2. QED
    BY <2>1, Pushed
<1>5. CASE i > Len(line_queue)
  <2>1. line_queue'[i] = [text |-> text, cmd |-> cmd]
    BY <1>5, Pushed
  <2>2. QED
    BY <1>1, <1>2, <1>3, <1>5, <2>1
<1>6. QED
  BY <1>1, <1>4, <1>5

\* What is read is the first line; the others move up.
LEMMA Taken ==
  ASSUME TypeOK, Reading
  PROVE  /\ line_queue \in Seq(Line) /\ Len(line_queue) >= 1
         /\ Head(line_queue) = line_queue[1] /\ line_queue[1] \in Line
         /\ line_queue' \in Seq(Line) /\ Len(line_queue') = Len(line_queue) - 1
         /\ \A i \in 1 .. Len(line_queue') : line_queue'[i] = line_queue[i + 1]
BY DEF TypeOK, Reading

\* The two ways in which the modem obeys a command.
Accepts(c) ==
  /\ said' = [said EXCEPT ![c.cmd] = "ok"]
  /\ pdp' = (pdp \/ c.kind = "activate")
  /\ sent' = (sent \/ c.kind = "action")
  /\ \A i \in 1 .. Len(reply') : reply'[i].text # "error"
  /\ c.kind # "action" =>
       /\ \A i \in 1 .. Len(reply') : reply'[i].text # "report"
       /\ \A i \in 1 .. Len(reply') : reply'[i].text = "ok" => i = Len(reply')
  /\ c.kind = "action" =>
       /\ \A i \in 1 .. Len(reply') : reply'[i].text \in {"ok", "report"}
       /\ \A i, j \in 1 .. Len(reply') : i # j => reply'[i].text # reply'[j].text

Refuses(c) ==
  /\ said' = [said EXCEPT ![c.cmd] = "error"]
  /\ UNCHANGED <<pdp, sent>>
  /\ Len(reply') = 1 /\ reply'[1].text = "error"

\* What the modem makes of a command.
LEMMA Obeyed ==
  ASSUME TypeOK, Obey, NEW c, c = asked[1]
  PROVE  /\ Len(asked) >= 1 /\ c \in [kind : Kinds, cmd : Nat]
         /\ asked' \in Seq([kind : Kinds, cmd : Nat]) /\ Len(asked') = Len(asked) - 1
         /\ reply = <<>>
         /\ reply' \in Seq([text : {"ok", "error", "report", "info"}, cmd : Nat])
         /\ \A i \in 1 .. Len(reply') : reply'[i].cmd = c.cmd
         /\ Accepts(c) \/ Refuses(c)
<1>1. /\ Len(asked) >= 1 /\ c \in [kind : Kinds, cmd : Nat] /\ c = Head(asked)
      /\ asked' \in Seq([kind : Kinds, cmd : Nat]) /\ Len(asked') = Len(asked) - 1
  <2>1. asked \in Seq([kind : Kinds, cmd : Nat]) /\ asked # <<>> /\ asked' = Tail(asked)
    BY DEF TypeOK, Obey
  <2>2. QED
    BY <2>1, FirstAndRest
<1>2. c.kind \in Kinds /\ c.cmd \in Nat /\ reply = <<>>
  BY <1>1 DEF Obey
<1>3. CASE \E a \in Answers(c.kind) :
             /\ reply' = [i \in 1 .. Len(a) |-> [text |-> a[i], cmd |-> c.cmd]]
             /\ said' = [said EXCEPT ![c.cmd] = "ok"]
             /\ pdp' = (pdp \/ c.kind = "activate")
             /\ sent' = (sent \/ c.kind = "action")
  <2>1. PICK a \in Answers(c.kind) :
             /\ reply' = [i \in 1 .. Len(a) |-> [text |-> a[i], cmd |-> c.cmd]]
             /\ said' = [said EXCEPT ![c.cmd] = "ok"]
             /\ pdp' = (pdp \/ c.kind = "activate")
             /\ sent' = (sent \/ c.kind = "action")
    BY <1>3
  <2>2. \/ c.kind \in {"activate", "para"} /\ a = <<"ok">>
        \/ c.kind = "action" /\ (a = <<"report", "ok">> \/ a = <<"ok", "report">>)
        \/ c.kind = "query" /\ a = <<"info", "ok">>
    BY <1>2 DEF Answers, Kinds
  <2>3. /\ Len(a) \in {1, 2}
        /\ \A i \in 1 .. Len(a) : a[i] \in {"ok", "report", "info"}
    BY <2>2
  <2>4. /\ reply' \in Seq([text : {"ok", "error", "report", "info"}, cmd : Nat])
        /\ Len(reply') = Len(a)
        /\ \A i \in 1 .. Len(a) : reply'[i].text = a[i] /\ reply'[i].cmd = c.cmd
    BY <2>1, <2>3, <1>2
  <2>5. c.kind # "action" => \A i \in 1 .. Len(a) : a[i] # "report" /\ (a[i] = "ok" => i = Len(a))
    <3>1. CASE a = <<"ok">>
      BY <3>1
    <3>2. CASE a = <<"info", "ok">>
      BY <3>2
    <3>3. QED
      BY <2>2, <3>1, <3>2
  <2>6. c.kind = "action" =>
          /\ \A i \in 1 .. Len(a) : a[i] \in {"ok", "report"}
          /\ \A i, j \in 1 .. Len(a) : i # j => a[i] # a[j]
    <3>1. CASE a = <<"report", "ok">>
      BY <3>1
    <3>2. CASE a = <<"ok", "report">>
      BY <3>2
    <3>3. QED
      BY <2>2, <3>1, <3>2
  <2>7. Accepts(c)
    BY <2>1, <2>3, <2>4, <2>5, <2>6 DEF Accepts
  <2>8. QED
    BY <1>1, <1>2, <2>4, <2>7
<1>4. CASE /\ reply' = <<[text |-> "error", cmd |-> c.cmd]>>
           /\ said' = [said EXCEPT ![c.cmd] = "error"]
           /\ UNCHANGED <<pdp, sent>>
  <2>1. /\ reply' \in Seq([text : {"ok", "error", "report", "info"}, cmd : Nat])
        /\ Len(reply') = 1 /\ reply'[1].text = "error" /\ reply'[1].cmd = c.cmd
    BY <1>4, <1>2
  <2>2. Refuses(c)
    BY <1>4, <2>1 DEF Refuses
  <2>3. QED
    BY <1>1, <1>2, <2>1, <2>2
<1>5. QED
  BY <1>1, <1>3, <1>4 DEF Obey

\* The line that the modem says next.
LEMMA SayPushes ==
  ASSUME TypeOK, Say
  PROVE  /\ Len(reply) >= 1 /\ reply[1].cmd \in Nat
         /\ reply[1].text \in {"ok", "error", "report", "info"}
         /\ reply' \in Seq([text : {"ok", "error", "report", "info"}, cmd : Nat])
         /\ Len(reply') = Len(reply) - 1
         /\ \A i \in 1 .. Len(reply') : reply'[i] = reply[i + 1]
         /\ \E text \in Texts :
              /\ PushLine(text, reply[1].cmd)
              /\ text = "active" => pdp
              /\ text \in {"ok", "error", "report"} => text = reply[1].text
              /\ reply[1].text \in {"ok", "error", "report"} => text = reply[1].text
              /\ text # "deactive"
<1>1. /\ Len(reply) >= 1 /\ Head(reply) = reply[1]
      /\ reply[1] \in [text : {"ok", "error", "report", "info"}, cmd : Nat]
      /\ reply' \in Seq([text : {"ok", "error", "report", "info"}, cmd : Nat])
      /\ Len(reply') = Len(reply) - 1
      /\ \A i \in 1 .. Len(reply') : reply'[i] = reply[i + 1]
  BY FirstAndRest DEF Say, TypeOK
<1>2. reply[1].cmd \in Nat /\ reply[1].text \in {"ok", "error", "report", "info"}
  BY <1>1
<1> DEFINE text == IF reply[1].text # "info" THEN reply[1].text
                   ELSE IF pdp THEN "active" ELSE "inactive"
<1>3. PushLine(text, reply[1].cmd)
  BY <1>1 DEF Say
<1>4. /\ text \in Texts /\ (text = "active" => pdp) /\ text # "deactive"
      /\ text \in {"ok", "error", "report"} => text = reply[1].text
      /\ reply[1].text \in {"ok", "error", "report"} => text = reply[1].text
  BY <1>2 DEF Texts
<1>5. QED
  BY <1>1, <1>2, <1>3, <1>4

\* What the driver has seen stays among the texts it knows.
LEMMA SeenTyped ==
  ASSUME TypeOK, NEW text \in Texts
  PROVE  SeenWith(text) \in SUBSET Texts
BY DEF TypeOK, SeenWith, Texts
\* One more element of a sequence.
LEMMA OneMore ==
  ASSUME NEW S, NEW s \in Seq(S), NEW e \in S
  PROVE  /\ Append(s, e) \in Seq(S) /\ Len(Append(s, e)) = Len(s) + 1
         /\ \A i \in 1 .. Len(s) : Append(s, e)[i] = s[i]
         /\ Append(s, e)[Len(s) + 1] = e
OBVIOUS

\* A command is issued.
LEMMA Issued ==
  ASSUME TypeOK, NEW kind \in Kinds, Issue(kind)
  PROVE  /\ waiting' = kind /\ seen' = {}
         /\ asked' \in Seq([kind : Kinds, cmd : Nat]) /\ Len(asked') = Len(asked) + 1
         /\ \A i \in 1 .. Len(asked) : asked'[i] = asked[i]
         /\ asked'[Len(asked) + 1] = [kind |-> kind, cmd |-> Len(said) + 1]
         /\ said' \in Seq({"none", "ok", "error"}) /\ Len(said') = Len(said) + 1
         /\ \A n \in 1 .. Len(said) : said'[n] = said[n]
         /\ said'[Len(said) + 1] = "none"
<1>1. /\ waiting' = kind /\ seen' = {}
      /\ asked' = Append(asked, [kind |-> kind, cmd |-> Len(said) + 1])
      /\ said' = Append(said, "none")
  BY DEF Issue
<1>2. asked \in Seq([kind : Kinds, cmd : Nat]) /\ said \in Seq({"none", "ok", "error"})
  BY DEF TypeOK
<1>3. [kind |-> kind, cmd |-> Len(said) + 1] \in [kind : Kinds, cmd : Nat]
  BY <1>2
<1>4. QED
  BY <1>1, <1>2, <1>3, OneMore

\* A call returns, and another follows at once if it was the first of two.
LEMMA Returns ==
  ASSUME TypeOK, NEW ok \in BOOLEAN, Return(ok)
  PROVE  /\ results' \in Seq(BOOLEAN) /\ Len(results') = Len(results) + 1
         /\ \A n \in 1 .. Len(results) : results'[n] = results[n]
         /\ results'[Len(results) + 1] = ok
         /\ published' = (published \/ (ok /\ waiting = "action"))
         /\ report' = 0
         /\ backed' = IF ok /\ waiting = "action"
                      THEN Append(backed, ReportWith(Head(line_queue))) ELSE backed
         /\ \/ ok /\ waiting = "para" /\ Issue("action")
            \/ waiting' = "none" /\ seen' = {} /\ asked' = asked /\ said' = said
<1>1. results' = Append(results, ok) /\ results \in Seq(BOOLEAN)
  BY DEF Return, TypeOK
<1>2. QED
  BY <1>1, OneMore DEF Return

\* What an answer does to what has been said.
LEMMA SaidNow ==
  ASSUME TypeOK, NEW cmd, NEW answer \in {"ok", "error"}, said' = [said EXCEPT ![cmd] = answer]
  PROVE  /\ said' \in Seq({"none", "ok", "error"}) /\ Len(said') = Len(said)
         /\ \A n \in 1 .. Len(said) : n # cmd => said'[n] = said[n]
         /\ cmd \in 1 .. Len(said) => said'[cmd] = answer
<1>1. said \in Seq({"none", "ok", "error"})
  BY DEF TypeOK
<1>2. CASE cmd \in 1 .. Len(said)
  BY <1>1, <1>2
<1>3. CASE cmd \notin 1 .. Len(said)
  <2>1. DOMAIN said = 1 .. Len(said) /\ said = [i \in DOMAIN said |-> said[i]]
    BY <1>1
  <2>2. said' = said
    BY <1>3, <2>1
  <2>3. QED
    BY <1>1, <1>3, <2>2
<1>4. QED
  BY <1>2, <1>3

-----------------------------------------------------------------------------
(* Types.                                                                  *)

DriverTyped ==
  /\ waiting \in Kinds \cup {"none"} /\ seen \in SUBSET Texts
  /\ g_pdp_known_active \in BOOLEAN /\ published \in BOOLEAN
QueueTyped == line_queue \in Seq(Line) /\ Len(line_queue) <= CmdQueueLen
DeviceTyped ==
  /\ asked \in Seq([kind : Kinds, cmd : Nat])
  /\ reply \in Seq([text : {"ok", "error", "report", "info"}, cmd : Nat])
  /\ pdp \in BOOLEAN
HistoryTyped ==
  /\ said \in Seq({"none", "ok", "error"}) /\ results \in Seq(BOOLEAN)
  /\ sent \in BOOLEAN /\ missed \in SUBSET Losses /\ inherited \in BOOLEAN
CreditTyped == report \in Nat /\ backed \in Seq(Nat)
BoundsTyped ==
  /\ news \in 0 .. MaxNews /\ late \in 0 .. MaxLate /\ boots \in 0 .. MaxBoots
  /\ restarts \in 0 .. MaxRestarts

\* TypeOK in six parts.
LEMMA Typed ==
  TypeOK <=> /\ DriverTyped /\ QueueTyped /\ DeviceTyped /\ HistoryTyped
             /\ CreditTyped /\ BoundsTyped
BY DEF TypeOK, DriverTyped, QueueTyped, DeviceTyped, HistoryTyped, CreditTyped, BoundsTyped

\* The types of what a return leaves.
LEMMA ReturnTyped ==
  ASSUME TypeOK, NEW ok \in BOOLEAN, Return(ok)
  PROVE  /\ waiting' \in Kinds \cup {"none"} /\ seen' \in SUBSET Texts /\ published' \in BOOLEAN
         /\ asked' \in Seq([kind : Kinds, cmd : Nat])
         /\ said' \in Seq({"none", "ok", "error"}) /\ results' \in Seq(BOOLEAN)
<1>1. CASE Issue("action")
  BY <1>1, Issued, Returns, Zenon DEF Kinds
<1>2. CASE waiting' = "none" /\ seen' = {} /\ asked' = asked /\ said' = said
  BY <1>2, Returns, Zenon DEF TypeOK
<1>3. QED
  BY <1>1, <1>2, Returns

\* The driver's own variables.
LEMMA DriverStep == TypeOK /\ [Next]_vars => DriverTyped'
<1> SUFFICES ASSUME TypeOK, [Next]_vars PROVE DriverTyped'
  OBVIOUS
<1>0. DriverTyped
  BY Typed
<1>1. CASE UNCHANGED driver
  BY <1>0, <1>1 DEF DriverTyped
<1>2. CASE Send
  <2>1. PICK kind \in Kinds \ {"action"} : Issue(kind)
    BY <1>2 DEF Send
  <2>2. UNCHANGED <<g_pdp_known_active, published>>
    BY <1>2 DEF Send
  <2>3. QED
    BY <1>0, <2>1, <2>2, Issued DEF DriverTyped
<1>3. CASE ReadOn
  <2>1. Head(line_queue).text \in Texts
    BY <1>3, Taken DEF ReadOn, Line
  <2>2. seen' \in SUBSET Texts
    BY <1>3, <2>1, SeenTyped DEF ReadOn
  <2>3. g_pdp_known_active' \in BOOLEAN
    BY <1>0, <1>3, Zenon DEF ReadOn, AfterNews, DriverTyped
  <2>4. UNCHANGED <<waiting, published>>
    BY <1>3 DEF ReadOn
  <2>5. QED
    BY <1>0, <2>2, <2>3, <2>4 DEF DriverTyped
<1>4. CASE ReadLast
  <2>1. PICK ok \in BOOLEAN : Return(ok)
    BY <1>4, Zenon DEF ReadLast, QueryResult
  <2>2. g_pdp_known_active' \in BOOLEAN
    BY <1>0, <1>4, Zenon DEF ReadLast, QueryResult, DriverTyped
  <2>3. QED
    BY <2>1, <2>2, ReturnTyped DEF DriverTyped
<1>5. CASE ReadError \/ TimeOut
  <2>1. Return(FALSE)
    BY <1>5 DEF ReadError, TimeOut
  <2>2. g_pdp_known_active' \in BOOLEAN
    <3>1. CASE ReadError
      BY <1>0, <3>1 DEF ReadError, DriverTyped
    <3>2. CASE TimeOut
      BY <1>0, <3>2, Zenon DEF TimeOut, DriverTyped
    <3>3. QED
      BY <1>5, <3>1, <3>2
  <2>3. QED
    BY <2>1, <2>2, ReturnTyped DEF DriverTyped
<1>6. CASE Boot
  BY <1>0, <1>6 DEF Boot, DriverTyped
<1>7. QED
  BY <1>1, <1>2, <1>3, <1>4, <1>5, <1>6
     DEF Next, Obey, Ignore, Say, DropPdp, Restart, Flush, vars

\* The queue.
LEMMA QueueStep == TypeOK /\ [Next]_vars => QueueTyped'
<1> SUFFICES ASSUME TypeOK, [Next]_vars PROVE QueueTyped'
  OBVIOUS
<1>0. QueueTyped
  BY Typed
<1>1. CASE UNCHANGED line_queue
  BY <1>0, <1>1 DEF QueueTyped
<1>2. CASE Say
  BY <1>2, SayPushes, Pushed DEF QueueTyped
<1>3. CASE DropPdp
  <2>1. PushLine("deactive", 0) /\ "deactive" \in Texts
    BY <1>3 DEF DropPdp, Texts
  <2>2. QED
    BY <2>1, Pushed DEF QueueTyped
<1>4. CASE Reading
  BY <1>0, <1>4, Taken, LinkAssumption DEF QueueTyped
<1>5. CASE line_queue' = <<>>
  BY <1>5, LinkAssumption DEF QueueTyped
<1>6. QED
  BY <1>1, <1>2, <1>3, <1>4, <1>5
     DEF Next, Obey, Ignore, Restart, Send, ReadOn, ReadLast, ReadError, TimeOut, Flush,
         Boot, vars

\* The modem.
LEMMA DeviceStep == TypeOK /\ [Next]_vars => DeviceTyped'
<1> SUFFICES ASSUME TypeOK, [Next]_vars PROVE DeviceTyped'
  OBVIOUS
<1>0. DeviceTyped
  BY Typed
<1>1. CASE UNCHANGED device
  BY <1>0, <1>1 DEF DeviceTyped
<1>2. CASE Obey
  <2>1. pdp' \in BOOLEAN
    BY <1>0, <1>2, Zenon DEF Obey, DeviceTyped
  <2>2. QED
    BY <1>2, <2>1, Obeyed DEF DeviceTyped
<1>3. CASE Ignore
  BY <1>0, <1>3, FirstAndRest DEF Ignore, DeviceTyped
<1>4. CASE Say
  BY <1>0, <1>4, FirstAndRest DEF Say, DeviceTyped
<1>5. CASE DropPdp
  BY <1>0, <1>5 DEF DropPdp, DeviceTyped
<1>6. CASE Send
  <2>1. PICK kind \in Kinds \ {"action"} : Issue(kind)
    BY <1>6 DEF Send
  <2>2. UNCHANGED <<reply, pdp>>
    BY <1>6 DEF Send
  <2>3. QED
    BY <1>0, <2>1, <2>2, Issued DEF DeviceTyped
<1>7. CASE ReadLast \/ ReadError \/ TimeOut
  <2>1. PICK ok \in BOOLEAN : Return(ok)
    BY <1>7, Zenon DEF ReadLast, ReadError, TimeOut, QueryResult
  <2>2. UNCHANGED <<reply, pdp>>
    BY <1>7 DEF ReadLast, ReadError, TimeOut
  <2>3. QED
    BY <1>0, <2>1, <2>2, ReturnTyped DEF DeviceTyped
<1>8. CASE Restart
  <2>1. asked' = <<>> /\ reply' = <<>> /\ pdp' = FALSE
    BY <1>8 DEF Restart
  <2>2. asked' \in Seq([kind : Kinds, cmd : Nat])
    BY <2>1
  <2>3. reply' \in Seq([text : {"ok", "error", "report", "info"}, cmd : Nat])
    BY <2>1
  <2>4. QED
    BY <2>1, <2>2, <2>3 DEF DeviceTyped
<1>9. QED
  BY <1>1, <1>2, <1>3, <1>4, <1>5, <1>6, <1>7, <1>8 DEF Next, ReadOn, Flush, Boot, vars

\* The history.
LEMMA HistoryStep == TypeOK /\ [Next]_vars => HistoryTyped'
<1> SUFFICES ASSUME TypeOK, [Next]_vars PROVE HistoryTyped'
  OBVIOUS
<1>0. HistoryTyped
  BY Typed
<1>1. CASE UNCHANGED <<said, results, sent, missed, inherited>>
  BY <1>0, <1>1 DEF HistoryTyped
<1>2. CASE Obey
  <2>1. said' \in Seq({"none", "ok", "error"})
    BY <1>2, Obeyed, SaidNow DEF Accepts, Refuses
  <2>2. sent' \in BOOLEAN
    BY <1>0, <1>2, Zenon DEF Obey, HistoryTyped
  <2>3. UNCHANGED <<results, missed, inherited>>
    BY <1>2 DEF Obey
  <2>4. QED
    BY <1>0, <2>1, <2>2, <2>3 DEF HistoryTyped
<1>3. CASE Say
  <2>1. missed' \in SUBSET Losses
    BY <1>3, SayPushes, Pushed
  <2>2. UNCHANGED <<said, results, sent, inherited>>
    BY <1>3 DEF Say
  <2>3. QED
    BY <1>0, <2>1, <2>2 DEF HistoryTyped
<1>4. CASE DropPdp
  <2>1. PushLine("deactive", 0) /\ "deactive" \in Texts
    BY <1>4 DEF DropPdp, Texts
  <2>2. missed' \in SUBSET Losses
    BY <2>1, Pushed
  <2>3. UNCHANGED <<said, results, sent, inherited>>
    BY <1>4 DEF DropPdp
  <2>4. QED
    BY <1>0, <2>2, <2>3 DEF HistoryTyped
<1>5. CASE Send
  <2>1. PICK kind \in Kinds \ {"action"} : Issue(kind)
    BY <1>5 DEF Send
  <2>2. UNCHANGED <<results, sent, missed, inherited>>
    BY <1>5 DEF Send
  <2>3. QED
    BY <1>0, <2>1, <2>2, Issued DEF HistoryTyped
<1>6. CASE ReadLast \/ ReadError \/ TimeOut
  <2>1. PICK ok \in BOOLEAN : Return(ok)
    BY <1>6, Zenon DEF ReadLast, ReadError, TimeOut, QueryResult
  <2>2. missed' \in SUBSET Losses
    BY <1>0, <1>6 DEF ReadLast, ReadError, TimeOut, HistoryTyped, Losses
  <2>3. UNCHANGED <<sent, inherited>>
    BY <1>6 DEF ReadLast, ReadError, TimeOut
  <2>4. QED
    BY <1>0, <2>1, <2>2, <2>3, ReturnTyped DEF HistoryTyped
<1>7. CASE Flush
  BY <1>0, <1>7 DEF Flush, HistoryTyped, Losses
<1>8. CASE Boot
  <2>1. inherited' \in BOOLEAN
    BY <1>8, Zenon DEF Boot
  <2>2. /\ sent' = FALSE /\ missed' = {} /\ UNCHANGED <<said, results>>
    BY <1>8 DEF Boot
  <2>3. QED
    BY <1>0, <2>1, <2>2 DEF HistoryTyped
<1>9. CASE Restart
  BY <1>0, <1>9 DEF Restart, HistoryTyped, Losses
<1>10. QED
  BY <1>1, <1>2, <1>3, <1>4, <1>5, <1>6, <1>7, <1>8, <1>9 DEF Next, Ignore, ReadOn, vars

\* The request whose report a line is.
LEMMA ReportTyped ==
  ASSUME TypeOK, Reading
  PROVE  ReportWith(Head(line_queue)) \in Nat
<1>1. Head(line_queue).cmd \in Nat
  BY Taken DEF Line
<1>2. QED
  BY <1>1 DEF ReportWith, TypeOK

\* What is known of the requests behind the calls that returned true.
LEMMA CreditStep == TypeOK /\ [Next]_vars => CreditTyped'
<1> SUFFICES ASSUME TypeOK, [Next]_vars PROVE CreditTyped'
  OBVIOUS
<1>0. CreditTyped
  BY Typed
<1>1. CASE UNCHANGED credit
  BY <1>0, <1>1 DEF CreditTyped
<1>2. CASE ReadOn
  <2>1. Reading /\ report' = ReportWith(Head(line_queue)) /\ UNCHANGED backed
    BY <1>2 DEF ReadOn
  <2>2. QED
    BY <1>0, <2>1, ReportTyped DEF CreditTyped
<1>3. CASE ReadLast
  <2>1. PICK ok \in BOOLEAN : Return(ok)
    BY <1>3, Zenon DEF ReadLast, QueryResult
  <2>2. ReportWith(Head(line_queue)) \in Nat
    BY <1>3, ReportTyped DEF ReadLast
  <2>3. report' = 0 /\ backed' \in Seq(Nat)
    <3>1. /\ report' = 0
          /\ backed' = IF ok /\ waiting = "action"
                       THEN Append(backed, ReportWith(Head(line_queue))) ELSE backed
      BY <2>1, Returns
    <3>2. backed \in Seq(Nat) /\ Append(backed, ReportWith(Head(line_queue))) \in Seq(Nat)
      BY <1>0, <2>2, OneMore DEF CreditTyped
    <3>3. QED
      BY <3>1, <3>2, Zenon
  <2>4. QED
    BY <2>3 DEF CreditTyped
<1>4. CASE ReadError \/ TimeOut
  <2>1. Return(FALSE)
    BY <1>4 DEF ReadError, TimeOut
  <2>2. report' = 0 /\ backed' = backed
    BY <2>1 DEF Return
  <2>3. QED
    BY <1>0, <2>2 DEF CreditTyped
<1>5. QED
  BY <1>1, <1>2, <1>3, <1>4
     DEF Next, Obey, Ignore, Say, DropPdp, Restart, Send, Flush, Boot, vars

\* Every step keeps every variable in its type.
LEMMA TypeStep == TypeOK /\ [Next]_vars => TypeOK'
<1> SUFFICES ASSUME TypeOK, [Next]_vars PROVE TypeOK'
  OBVIOUS
<1>1. BoundsTyped'
  <2>1. BoundsTyped
    BY Typed
  <2>2. CASE UNCHANGED bounds
    BY <2>1, <2>2 DEF BoundsTyped
  <2>3. CASE DropPdp
    BY <2>1, <2>3, LinkAssumption DEF DropPdp, BoundsTyped
  <2>4. CASE TimeOut
    <3>1. /\ \/ late < MaxLate /\ late' = late + 1
             \/ late' = late
          /\ UNCHANGED <<news, boots, restarts>>
      BY <2>4 DEF TimeOut
    <3>2. QED
      BY <2>1, <3>1, LinkAssumption DEF BoundsTyped
  <2>5. CASE Boot
    BY <2>1, <2>5, LinkAssumption DEF Boot, BoundsTyped
  <2>6. CASE Restart
    BY <2>1, <2>6, LinkAssumption DEF Restart, BoundsTyped
  <2>7. QED
    BY <2>2, <2>3, <2>4, <2>5, <2>6
       DEF Next, Obey, Ignore, Say, Send, ReadOn, ReadLast, ReadError, Flush, vars
<1>2. DriverTyped' /\ QueueTyped' /\ DeviceTyped' /\ HistoryTyped' /\ CreditTyped'
  BY DriverStep, QueueStep, DeviceStep, HistoryStep, CreditStep
<1>3. QED
  BY <1>1, <1>2, Zenon
     DEF TypeOK, DriverTyped, QueueTyped, DeviceTyped, HistoryTyped, CreditTyped, BoundsTyped

-----------------------------------------------------------------------------
(* What holds however late the answers are.                                *)

\* The state before the first command.
LEMMA InitIInv == Init => IInv
<1> SUFFICES ASSUME Init PROVE IInv
  OBVIOUS
<1>1. TypeOK
  <2>1. DriverTyped
    BY DEF Init, DriverTyped
  <2>2. QueueTyped
    BY LinkAssumption DEF Init, QueueTyped
  <2>3. DeviceTyped
    BY DEF Init, DeviceTyped
  <2>4. HistoryTyped
    <3>1. said \in Seq({"none", "ok", "error"}) /\ results \in Seq(BOOLEAN)
      BY DEF Init
    <3>2. sent = FALSE /\ missed = {} /\ inherited = FALSE
      BY DEF Init
    <3>3. QED
      BY <3>1, <3>2 DEF HistoryTyped
  <2>5. BoundsTyped
    BY LinkAssumption DEF Init, BoundsTyped
  <2>6. CreditTyped
    BY DEF Init, CreditTyped
  <2>7. QED
    BY <2>1, <2>2, <2>3, <2>4, <2>5, <2>6, Typed
<1>2. AskedNumbered /\ NewsInv /\ WaitInv /\ BeliefInv /\ SentInv
  BY DEF Init, AskedNumbered, NewsInv, WaitInv, BeliefInv, BeliefIsTrue, QueueBelief,
     SeenBelief, SentInv, Mentions, Coming
<1>3. OwnAnswer /\ IdleInv /\ AskedInv /\ SaidInv /\ LastInv /\ OnceInv
  BY DEF Init, OwnAnswer, IdleInv, AskedInv, SaidInv, LastInv, OnceInv
<1>4. AskedFresh /\ ReportInv
  BY DEF Init, AskedFresh, ReportInv, ReplyReports, QueueReports, ReadReport, EachHasRequest
<1>5. QED
  BY <1>1, <1>2, <1>3, <1>4 DEF IInv, PortInv

\* A pushed line is one that was there, or the new one.
LEMMA NewsStep ==
  ASSUME TypeOK, NewsInv, AskedNumbered, [Next]_vars
  PROVE  NewsInv'
<1>1. CASE UNCHANGED line_queue
  BY <1>1 DEF NewsInv
<1>2. CASE Say
  <2>1. PICK text \in Texts : PushLine(text, reply[1].cmd)
    BY <1>2, SayPushes
  <2>2. reply[1].cmd \in Nat /\ reply[1].cmd # 0
    BY <1>2, SayPushes DEF AskedNumbered
  <2>3. QED
    BY <2>1, <2>2, PushedLine DEF NewsInv
<1>3. CASE DropPdp
  <2>1. PushLine("deactive", 0) /\ "deactive" \in Texts
    BY <1>3 DEF DropPdp, Texts
  <2>2. QED
    BY <2>1, PushedLine DEF NewsInv
<1>4. CASE Reading
  BY <1>4, Taken DEF NewsInv
<1>5. CASE line_queue' = <<>>
  BY <1>5 DEF NewsInv
<1>6. QED
  BY <1>1, <1>2, <1>3, <1>4, <1>5
     DEF Next, Obey, Ignore, Restart, Send, ReadOn, ReadLast, ReadError, TimeOut, Flush,
         Boot, vars

\* Commands are counted from one.
LEMMA NumberedStep ==
  ASSUME TypeOK, AskedNumbered, [Next]_vars
  PROVE  AskedNumbered'
<1>1. asked \in Seq([kind : Kinds, cmd : Nat]) /\ Len(said) \in Nat
  BY DEF TypeOK
<1>2. CASE UNCHANGED <<asked, reply>>
  BY <1>2 DEF AskedNumbered
<1>3. CASE Obey
  <2>1. /\ asked' = Tail(asked) /\ asked # <<>> /\ asked[1].cmd # 0
        /\ \A i \in 1 .. Len(reply') : reply'[i].cmd = asked[1].cmd
    BY <1>1, <1>3, Obeyed DEF Obey, AskedNumbered
  <2>2. QED
    BY <1>1, <2>1, FirstAndRest DEF AskedNumbered
<1>4. CASE Ignore
  <2>1. asked' = Tail(asked) /\ asked # <<>> /\ UNCHANGED reply
    BY <1>4 DEF Ignore
  <2>2. QED
    BY <1>1, <2>1, FirstAndRest DEF AskedNumbered
<1>5. CASE Say
  BY <1>5, SayPushes DEF AskedNumbered, Say
<1>6. CASE \E kind \in Kinds : Issue(kind) /\ UNCHANGED reply
  <2>1. PICK kind \in Kinds : Issue(kind) /\ UNCHANGED reply
    BY <1>6
  <2>2. /\ Len(asked') = Len(asked) + 1
        /\ \A i \in 1 .. Len(asked) : asked'[i] = asked[i]
        /\ asked'[Len(asked) + 1] = [kind |-> kind, cmd |-> Len(said) + 1]
    BY <2>1, Issued
  <2>3. \A i \in 1 .. Len(asked') : asked'[i].cmd # 0
    BY <1>1, <2>2 DEF AskedNumbered
  <2>4. QED
    BY <2>1, <2>3 DEF AskedNumbered
<1>7. CASE ReadLast \/ ReadError \/ TimeOut
  <2>1. PICK ok \in BOOLEAN : Return(ok)
    BY <1>7, Zenon DEF ReadLast, ReadError, TimeOut, QueryResult
  <2>2. UNCHANGED reply
    BY <1>7 DEF ReadLast, ReadError, TimeOut
  <2>3. QED
    BY <1>2, <1>6, <2>1, <2>2, Returns DEF Kinds
<1>8. CASE Restart
  BY <1>8 DEF Restart, AskedNumbered
<1>9. QED
  BY <1>2, <1>3, <1>4, <1>5, <1>6, <1>7, <1>8
     DEF Next, DropPdp, Send, ReadOn, Flush, Boot, vars

\* A line that does not end the wait leaves something to wait for.
LEMMA WaitStep ==
  ASSUME TypeOK, WaitInv, [Next]_vars
  PROVE  WaitInv'
<1>1. CASE UNCHANGED <<waiting, seen>>
  BY <1>1 DEF WaitInv
<1>2. CASE seen' = {}
  BY <1>2 DEF WaitInv, Awaited
<1>3. CASE ReadOn
  <2>1. /\ waiting # "none" /\ waiting' = waiting
        /\ seen' = SeenWith(Head(line_queue).text)
        /\ ~(Awaited(waiting) \subseteq seen')
        /\ Head(line_queue).text # "error"
    BY <1>3 DEF ReadOn, Reading
  <2>2. "error" \notin seen'
    BY <2>1 DEF SeenWith, WaitInv
  <2>3. QED
    BY <2>1, <2>2 DEF WaitInv
<1>4. CASE ReadLast \/ ReadError \/ TimeOut
  <2>1. PICK ok \in BOOLEAN : Return(ok)
    BY <1>4, Zenon DEF ReadLast, ReadError, TimeOut, QueryResult
  <2>2. seen' = {}
    BY <2>1 DEF Return, Issue
  <2>3. QED
    BY <1>2, <2>2
<1>5. QED
  BY <1>1, <1>2, <1>3, <1>4
     DEF Next, Obey, Ignore, Say, DropPdp, Restart, Send, Issue, Flush, Boot, vars

\* A report, wherever it gets to, is of a request that was sent.
LEMMA SentStep ==
  ASSUME TypeOK, WaitInv, SentInv, [Next]_vars
  PROVE  SentInv'
<1>1. CASE UNCHANGED <<seen, published, line_queue, reply, sent, inherited>>
  BY <1>1 DEF SentInv, Mentions, Coming
<1>2. CASE Obey
  <2>1. UNCHANGED <<seen, published, line_queue, inherited>>
    BY <1>2 DEF Obey
  <2>2. Coming("report")' => sent'
    <3>1. CASE Accepts(asked[1])
      BY <3>1 DEF Accepts, Coming
    <3>2. CASE Refuses(asked[1])
      BY <3>2 DEF Refuses, Coming
    <3>3. QED
      BY <1>2, <3>1, <3>2, Obeyed
  <2>3. sent => sent'
    BY <1>2 DEF Obey
  <2>4. QED
    BY <2>1, <2>2, <2>3 DEF SentInv, Mentions
<1>3. CASE Say
  <2>1. /\ Len(reply) >= 1
        /\ Len(reply') = Len(reply) - 1
        /\ \A i \in 1 .. Len(reply') : reply'[i] = reply[i + 1]
    BY <1>3, SayPushes
  <2>2. PICK text \in Texts :
          PushLine(text, reply[1].cmd) /\ (text = "report" => reply[1].text = "report")
    BY <1>3, SayPushes
  <2>3. reply[1].cmd \in Nat
    BY <1>3, SayPushes
  <2>4. Mentions("report")' => Mentions("report") \/ Coming("report")
    BY <2>1, <2>2, <2>3, PushedLine DEF Mentions, Coming
  <2>5. Coming("report")' => Coming("report")
    BY <2>1 DEF Coming
  <2>6. UNCHANGED <<seen, published, sent, inherited>>
    BY <1>3 DEF Say
  <2>7. QED
    BY <2>4, <2>5, <2>6 DEF SentInv
<1>4. CASE DropPdp
  <2>1. PushLine("deactive", 0) /\ "deactive" \in Texts
    BY <1>4 DEF DropPdp, Texts
  <2>2. Mentions("report")' => Mentions("report")
    BY <2>1, PushedLine DEF Mentions
  <2>3. UNCHANGED <<seen, published, reply, sent, inherited>>
    BY <1>4 DEF DropPdp
  <2>4. QED
    BY <2>2, <2>3 DEF SentInv, Coming
<1>5. CASE Send \/ ReadError \/ TimeOut
  <2>1. seen' = {}
    BY <1>5 DEF Send, ReadError, TimeOut, Return, Issue
  <2>2. UNCHANGED <<reply, sent, inherited>> /\ (published' => published)
    <3>1. CASE Send
      BY <3>1 DEF Send
    <3>2. CASE ReadError
      BY <3>2 DEF ReadError, Return
    <3>3. CASE TimeOut
      BY <3>3 DEF TimeOut, Return
    <3>4. QED
      BY <1>5, <3>1, <3>2, <3>3
  <2>3. Mentions("report")' => Mentions("report")
    <3>1. CASE Reading
      BY <3>1, Taken DEF Mentions
    <3>2. CASE UNCHANGED line_queue
      BY <3>2 DEF Mentions
    <3>3. QED
      BY <1>5, <3>1, <3>2 DEF Send, ReadError, TimeOut
  <2>4. QED
    BY <2>1, <2>2, <2>3 DEF SentInv, Coming
<1>6. CASE ReadOn \/ ReadLast
  <2>1. Reading
    BY <1>6 DEF ReadOn, ReadLast
  <2>2. Mentions("report")' => Mentions("report")
    BY <2>1, Taken DEF Mentions
  <2>3. "report" \in SeenWith(Head(line_queue).text) => "report" \in seen \/ Mentions("report")
    BY <2>1, Taken DEF Mentions, SeenWith
  <2>4. UNCHANGED <<reply, sent, inherited>>
    BY <1>6 DEF ReadOn, ReadLast
  <2>5. /\ "report" \in seen' => "report" \in SeenWith(Head(line_queue).text)
        /\ published' => published \/ "report" \in SeenWith(Head(line_queue).text)
    <3>1. CASE ReadOn
      BY <3>1 DEF ReadOn
    <3>2. CASE ReadLast
      <4>1. PICK ok \in BOOLEAN : Return(ok)
        BY <3>2, Zenon DEF ReadLast, QueryResult
      <4>2. seen' = {} /\ (published' => published \/ waiting = "action")
        BY <4>1 DEF Return, Issue
      <4>3. waiting = "action" => "report" \in SeenWith(Head(line_queue).text)
        BY <3>2 DEF ReadLast, Awaited
      <4>4. QED
        BY <4>2, <4>3
    <3>3. QED
      BY <1>6, <3>1, <3>2
  <2>6. QED
    BY <2>2, <2>3, <2>4, <2>5 DEF SentInv, Coming
<1>7. CASE Flush
  <2>1. ~Mentions("report")' /\ UNCHANGED <<seen, published, reply, sent, inherited>>
    BY <1>7 DEF Flush, Mentions
  <2>2. QED
    BY <2>1 DEF SentInv, Coming
<1>8. CASE Boot
  <2>1. /\ ~Mentions("report")' /\ seen' = {} /\ published' = FALSE
    BY <1>8 DEF Boot, Mentions
  <2>2. reply' = reply /\ (~inherited' => reply = <<>>)
    BY <1>8, Zenon DEF Boot
  <2>3. ~inherited' => ~Coming("report")'
    BY <2>2 DEF Coming
  <2>4. QED
    BY <2>1, <2>3 DEF SentInv
<1>9. CASE Restart
  BY <1>9 DEF Restart, SentInv, Mentions, Coming
<1>10. QED
  BY <1>1, <1>2, <1>3, <1>4, <1>5, <1>6, <1>7, <1>8, <1>9 DEF Next, Ignore, vars

\* Commands are numbered as they are asked.
LEMMA FreshStep ==
  ASSUME TypeOK, AskedFresh, [Next]_vars
  PROVE  AskedFresh'
<1>0. asked \in Seq([kind : Kinds, cmd : Nat]) /\ said \in Seq({"none", "ok", "error"})
  BY DEF TypeOK
<1>1. CASE UNCHANGED <<asked, said>>
  BY <1>1 DEF AskedFresh
<1>2. CASE Obey
  <2>1. /\ Len(asked) >= 1 /\ asked' = Tail(asked) /\ asked # <<>>
        /\ Accepts(asked[1]) \/ Refuses(asked[1])
    BY <1>2, Obeyed DEF Obey
  <2>2. /\ Len(asked') = Len(asked) - 1
        /\ \A i \in 1 .. Len(asked') : asked'[i] = asked[i + 1]
    BY <1>0, <2>1, FirstAndRest
  <2>3. /\ Len(said') = Len(said)
        /\ \A n \in 1 .. Len(said) : n # asked[1].cmd => said'[n] = said[n]
    BY <2>1, SaidNow DEF Accepts, Refuses
  <2>4. \A i \in 1 .. Len(asked') : asked'[i].cmd # asked[1].cmd
    BY <2>1, <2>2 DEF AskedFresh
  <2>5. QED
    BY <2>1, <2>2, <2>3, <2>4 DEF AskedFresh
<1>3. CASE Ignore
  <2>1. asked' = Tail(asked) /\ asked # <<>> /\ said' = said
    BY <1>3 DEF Ignore
  <2>2. /\ Len(asked') = Len(asked) - 1
        /\ \A i \in 1 .. Len(asked') : asked'[i] = asked[i + 1]
    BY <1>0, <2>1, FirstAndRest
  <2>3. QED
    BY <1>0, <2>1, <2>2 DEF AskedFresh
<1>4. CASE \E kind \in Kinds : Issue(kind)
  <2>0. PICK kind \in Kinds : Issue(kind)
    BY <1>4
  <2>1. /\ Len(asked') = Len(asked) + 1
        /\ \A i \in 1 .. Len(asked) : asked'[i] = asked[i]
        /\ asked'[Len(asked) + 1].cmd = Len(said) + 1
        /\ Len(said') = Len(said) + 1
        /\ \A n \in 1 .. Len(said) : said'[n] = said[n]
        /\ said'[Len(said) + 1] = "none"
    <3>1. asked'[Len(asked) + 1] = [kind |-> kind, cmd |-> Len(said) + 1]
      BY <2>0, Issued
    <3>2. asked'[Len(asked) + 1].cmd = Len(said) + 1
      BY <3>1
    <3>3. QED
      BY <2>0, <3>2, Issued
  <2>2. Len(asked) \in Nat /\ Len(said) \in Nat
    BY <1>0
  <2>3. ASSUME NEW i \in 1 .. Len(asked')
        PROVE  /\ asked'[i].cmd \in 1 .. Len(said') /\ said'[asked'[i].cmd] = "none"
               /\ \A j \in i + 1 .. Len(asked') : asked'[j].cmd # asked'[i].cmd
    <3>1. CASE i = Len(asked) + 1
      <4>1. asked'[i].cmd = Len(said) + 1
        BY <2>1, <3>1
      <4>2. i + 1 .. Len(asked') = {}
        BY <2>1, <2>2, <3>1
      <4>3. Len(said) + 1 \in 1 .. Len(said') /\ said'[Len(said) + 1] = "none"
        BY <2>1, <2>2
      <4>4. QED
        BY <4>1, <4>2, <4>3
    <3>2. CASE i \in 1 .. Len(asked)
      <4>1. /\ asked'[i].cmd \in 1 .. Len(said) /\ said[asked'[i].cmd] = "none"
            /\ \A j \in i + 1 .. Len(asked) : asked[j].cmd # asked'[i].cmd
        BY <2>1, <3>2 DEF AskedFresh
      <4>2. asked'[i].cmd \in 1 .. Len(said') /\ said'[asked'[i].cmd] = "none"
        BY <2>1, <2>2, <4>1
      <4>3. ASSUME NEW j \in i + 1 .. Len(asked') PROVE asked'[j].cmd # asked'[i].cmd
        <5>1. CASE j = Len(asked) + 1
          <6>1. asked'[j].cmd = Len(said) + 1
            BY <2>1, <5>1
          <6>2. QED
            BY <2>2, <4>1, <6>1
        <5>2. CASE j \in i + 1 .. Len(asked)
          <6>1. asked'[j] = asked[j]
            BY <2>1, <2>2, <3>2, <5>2
          <6>2. QED
            BY <4>1, <5>2, <6>1
        <5>3. QED
          BY <2>1, <2>2, <3>2, <4>3, <5>1, <5>2
      <4>4. QED
        BY <4>2, <4>3
    <3>3. QED
      BY <2>1, <2>2, <3>1, <3>2
  <2>4. QED
    BY <2>3 DEF AskedFresh
<1>5. CASE ReadLast \/ ReadError \/ TimeOut
  <2>1. PICK ok \in BOOLEAN : Return(ok)
    BY <1>5, Zenon DEF ReadLast, ReadError, TimeOut, QueryResult
  <2>2. QED
    BY <1>1, <1>4, <2>1, Returns DEF Kinds
<1>6. CASE Restart
  BY <1>6 DEF Restart, AskedFresh
<1>7. QED
  BY <1>1, <1>2, <1>3, <1>4, <1>5, <1>6
     DEF Next, Say, DropPdp, Send, ReadOn, Flush, Boot, vars

\* What the modem has said it does not take back.
LEMMA SentStays ==
  ASSUME TypeOK, AskedFresh, [Next]_vars, NEW m, IsSent(m)
  PROVE  IsSent(m)'
<1>0. said \in Seq({"none", "ok", "error"})
  BY DEF TypeOK
<1>1. CASE UNCHANGED said
  BY <1>1 DEF IsSent
<1>2. CASE Obey
  <2>1. Len(asked) >= 1 /\ (Accepts(asked[1]) \/ Refuses(asked[1]))
    BY <1>2, Obeyed
  <2>2. m # asked[1].cmd
    BY <2>1 DEF AskedFresh, IsSent
  <2>3. QED
    BY <2>1, <2>2, SaidNow DEF Accepts, Refuses, IsSent
<1>3. CASE \E kind \in Kinds : Issue(kind)
  <2>1. PICK kind \in Kinds : Issue(kind)
    BY <1>3
  <2>2. Len(said') = Len(said) + 1 /\ \A n \in 1 .. Len(said) : said'[n] = said[n]
    BY <2>1, Issued
  <2>3. QED
    BY <1>0, <2>2 DEF IsSent
<1>4. CASE ReadLast \/ ReadError \/ TimeOut
  <2>1. PICK ok \in BOOLEAN : Return(ok)
    BY <1>4, Zenon DEF ReadLast, ReadError, TimeOut, QueryResult
  <2>2. QED
    BY <1>1, <1>3, <2>1, Returns DEF Kinds
<1>5. QED
  BY <1>1, <1>2, <1>3, <1>4
     DEF Next, Ignore, Say, DropPdp, Restart, Send, ReadOn, Flush, Boot, vars

\* The report that a wait has read with the next line, and those left behind it.
LEMMA NextReport ==
  ASSUME TypeOK, ReportInv, Reading, NEW r, r = ReportWith(Head(line_queue))
  PROVE  /\ r # 0 =>
              /\ IsSent(r) /\ \A i \in 1 .. Len(backed) : backed[i] # r
              /\ \A i \in 1 .. Len(line_queue') :
                   line_queue'[i].text = "report" => line_queue'[i].cmd # r
              /\ \A i \in 1 .. Len(reply) : reply[i].text = "report" => reply[i].cmd # r
         /\ "report" \in SeenWith(Head(line_queue).text) => r # 0
         /\ \A i \in 1 .. Len(line_queue') :
              line_queue'[i].text = "report" =>
                /\ Unused(line_queue'[i].cmd)
                /\ \A j \in i + 1 .. Len(line_queue') :
                     line_queue'[j].text = "report" => line_queue'[j].cmd # line_queue'[i].cmd
                /\ \A j \in 1 .. Len(reply) :
                     reply[j].text = "report" => reply[j].cmd # line_queue'[i].cmd
<1>1. /\ Len(line_queue) \in Nat /\ Len(line_queue) >= 1
      /\ Head(line_queue) = line_queue[1]
      /\ Len(line_queue') = Len(line_queue) - 1
      /\ \A i \in 1 .. Len(line_queue') : line_queue'[i] = line_queue[i + 1]
  BY Taken
<1>2. ASSUME NEW i \in 1 .. Len(line_queue'), line_queue'[i].text = "report"
      PROVE  /\ Unused(line_queue'[i].cmd)
             /\ \A j \in i + 1 .. Len(line_queue') :
                  line_queue'[j].text = "report" => line_queue'[j].cmd # line_queue'[i].cmd
             /\ \A j \in 1 .. Len(reply) :
                  reply[j].text = "report" => reply[j].cmd # line_queue'[i].cmd
             /\ line_queue[1].text = "report" => line_queue'[i].cmd # line_queue[1].cmd
  <2>1. i + 1 \in 1 .. Len(line_queue) /\ line_queue'[i] = line_queue[i + 1]
    BY <1>1, <1>2
  <2>2. Unused(line_queue[i + 1].cmd)
    BY <1>2, <2>1 DEF ReportInv, QueueReports
  <2>3. \A j \in i + 1 .. Len(line_queue') :
          line_queue'[j].text = "report" => line_queue'[j].cmd # line_queue[i + 1].cmd
    BY <1>1, <1>2, <2>1 DEF ReportInv, QueueReports
  <2>4. \A j \in 1 .. Len(reply) :
          reply[j].text = "report" => reply[j].cmd # line_queue[i + 1].cmd
    BY <1>2, <2>1 DEF ReportInv, ReplyReports
  <2>5. line_queue[1].text = "report" => line_queue[i + 1].cmd # line_queue[1].cmd
    BY <1>1, <1>2, <2>1 DEF ReportInv, QueueReports
  <2>6. QED
    BY <2>1, <2>2, <2>3, <2>4, <2>5
<1>3. CASE line_queue[1].text = "report"
  <2>1. r = line_queue[1].cmd
    BY <1>1, <1>3 DEF ReportWith
  <2>2. Unused(r)
    BY <1>1, <1>3, <2>1 DEF ReportInv, QueueReports
  <2>3. r # 0 /\ IsSent(r) /\ \A i \in 1 .. Len(backed) : backed[i] # r
    BY <2>2 DEF Unused, IsSent
  <2>4. \A i \in 1 .. Len(reply) : reply[i].text = "report" => reply[i].cmd # r
    BY <1>1, <1>3, <2>1 DEF ReportInv, ReplyReports
  <2>5. QED
    BY <1>2, <1>3, <2>1, <2>3, <2>4
<1>4. CASE line_queue[1].text # "report"
  <2>1. r = report
    BY <1>1, <1>4 DEF ReportWith
  <2>2. r # 0 => IsSent(r) /\ \A i \in 1 .. Len(backed) : backed[i] # r
    BY <2>1 DEF ReportInv, ReadReport
  <2>3. \A i \in 1 .. Len(line_queue') :
          line_queue'[i].text = "report" => line_queue'[i].cmd # r
    BY <1>2, <2>1 DEF Unused
  <2>4. \A i \in 1 .. Len(reply) : reply[i].text = "report" => reply[i].cmd # r
    BY <2>1 DEF ReportInv, ReplyReports, Unused
  <2>5. "report" \in SeenWith(Head(line_queue).text) => r # 0
    BY <1>1, <1>4, <2>1 DEF SeenWith, ReportInv, ReadReport
  <2>6. QED
    BY <1>2, <2>2, <2>3, <2>4, <2>5
<1>5. QED
  BY <1>3, <1>4

\* A report is of one request, and a publish that succeeds uses it up.
LEMMA ReportStep ==
  ASSUME TypeOK, AskedFresh, ReportInv, [Next]_vars
  PROVE  ReportInv'
<1>0. /\ \A m : IsSent(m) => IsSent(m)'
      /\ report \in Nat /\ backed \in Seq(Nat)
      /\ Len(line_queue) \in Nat /\ Len(reply) \in Nat
  BY SentStays DEF TypeOK
<1>1. ASSUME UNCHANGED credit
      PROVE  (\A m : Unused(m) => Unused(m)') /\ EachHasRequest'
  <2>1. \A m : Unused(m) => Unused(m)'
    BY <1>0, <1>1 DEF Unused
  <2>2. EachHasRequest'
    BY <1>0, <1>1 DEF ReportInv, EachHasRequest, IsSent
  <2>3. QED
    BY <2>1, <2>2
<1>2. ASSUME UNCHANGED credit, "report" \in seen' => "report" \in seen
      PROVE  ReadReport'
  BY <1>0, <1>2 DEF ReportInv, ReadReport
<1>3. CASE UNCHANGED <<line_queue, reply, credit>> /\ ("report" \in seen' => "report" \in seen)
  <2>1. QueueReports' /\ ReplyReports'
    BY <1>1, <1>3 DEF ReportInv, QueueReports, ReplyReports
  <2>2. QED
    BY <1>1, <1>2, <1>3, <2>1 DEF ReportInv
<1>4. CASE Obey
  <2>1. /\ Len(asked) >= 1 /\ reply = <<>> /\ Len(reply') \in Nat
        /\ \A i \in 1 .. Len(reply') : reply'[i].cmd = asked[1].cmd
        /\ Accepts(asked[1]) \/ Refuses(asked[1])
    BY <1>4, Obeyed
  <2>2. /\ asked[1].cmd \in 1 .. Len(said)
        /\ \A m : IsSent(m) => m # asked[1].cmd
    BY <2>1 DEF AskedFresh, IsSent
  <2>3. UNCHANGED <<line_queue, credit, seen>>
    BY <1>4 DEF Obey
  <2>4. QueueReports'
    BY <1>1, <2>3 DEF ReportInv, QueueReports
  <2>5. ReplyReports'
    <3>1. CASE Refuses(asked[1])
      BY <2>1, <3>1 DEF Refuses, ReplyReports
    <3>2. CASE Accepts(asked[1])
      <4>0. PICK m : m = asked[1].cmd
        OBVIOUS
      <4>1. IsSent(m)'
        <5>1. said' = [said EXCEPT ![m] = "ok"] /\ m \in 1 .. Len(said)
          BY <2>2, <3>2, <4>0 DEF Accepts
        <5>2. QED
          BY <5>1, SaidNow DEF IsSent
      <4>2. /\ m # report
            /\ \A i \in 1 .. Len(backed) : backed[i] # m
            /\ \A j \in 1 .. Len(line_queue) :
                 line_queue[j].text = "report" => line_queue[j].cmd # m
        <5>1. m # report
          <6>1. report # 0 => IsSent(report)
            BY DEF ReportInv, ReadReport
          <6>2. m # 0
            BY <1>0, <2>2, <4>0
          <6>3. QED
            BY <2>2, <4>0, <6>1, <6>2
        <5>2. \A i \in 1 .. Len(backed) : IsSent(backed[i])
          BY DEF ReportInv, EachHasRequest, IsSent
        <5>3. \A j \in 1 .. Len(line_queue) :
                line_queue[j].text = "report" => IsSent(line_queue[j].cmd)
          BY DEF ReportInv, QueueReports, Unused
        <5>4. QED
          BY <2>2, <4>0, <5>1, <5>2, <5>3
      <4>3. Unused(m)'
        BY <2>3, <4>1, <4>2 DEF Unused
      <4>4. \A i, j \in 1 .. Len(reply') :
              reply'[i].text = "report" /\ reply'[j].text = "report" => i = j
        BY <3>2 DEF Accepts
      <4>5. ASSUME NEW i \in 1 .. Len(reply'), reply'[i].text = "report"
            PROVE  /\ reply'[i].cmd = m
                   /\ \A j \in i + 1 .. Len(reply') : reply'[j].text # "report"
        BY <2>1, <4>0, <4>4, <4>5
      <4>6. QED
        BY <2>3, <4>2, <4>3, <4>5 DEF ReplyReports
    <3>3. QED
      BY <2>1, <3>1, <3>2
  <2>6. QED
    BY <1>1, <1>2, <2>3, <2>4, <2>5 DEF ReportInv
<1>5. CASE Say
  <2>1. /\ Len(reply) >= 1
        /\ Len(reply') = Len(reply) - 1
        /\ \A i \in 1 .. Len(reply') : reply'[i] = reply[i + 1]
        /\ reply[1].cmd \in Nat
    BY <1>5, SayPushes
  <2>2. PICK text \in Texts :
          PushLine(text, reply[1].cmd) /\ (text = "report" => reply[1].text = "report")
    BY <1>5, SayPushes
  <2>3. UNCHANGED <<credit, seen, said>>
    BY <1>5 DEF Say
  <2>4. /\ Len(line_queue') \in {Len(line_queue), Len(line_queue) + 1}
        /\ \A i \in 1 .. Len(line_queue) : line_queue'[i] = line_queue[i]
        /\ \A i \in 1 .. Len(line_queue') :
             i > Len(line_queue) => line_queue'[i] = [text |-> text, cmd |-> reply[1].cmd]
    BY <2>1, <2>2, Pushed
  <2>5. text = "report" =>
          /\ Unused(reply[1].cmd)
          /\ \A j \in 2 .. Len(reply) : reply[j].text # "report"
          /\ \A j \in 1 .. Len(line_queue) :
               line_queue[j].text = "report" => line_queue[j].cmd # reply[1].cmd
    BY <2>1, <2>2 DEF ReportInv, ReplyReports
  <2>6. QueueReports'
    <3>1. ASSUME NEW i \in 1 .. Len(line_queue'), line_queue'[i].text = "report"
          PROVE  /\ Unused(line_queue'[i].cmd)
                 /\ \A j \in i + 1 .. Len(line_queue') :
                      line_queue'[j].text = "report" => line_queue'[j].cmd # line_queue'[i].cmd
      <4>1. CASE i \in 1 .. Len(line_queue)
        <5>1. /\ Unused(line_queue[i].cmd) /\ line_queue'[i] = line_queue[i]
              /\ \A j \in i + 1 .. Len(line_queue) :
                   line_queue[j].text = "report" => line_queue[j].cmd # line_queue[i].cmd
          BY <2>4, <3>1, <4>1 DEF ReportInv, QueueReports
        <5>2. QED
          BY <1>0, <2>4, <2>5, <3>1, <4>1, <5>1
      <4>2. CASE i = Len(line_queue) + 1
        BY <1>0, <2>4, <2>5, <3>1, <4>2
      <4>3. QED
        BY <1>0, <2>4, <4>1, <4>2
    <3>2. QED
      BY <1>1, <2>3, <3>1 DEF QueueReports
  <2>7. ReplyReports'
    <3>1. ASSUME NEW i \in 1 .. Len(reply'), reply'[i].text = "report"
          PROVE  /\ Unused(reply'[i].cmd)
                 /\ \A j \in i + 1 .. Len(reply') : reply'[j].text # "report"
                 /\ \A j \in 1 .. Len(line_queue') :
                      line_queue'[j].text = "report" => line_queue'[j].cmd # reply'[i].cmd
      <4>1. i + 1 \in 2 .. Len(reply) /\ reply'[i] = reply[i + 1]
        BY <1>0, <2>1
      <4>2. /\ Unused(reply[i + 1].cmd)
            /\ \A j \in i + 2 .. Len(reply) : reply[j].text # "report"
            /\ \A j \in 1 .. Len(line_queue) :
                 line_queue[j].text = "report" => line_queue[j].cmd # reply[i + 1].cmd
        BY <3>1, <4>1 DEF ReportInv, ReplyReports
      <4>3. text # "report"
        BY <2>5, <3>1, <4>1
      <4>4. ASSUME NEW j \in i + 1 .. Len(reply') PROVE reply'[j].text # "report"
        <5>1. j \in 1 .. Len(reply') /\ j + 1 \in i + 2 .. Len(reply)
          BY <1>0, <2>1, <3>1, <4>4
        <5>2. reply'[j] = reply[j + 1]
          BY <2>1, <5>1
        <5>3. QED
          BY <4>2, <5>1, <5>2
      <4>5. \A j \in 1 .. Len(line_queue') :
              line_queue'[j].text = "report" => j \in 1 .. Len(line_queue)
        BY <1>0, <2>4, <4>3
      <4>6. QED
        BY <2>4, <4>1, <4>2, <4>4, <4>5
    <3>2. QED
      BY <1>1, <2>3, <3>1 DEF ReplyReports
  <2>8. QED
    BY <1>1, <1>2, <2>3, <2>6, <2>7 DEF ReportInv
<1>6. CASE DropPdp
  <2>1. PushLine("deactive", 0) /\ "deactive" \in Texts /\ UNCHANGED <<reply, credit, seen>>
    BY <1>6 DEF DropPdp, Texts
  <2>2. /\ Len(line_queue') \in {Len(line_queue), Len(line_queue) + 1}
        /\ \A i \in 1 .. Len(line_queue) : line_queue'[i] = line_queue[i]
        /\ \A i \in 1 .. Len(line_queue') :
             i > Len(line_queue) => line_queue'[i] = [text |-> "deactive", cmd |-> 0]
    BY <2>1, Pushed
  <2>3. \A i \in 1 .. Len(line_queue') :
          line_queue'[i].text = "report" =>
            i \in 1 .. Len(line_queue) /\ line_queue'[i] = line_queue[i]
    BY <1>0, <2>2
  <2>4. QueueReports'
    <3>1. ASSUME NEW i \in 1 .. Len(line_queue'), line_queue'[i].text = "report",
                 NEW m, m = line_queue'[i].cmd
          PROVE  /\ Unused(m)'
                 /\ \A j \in i + 1 .. Len(line_queue') :
                      line_queue'[j].text = "report" => line_queue'[j].cmd # m
      <4>1. i \in 1 .. Len(line_queue) /\ line_queue'[i] = line_queue[i]
        BY <2>3, <3>1
      <4>2. /\ Unused(m)
            /\ \A j \in i + 1 .. Len(line_queue) :
                 line_queue[j].text = "report" => line_queue[j].cmd # m
        BY <3>1, <4>1 DEF ReportInv, QueueReports
      <4>3. ASSUME NEW j \in i + 1 .. Len(line_queue'), line_queue'[j].text = "report"
            PROVE  line_queue'[j].cmd # m
        <5>1. j \in 1 .. Len(line_queue')
          BY <1>0, <2>2, <4>1
        <5>2. j \in i + 1 .. Len(line_queue) /\ line_queue'[j] = line_queue[j]
          BY <1>0, <2>3, <4>1, <4>3, <5>1
        <5>3. QED
          BY <4>2, <4>3, <5>2
      <4>4. QED
        BY <1>1, <2>1, <4>2, <4>3
    <3>2. QED
      BY <3>1 DEF QueueReports
  <2>5. ReplyReports'
    BY <1>1, <2>1, <2>3 DEF ReportInv, ReplyReports
  <2>6. QED
    BY <1>1, <1>2, <2>1, <2>4, <2>5 DEF ReportInv
<1>7. CASE Restart
  <2>1. UNCHANGED <<line_queue, credit, seen>> /\ reply' = <<>>
    BY <1>7 DEF Restart
  <2>2. QueueReports' /\ ReplyReports'
    BY <1>1, <2>1 DEF ReportInv, QueueReports, ReplyReports
  <2>3. QED
    BY <1>1, <1>2, <2>1, <2>2 DEF ReportInv
<1>8. CASE ReadOn
  <2> DEFINE r == ReportWith(Head(line_queue))
  <2>1. Reading /\ report' = r /\ UNCHANGED <<reply, backed>>
        /\ seen' = SeenWith(Head(line_queue).text)
    BY <1>8 DEF ReadOn
  <2>2. /\ r # 0 =>
             /\ IsSent(r) /\ \A i \in 1 .. Len(backed) : backed[i] # r
             /\ \A i \in 1 .. Len(line_queue') :
                  line_queue'[i].text = "report" => line_queue'[i].cmd # r
             /\ \A i \in 1 .. Len(reply) : reply[i].text = "report" => reply[i].cmd # r
        /\ "report" \in SeenWith(Head(line_queue).text) => r # 0
        /\ \A i \in 1 .. Len(line_queue') :
             line_queue'[i].text = "report" =>
               /\ Unused(line_queue'[i].cmd)
               /\ \A j \in i + 1 .. Len(line_queue') :
                    line_queue'[j].text = "report" => line_queue'[j].cmd # line_queue'[i].cmd
               /\ \A j \in 1 .. Len(reply) :
                    reply[j].text = "report" => reply[j].cmd # line_queue'[i].cmd
    BY <2>1, NextReport
  <2> HIDE DEF r
  <2>3. \A m : Unused(m) /\ m # r => Unused(m)'
    BY <1>0, <2>1 DEF Unused
  <2>4. \A m : Unused(m) => m # 0
    BY DEF Unused, IsSent
  <2>5. QueueReports'
    BY <2>2, <2>3, <2>4 DEF QueueReports
  <2>6. ReplyReports'
    <3>1. ASSUME NEW i \in 1 .. Len(reply), reply[i].text = "report", NEW m, m = reply[i].cmd
          PROVE  /\ Unused(m)'
                 /\ \A j \in i + 1 .. Len(reply) : reply[j].text # "report"
                 /\ \A j \in 1 .. Len(line_queue') :
                      line_queue'[j].text = "report" => line_queue'[j].cmd # m
      <4>1. Unused(m) /\ m # r
        BY <2>2, <2>4, <3>1 DEF ReportInv, ReplyReports
      <4>2. Unused(m)'
        BY <2>3, <4>1
      <4>3. QED
        BY <2>2, <3>1, <4>2 DEF ReportInv, ReplyReports
    <3>2. QED
      BY <2>1, <3>1 DEF ReplyReports
  <2>7. ReadReport'
    BY <1>0, <2>1, <2>2 DEF ReadReport
  <2>8. EachHasRequest'
    BY <1>0, <2>1 DEF ReportInv, EachHasRequest, IsSent
  <2>9. QED
    BY <2>5, <2>6, <2>7, <2>8 DEF ReportInv
<1>9. CASE ReadLast
  <2> DEFINE r == ReportWith(Head(line_queue))
  <2>0. PICK ok \in BOOLEAN : Return(ok)
    BY <1>9, Zenon DEF ReadLast, QueryResult
  <2>1. /\ Reading /\ report' = 0 /\ seen' = {} /\ UNCHANGED reply
        /\ backed' = IF ok /\ waiting = "action" THEN Append(backed, r) ELSE backed
    BY <1>9, <2>0 DEF ReadLast, Return, Issue
  <2>2. /\ r # 0 =>
             /\ IsSent(r) /\ \A i \in 1 .. Len(backed) : backed[i] # r
             /\ \A i \in 1 .. Len(line_queue') :
                  line_queue'[i].text = "report" => line_queue'[i].cmd # r
             /\ \A i \in 1 .. Len(reply) : reply[i].text = "report" => reply[i].cmd # r
        /\ "report" \in SeenWith(Head(line_queue).text) => r # 0
        /\ \A i \in 1 .. Len(line_queue') :
             line_queue'[i].text = "report" =>
               /\ Unused(line_queue'[i].cmd)
               /\ \A j \in i + 1 .. Len(line_queue') :
                    line_queue'[j].text = "report" => line_queue'[j].cmd # line_queue'[i].cmd
               /\ \A j \in 1 .. Len(reply) :
                    reply[j].text = "report" => reply[j].cmd # line_queue'[i].cmd
    BY <2>1, NextReport
  <2>3. waiting = "action" => r # 0
    BY <1>9, <2>2 DEF ReadLast, Awaited
  <2>4. r \in Nat
    BY <2>1, ReportTyped
  <2> HIDE DEF r
  <2>5. /\ Len(backed') \in {Len(backed), Len(backed) + 1}
        /\ \A i \in 1 .. Len(backed) : backed'[i] = backed[i]
        /\ \A i \in 1 .. Len(backed') :
             i > Len(backed) => backed'[i] = r /\ waiting = "action"
    BY <1>0, <2>1, <2>4, OneMore
  <2>6. \A m : Unused(m) /\ m # r => Unused(m)'
    BY <1>0, <2>1, <2>5 DEF Unused, IsSent
  <2>7. \A m : Unused(m) => m # 0
    BY DEF Unused, IsSent
  <2>8. QueueReports'
    BY <2>2, <2>6, <2>7 DEF QueueReports
  <2>9. ReplyReports'
    <3>1. ASSUME NEW i \in 1 .. Len(reply), reply[i].text = "report", NEW m, m = reply[i].cmd
          PROVE  /\ Unused(m)'
                 /\ \A j \in i + 1 .. Len(reply) : reply[j].text # "report"
                 /\ \A j \in 1 .. Len(line_queue') :
                      line_queue'[j].text = "report" => line_queue'[j].cmd # m
      <4>1. Unused(m) /\ m # r
        BY <2>2, <2>7, <3>1 DEF ReportInv, ReplyReports
      <4>2. Unused(m)'
        BY <2>6, <4>1
      <4>3. QED
        BY <2>2, <3>1, <4>2 DEF ReportInv, ReplyReports
    <3>2. QED
      BY <2>1, <3>1 DEF ReplyReports
  <2>10. ReadReport'
    BY <2>1 DEF ReadReport
  <2>11. EachHasRequest'
    <3>1. ASSUME NEW i \in 1 .. Len(backed')
          PROVE  /\ backed'[i] \in 1 .. Len(said') /\ said'[backed'[i]] = "ok"
                 /\ \A j \in i + 1 .. Len(backed') : backed'[j] # backed'[i]
      <4>1. CASE i \in 1 .. Len(backed)
        <5>1. /\ IsSent(backed[i])
              /\ \A j \in i + 1 .. Len(backed) : backed[j] # backed[i]
          BY <4>1 DEF ReportInv, EachHasRequest, IsSent
        <5>2. backed[i] \in 1 .. Len(said') /\ said'[backed[i]] = "ok"
          <6>1. PICK m : m = backed[i]
            OBVIOUS
          <6>2. IsSent(m)'
            BY <1>0, <5>1, <6>1
          <6>3. QED
            BY <6>1, <6>2 DEF IsSent
        <5>3. ASSUME NEW j \in i + 1 .. Len(backed') PROVE backed'[j] # backed'[i]
          <6>1. CASE j \in 1 .. Len(backed)
            BY <2>5, <4>1, <5>1, <6>1
          <6>2. CASE j > Len(backed)
            <7>1. backed'[j] = r /\ r # 0
              BY <2>3, <2>5, <4>1, <6>2
            <7>2. QED
              BY <2>2, <2>5, <4>1, <7>1
          <6>3. QED
            BY <1>0, <2>5, <4>1, <6>1, <6>2
        <5>4. QED
          BY <2>5, <4>1, <5>2, <5>3
      <4>2. CASE i = Len(backed) + 1
        <5>1. backed'[i] = r /\ r # 0
          BY <1>0, <2>3, <2>5, <4>2
        <5>2. r \in 1 .. Len(said') /\ said'[r] = "ok"
          <6>1. IsSent(r)
            BY <2>2, <5>1
          <6>2. PICK m : m = r
            OBVIOUS
          <6>3. IsSent(m)'
            BY <1>0, <6>1, <6>2
          <6>4. QED
            BY <6>2, <6>3 DEF IsSent
        <5>3. i + 1 .. Len(backed') = {}
          BY <1>0, <2>5, <4>2
        <5>4. QED
          BY <5>1, <5>2, <5>3
      <4>3. QED
        BY <1>0, <2>5, <4>1, <4>2
    <3>2. QED
      BY <3>1 DEF EachHasRequest
  <2>12. QED
    BY <2>8, <2>9, <2>10, <2>11 DEF ReportInv
<1>10. CASE ReadError \/ TimeOut
  <2>1. /\ report' = 0 /\ seen' = {} /\ UNCHANGED <<backed, reply>>
    BY <1>10 DEF ReadError, TimeOut, Return, Issue
  <2>2. \A m : Unused(m) => Unused(m)'
    BY <1>0, <2>1 DEF Unused, IsSent
  <2>3. EachHasRequest' /\ ReadReport'
    BY <1>0, <2>1 DEF ReportInv, EachHasRequest, ReadReport, IsSent
  <2>4. CASE UNCHANGED line_queue
    BY <2>1, <2>2, <2>3, <2>4 DEF ReportInv, QueueReports, ReplyReports
  <2>5. CASE Reading
    <3>1. /\ Len(line_queue') = Len(line_queue) - 1
          /\ \A i \in 1 .. Len(line_queue') : line_queue'[i] = line_queue[i + 1]
      BY <2>5, Taken
    <3>2. QueueReports'
      <4>1. ASSUME NEW i \in 1 .. Len(line_queue'), line_queue'[i].text = "report",
                   NEW m, m = line_queue'[i].cmd
            PROVE  /\ Unused(m)'
                   /\ \A j \in i + 1 .. Len(line_queue') :
                        line_queue'[j].text = "report" => line_queue'[j].cmd # m
        <5>1. i + 1 \in 1 .. Len(line_queue) /\ line_queue'[i] = line_queue[i + 1]
          BY <1>0, <3>1
        <5>2. Unused(m)
          BY <4>1, <5>1 DEF ReportInv, QueueReports
        <5>3. \A j \in i + 2 .. Len(line_queue) :
                line_queue[j].text = "report" => line_queue[j].cmd # m
          BY <4>1, <5>1 DEF ReportInv, QueueReports
        <5>4. ASSUME NEW j \in i + 1 .. Len(line_queue'), line_queue'[j].text = "report"
              PROVE  line_queue'[j].cmd # m
          <6>1. /\ j \in 1 .. Len(line_queue') /\ j + 1 \in i + 2 .. Len(line_queue)
                /\ line_queue'[j] = line_queue[j + 1]
            BY <1>0, <3>1
          <6>2. QED
            BY <5>3, <5>4, <6>1
        <5>5. QED
          BY <2>2, <5>2, <5>4
      <4>2. QED
        BY <4>1 DEF QueueReports
    <3>3. ReplyReports'
      <4>1. ASSUME NEW i \in 1 .. Len(reply), reply[i].text = "report", NEW m, m = reply[i].cmd
            PROVE  /\ Unused(m)'
                   /\ \A j \in i + 1 .. Len(reply) : reply[j].text # "report"
                   /\ \A j \in 1 .. Len(line_queue') :
                        line_queue'[j].text = "report" => line_queue'[j].cmd # m
        <5>1. /\ Unused(m)
              /\ \A j \in i + 1 .. Len(reply) : reply[j].text # "report"
              /\ \A j \in 1 .. Len(line_queue) :
                   line_queue[j].text = "report" => line_queue[j].cmd # m
          BY <4>1 DEF ReportInv, ReplyReports
        <5>2. \A j \in 1 .. Len(line_queue') :
                j + 1 \in 1 .. Len(line_queue) /\ line_queue'[j] = line_queue[j + 1]
          BY <1>0, <3>1
        <5>3. Unused(m)'
          BY <2>2, <5>1
        <5>4. QED
          BY <5>1, <5>2, <5>3
      <4>2. QED
        BY <2>1, <4>1 DEF ReplyReports
    <3>4. QED
      BY <2>3, <3>2, <3>3 DEF ReportInv
  <2>6. QED
    BY <1>10, <2>4, <2>5 DEF ReadError, TimeOut
<1>11. CASE Flush \/ Boot
  <2>1. /\ line_queue' = <<>> /\ UNCHANGED <<credit, reply>>
        /\ "report" \in seen' => "report" \in seen
    BY <1>11 DEF Flush, Boot
  <2>2. QueueReports' /\ ReplyReports'
    BY <1>1, <2>1 DEF ReportInv, QueueReports, ReplyReports
  <2>3. QED
    BY <1>1, <1>2, <2>1, <2>2 DEF ReportInv
<1>12. CASE Ignore \/ Send \/ UNCHANGED vars
  BY <1>3, <1>12 DEF Ignore, Send, Issue, vars
<1>13. QED
  BY <1>4, <1>5, <1>6, <1>7, <1>8, <1>9, <1>10, <1>11, <1>12 DEF Next

\* What reading a line does to what the lines tell of the context.
LEMMA ReadBelief ==
  ASSUME TypeOK, BeliefInv, missed = {}, Reading, pdp' = pdp,
         NEW text, text = Head(line_queue).text
  PROVE  /\ g_pdp_known_active /\ text # "deactive" /\ ~Mentions("deactive")' => pdp
         /\ QueueBelief'
         /\ "active" \in SeenWith(text) /\ "overtaken" \notin SeenWith(text)
              /\ ~Mentions("deactive")' => pdp
<1>1. /\ Len(line_queue) \in Nat /\ Len(line_queue) >= 1 /\ text = line_queue[1].text
      /\ Len(line_queue') = Len(line_queue) - 1
      /\ \A i \in 1 .. Len(line_queue') : line_queue'[i] = line_queue[i + 1]
  BY Taken
<1>2. \A j \in 2 .. Len(line_queue) :
        j - 1 \in 1 .. Len(line_queue') /\ line_queue'[j - 1] = line_queue[j]
  BY <1>1
<1>3. Mentions("deactive") => text = "deactive" \/ Mentions("deactive")'
  <2> SUFFICES ASSUME NEW i \in 1 .. Len(line_queue), line_queue[i].text = "deactive",
                      text # "deactive"
               PROVE  Mentions("deactive")'
    BY DEF Mentions
  <2>1. i \in 2 .. Len(line_queue)
    BY <1>1
  <2>2. i - 1 \in 1 .. Len(line_queue') /\ line_queue'[i - 1].text = "deactive"
    BY <1>2, <2>1
  <2>3. QED
    BY <2>2 DEF Mentions
<1>4. QueueBelief'
  <2> SUFFICES ASSUME NEW i \in 1 .. Len(line_queue'), line_queue'[i].text = "active", ~pdp
               PROVE  \E j \in i + 1 .. Len(line_queue') : line_queue'[j].text = "deactive"
    BY DEF QueueBelief
  <2>1. i + 1 \in 1 .. Len(line_queue) /\ line_queue[i + 1].text = "active"
    BY <1>1
  <2>2. PICK j \in i + 2 .. Len(line_queue) : line_queue[j].text = "deactive"
    BY <2>1 DEF BeliefInv, QueueBelief
  <2>3. j - 1 \in i + 1 .. Len(line_queue') /\ line_queue'[j - 1].text = "deactive"
    BY <1>1, <1>2, <2>2
  <2>4. QED
    BY <2>3
<1>5. ASSUME "active" \in SeenWith(text), "overtaken" \notin SeenWith(text),
             ~Mentions("deactive")', ~pdp
      PROVE  FALSE
  <2>1. CASE text = "active"
    <3>1. PICK j \in 2 .. Len(line_queue) : line_queue[j].text = "deactive"
      BY <1>1, <1>5, <2>1 DEF BeliefInv, QueueBelief
    <3>2. QED
      BY <1>2, <1>5, <3>1 DEF Mentions
  <2>2. CASE text # "active"
    <3>1. "active" \in seen /\ "overtaken" \notin seen /\ text # "deactive"
      BY <1>5, <2>2 DEF SeenWith
    <3>2. QED
      BY <1>3, <1>5, <3>1 DEF BeliefInv, SeenBelief
  <2>3. QED
    BY <2>1, <2>2
<1>6. QED
  BY <1>3, <1>4, <1>5 DEF BeliefInv, BeliefIsTrue

\* What the driver believes stays true unless news is missed.
LEMMA BeliefStep ==
  ASSUME TypeOK, WaitInv, BeliefInv, [Next]_vars
  PROVE  BeliefInv'
<1> SUFFICES ASSUME missed' = {} PROVE (BeliefIsTrue /\ QueueBelief /\ SeenBelief)'
  BY DEF BeliefInv
<1>0. Len(line_queue) \in Nat
  BY DEF TypeOK
<1>1. CASE /\ UNCHANGED <<line_queue, missed, seen>>
           /\ g_pdp_known_active' => g_pdp_known_active
           /\ pdp => pdp'
  BY <1>1 DEF BeliefInv, BeliefIsTrue, QueueBelief, SeenBelief, Mentions
<1>2. CASE Obey
  <2>1. UNCHANGED <<line_queue, missed, seen, g_pdp_known_active>>
    BY <1>2 DEF Obey
  <2>2. pdp => pdp'
    BY <1>2, Zenon DEF Obey
  <2>3. QED
    BY <1>1, <2>1, <2>2
<1>3. CASE Say
  <2>1. PICK text \in Texts :
          PushLine(text, reply[1].cmd) /\ (text = "active" => pdp) /\ text # "deactive"
    BY <1>3, SayPushes
  <2>2. /\ reply[1].cmd \in Nat
        /\ UNCHANGED <<g_pdp_known_active, seen, pdp>>
    BY <1>3, SayPushes DEF Say
  <2>3. /\ missed = {}
        /\ \A i \in 1 .. Len(line_queue) :
             i \in 1 .. Len(line_queue') /\ line_queue'[i] = line_queue[i]
    <3>1. /\ missed' = {} => missed = {}
          /\ Len(line_queue') \in {Len(line_queue), Len(line_queue) + 1}
          /\ \A i \in 1 .. Len(line_queue) : line_queue'[i] = line_queue[i]
      BY <2>1, <2>2, Pushed
    <3>2. QED
      BY <1>0, <3>1
  <2>4. Mentions("deactive") => Mentions("deactive")'
    BY <2>3 DEF Mentions
  <2>5. QueueBelief'
    <3> SUFFICES ASSUME NEW i \in 1 .. Len(line_queue'), line_queue'[i].text = "active", ~pdp
                 PROVE  \E j \in i + 1 .. Len(line_queue') : line_queue'[j].text = "deactive"
      BY <2>2 DEF QueueBelief
    <3>1. i \in 1 .. Len(line_queue) /\ line_queue[i].text = "active"
      BY <2>1, <2>2, PushedLine
    <3>2. PICK j \in i + 1 .. Len(line_queue) : line_queue[j].text = "deactive"
      BY <2>3, <3>1 DEF BeliefInv, QueueBelief
    <3>3. j \in 1 .. Len(line_queue)
      BY <3>1, <3>2
    <3>4. QED
      BY <2>3, <3>1, <3>2, <3>3
  <2>6. QED
    BY <2>2, <2>3, <2>4, <2>5 DEF BeliefInv, BeliefIsTrue, SeenBelief
<1>4. CASE DropPdp
  <2>1. PushLine("deactive", 0) /\ "deactive" \in Texts /\ 0 \in Nat
    BY <1>4 DEF DropPdp, Texts
  <2>2. /\ Len(line_queue') = Len(line_queue) + 1
        /\ \A i \in 1 .. Len(line_queue') :
             i > Len(line_queue) => line_queue'[i] = [text |-> "deactive", cmd |-> 0]
    BY <2>1, Pushed
  <2>3. line_queue'[Len(line_queue')].text = "deactive"
    BY <1>0, <2>2
  <2>4. Mentions("deactive")'
    BY <1>0, <2>2, <2>3 DEF Mentions
  <2>5. QueueBelief'
    <3> SUFFICES ASSUME NEW i \in 1 .. Len(line_queue'), line_queue'[i].text = "active"
                 PROVE  \E j \in i + 1 .. Len(line_queue') : line_queue'[j].text = "deactive"
      BY DEF QueueBelief
    <3>1. i # Len(line_queue')
      BY <2>3
    <3>2. Len(line_queue') \in i + 1 .. Len(line_queue')
      BY <1>0, <2>2, <3>1
    <3>3. QED
      BY <2>3, <3>2
  <2>6. QED
    BY <2>4, <2>5 DEF BeliefIsTrue, SeenBelief
<1>5. CASE Send
  <2>1. /\ UNCHANGED <<line_queue, missed, g_pdp_known_active, pdp>>
        /\ seen' = {}
    BY <1>5 DEF Send, Issue
  <2>2. QED
    BY <2>1 DEF BeliefInv, BeliefIsTrue, QueueBelief, SeenBelief, Mentions
<1>6. CASE ReadOn
  <2>1. /\ Reading /\ pdp' = pdp /\ missed = {}
        /\ seen' = SeenWith(Head(line_queue).text)
        /\ g_pdp_known_active' = (Head(line_queue).text # "deactive" /\ g_pdp_known_active)
    BY <1>6 DEF ReadOn, AfterNews
  <2>2. QED
    BY <2>1, ReadBelief DEF BeliefIsTrue, SeenBelief
<1>7. CASE ReadLast
  <2>1. /\ Reading /\ pdp' = pdp /\ missed = {} /\ seen' = {}
    BY <1>7 DEF ReadLast, Return, Issue
  <2>2. CASE waiting = "query"
    <3>1. /\ g_pdp_known_active' = QueryResult(SeenWith(Head(line_queue).text))
          /\ ~({"active", "overtaken"} \subseteq SeenWith(Head(line_queue).text))
      BY <1>7, <2>2 DEF ReadLast
    <3>2. QED
      BY <2>1, <3>1, ReadBelief DEF BeliefIsTrue, SeenBelief, QueryResult
  <2>3. CASE waiting # "query"
    <3>1. /\ g_pdp_known_active' = g_pdp_known_active
          /\ Awaited(waiting) \subseteq SeenWith(Head(line_queue).text)
          /\ waiting # "none"
      BY <1>7, <2>3 DEF ReadLast, Reading
    <3>2. Head(line_queue).text # "deactive"
      BY <3>1 DEF WaitInv, SeenWith, Awaited
    <3>3. QED
      BY <2>1, <3>1, <3>2, ReadBelief DEF BeliefIsTrue, SeenBelief
  <2>4. QED
    BY <2>2, <2>3
<1>8. CASE ReadError
  <2>1. /\ Reading /\ pdp' = pdp /\ missed = {} /\ seen' = {}
        /\ Head(line_queue).text = "error" /\ g_pdp_known_active' = g_pdp_known_active
    BY <1>8 DEF ReadError, Return, Issue
  <2>2. QED
    BY <2>1, ReadBelief DEF BeliefIsTrue, SeenBelief
<1>9. CASE TimeOut
  <2>1. /\ UNCHANGED <<line_queue, missed, pdp>> /\ seen' = {}
        /\ g_pdp_known_active' => g_pdp_known_active
    BY <1>9 DEF TimeOut, Return, Issue
  <2>2. QED
    BY <2>1 DEF BeliefInv, BeliefIsTrue, QueueBelief, SeenBelief, Mentions
<1>10. CASE Flush
  <2>1. /\ UNCHANGED <<g_pdp_known_active, seen, pdp>> /\ line_queue' = <<>>
        /\ missed = {} /\ ~Mentions("deactive")
    BY <1>10 DEF Flush
  <2>2. QED
    BY <2>1 DEF BeliefInv, BeliefIsTrue, QueueBelief, SeenBelief
<1>11. CASE Boot
  BY <1>11 DEF Boot, BeliefIsTrue, QueueBelief, SeenBelief
<1>12. CASE Restart
  <2>1. ~pdp
    <3>1. "restarted" \notin missed'
      OBVIOUS
    <3>2. QED
      BY <1>12, <3>1 DEF Restart
  <2>2. UNCHANGED <<line_queue, missed, seen, g_pdp_known_active>>
    BY <1>12, <2>1 DEF Restart
  <2>3. QED
    BY <1>1, <2>1, <2>2
<1>13. QED
  BY <1>1, <1>2, <1>3, <1>4, <1>5, <1>6, <1>7, <1>8, <1>9, <1>10, <1>11, <1>12
     DEF Next, Ignore, vars

-----------------------------------------------------------------------------
(* What holds while no command has been given up too early.                *)

WaitsInv == IdleInv /\ AskedInv /\ SaidInv /\ LastInv /\ OnceInv

\* The last line of a wait is the modem's OK, and the last line of its answer.
LEMMA LastRead ==
  ASSUME TypeOK, NewsInv, WaitInv, WaitsInv, ReadLast
  PROVE  /\ waiting # "none" /\ said[Len(said)] = "ok"
         /\ asked = <<>> /\ reply = <<>>
         /\ \A i \in 1 .. Len(line_queue') : line_queue'[i].cmd = 0
<1> DEFINE h == line_queue[1]
<1>1. /\ Reading /\ waiting # "none" /\ h.text # "error"
      /\ Awaited(waiting) \subseteq SeenWith(h.text)
      /\ ~(Awaited(waiting) \subseteq seen) /\ "error" \notin seen
      /\ Len(line_queue) \in Nat /\ Len(line_queue) >= 1 /\ 1 \in 1 .. Len(line_queue)
      /\ Len(line_queue') = Len(line_queue) - 1
      /\ \A i \in 1 .. Len(line_queue') : line_queue'[i] = line_queue[i + 1]
  BY Taken DEF ReadLast, Reading, WaitInv
<1>2. h.text \in Awaited(waiting)
  BY <1>1 DEF SeenWith, Awaited
<1>3. h.text \in {"ok", "report"} /\ h.cmd # 0
  BY <1>1, <1>2 DEF Awaited, NewsInv
<1>4. asked = <<>> /\ said[Len(said)] = "ok"
  BY <1>1, <1>3 DEF WaitsInv, AskedInv, SaidInv, Mentions
<1>5. ~Mentions("error") /\ ~Coming("error")
  BY <1>1, <1>4 DEF WaitsInv, SaidInv
<1>6. CASE waiting # "action"
  <2>1. h.text \in Last(waiting)
    BY <1>2, <1>6 DEF Awaited, Last
  <2>2. reply = <<>> /\ \A j \in 2 .. Len(line_queue) : line_queue[j].cmd = 0
    BY <1>1, <2>1 DEF WaitsInv, LastInv
  <2>3. QED
    BY <1>1, <1>4, <2>2
<1>7. CASE waiting = "action"
  <2>1. {"ok", "report"} \ {h.text} \subseteq seen
    BY <1>1, <1>3, <1>7 DEF Awaited, SeenWith
  <2>2. \A j \in 2 .. Len(line_queue) : line_queue[j].cmd = 0
    <3> SUFFICES ASSUME NEW j \in 2 .. Len(line_queue), line_queue[j].cmd # 0 PROVE FALSE
      OBVIOUS
    <3>1. j \in 1 .. Len(line_queue)
      BY <1>1
    <3>2. line_queue[j].text \in {"ok", "report", "error"} \ seen
      BY <1>7, <3>1 DEF WaitsInv, OnceInv
    <3>3. line_queue[j].text # h.text
      BY <1>1, <1>3, <1>7 DEF WaitsInv, OnceInv
    <3>4. line_queue[j].text # "error"
      BY <1>5, <3>1 DEF Mentions
    <3>5. QED
      BY <2>1, <3>2, <3>3, <3>4
  <2>3. Len(reply) = 0
    <3> SUFFICES ASSUME Len(reply) # 0 PROVE FALSE
      OBVIOUS
    <3>1. 1 \in 1 .. Len(reply)
      BY DEF TypeOK
    <3>2. /\ reply[1].text \in {"ok", "report", "error"} \ seen
          /\ reply[1].text # h.text
      BY <1>1, <1>3, <1>7, <3>1 DEF WaitsInv, OnceInv
    <3>3. reply[1].text # "error"
      BY <1>5, <3>1 DEF Coming
    <3>4. QED
      BY <2>1, <3>2, <3>3
  <2>4. reply = <<>>
    BY <2>3 DEF TypeOK
  <2>5. QED
    BY <1>1, <1>4, <2>2, <2>4
<1>8. QED
  BY <1>6, <1>7

\* So is an error line, and a wait that is over too late is over with nothing to come.
LEMMA FailedRead ==
  ASSUME TypeOK, NewsInv, WaitsInv, ReadError \/ (TimeOut /\ late' = late)
  PROVE  /\ waiting # "none" /\ asked = <<>> /\ reply = <<>>
         /\ \A i \in 1 .. Len(line_queue') : line_queue'[i].cmd = 0
<1>1. CASE ReadError
  <2>1. /\ Reading /\ waiting # "none" /\ line_queue[1].text = "error"
        /\ Len(line_queue) \in Nat /\ 1 \in 1 .. Len(line_queue)
        /\ Len(line_queue') = Len(line_queue) - 1
        /\ \A i \in 1 .. Len(line_queue') : line_queue'[i] = line_queue[i + 1]
    BY <1>1, Taken DEF ReadError, Reading
  <2>2. line_queue[1].cmd # 0 /\ line_queue[1].text \in Last(waiting)
    BY <2>1 DEF NewsInv, Last
  <2>3. reply = <<>> /\ \A j \in 2 .. Len(line_queue) : line_queue[j].cmd = 0
    BY <2>1, <2>2 DEF WaitsInv, LastInv
  <2>4. asked = <<>>
    BY <2>1, <2>2 DEF WaitsInv, AskedInv
  <2>5. QED
    BY <2>1, <2>3, <2>4
<1>2. CASE TimeOut /\ late' = late
  <2>1. ~Outstanding /\ waiting # "none" /\ line_queue' = line_queue
    BY <1>2 DEF TimeOut, TypeOK
  <2>2. QED
    BY <2>1 DEF Outstanding
<1>3. QED
  BY <1>1, <1>2

\* With nothing to come, a new command is alone with its answer.
LEMMA FreshWait ==
  ASSUME TypeOK, NEW kind \in Kinds, Issue(kind), asked = <<>>, reply' = <<>>, NewsInv',
         \A i \in 1 .. Len(line_queue') : line_queue'[i].cmd = 0,
         Len(results') = Len(said)
  PROVE  WaitsInv'
<1>1. /\ waiting' = kind /\ waiting' # "none" /\ seen' = {}
      /\ Len(asked') = 1 /\ asked'[1] = [kind |-> kind, cmd |-> Len(said) + 1]
      /\ Len(said') = Len(said) + 1 /\ said'[Len(said) + 1] = "none"
      /\ Len(said) \in Nat
  BY Issued DEF Kinds, TypeOK
<1>2. \A i \in 1 .. Len(line_queue') : line_queue'[i].text = "deactive"
  BY DEF NewsInv
<1>3. IdleInv' /\ AskedInv'
  BY <1>1 DEF IdleInv, AskedInv
<1>4. SaidInv'
  BY <1>1, <1>2 DEF SaidInv, Coming, Mentions
<1>5. LastInv' /\ OnceInv'
  BY <1>1, <1>2 DEF LastInv, OnceInv, Last
<1>6. QED
  BY <1>3, <1>4, <1>5 DEF WaitsInv

\* A call that returns with nothing to come.
LEMMA AfterReturn ==
  ASSUME TypeOK, NEW ok \in BOOLEAN, Return(ok), asked = <<>>, reply' = <<>>, NewsInv',
         \A i \in 1 .. Len(line_queue') : line_queue'[i].cmd = 0,
         Len(said) = Len(results) + 1, ok => said[Len(said)] = "ok", OwnAnswer
  PROVE  OwnAnswer' /\ WaitsInv'
<1>1. /\ Len(results) \in Nat /\ Len(results') = Len(results) + 1
      /\ \A n \in 1 .. Len(results) : results'[n] = results[n]
      /\ results'[Len(results) + 1] = ok
  <2>1. Len(results) \in Nat
    BY DEF TypeOK
  <2>2. QED
    BY <2>1, Returns
<1>2. \A n \in 1 .. Len(said) : said'[n] = said[n]
  <2>1. CASE Issue("action")
    BY <2>1, Issued DEF Kinds
  <2>2. CASE said' = said
    BY <2>2
  <2>3. QED
    BY <2>1, <2>2, Returns
<1>3. OwnAnswer'
  <2> SUFFICES ASSUME NEW n \in 1 .. Len(results'), results'[n] PROVE said'[n] = "ok"
    BY DEF OwnAnswer
  <2>1. n \in 1 .. Len(said) /\ said'[n] = said[n]
    BY <1>1, <1>2
  <2>2. CASE n = Len(results) + 1
    BY <1>1, <2>1, <2>2
  <2>3. CASE n \in 1 .. Len(results)
    BY <1>1, <2>1, <2>3 DEF OwnAnswer
  <2>4. QED
    BY <1>1, <2>2, <2>3
<1>4. CASE Issue("action")
  BY <1>1, <1>3, <1>4, FreshWait DEF Kinds
<1>5. CASE waiting' = "none" /\ asked' = asked /\ said' = said
  BY <1>1, <1>3, <1>5 DEF WaitsInv, IdleInv, AskedInv, SaidInv, LastInv, OnceInv
<1>6. QED
  BY <1>4, <1>5, Returns

\* Nothing is asked, said or queued while the driver waits for nothing.
LEMMA WaitsOn ==
  ASSUME TypeOK, WaitsInv, asked # <<>> \/ reply # <<>>
  PROVE  waiting # "none"
BY DEF WaitsInv, IdleInv

\* The modem begins with the command that is waited on.
LEMMA ObeyStep ==
  ASSUME TypeOK, NewsInv, WaitInv, WaitsInv, Obey
  PROVE  WaitsInv' /\ said[Len(said)] = "none"
         /\ \E answer \in {"ok", "error"} : said' = [said EXCEPT ![Len(said)] = answer]
<1> DEFINE c == asked[1]
<1>1. /\ waiting # "none"
      /\ UNCHANGED <<waiting, seen, line_queue, results>>
  BY WaitsOn DEF Obey
<1>2. /\ c.cmd = Len(said) /\ c.kind = waiting /\ said[Len(said)] = "none"
      /\ \A i \in 1 .. Len(line_queue) : line_queue[i].cmd = 0
      /\ seen \cap {"ok", "report"} = {}
      /\ Len(said) = Len(results) + 1 /\ Len(asked) <= 1
  BY <1>1 DEF Obey, WaitsInv, AskedInv
<1>3. /\ Len(asked') = 0 /\ asked' = <<>>
      /\ \A i \in 1 .. Len(reply') : reply'[i].cmd = Len(said)
      /\ \A i \in 1 .. Len(reply') : reply'[i].text \in {"ok", "error", "report", "info"}
      /\ Accepts(c) \/ Refuses(c)
      /\ Len(reply') \in Nat
  <2>1. /\ Len(asked) >= 1 /\ Len(asked') = Len(asked) - 1
        /\ asked' \in Seq([kind : Kinds, cmd : Nat])
        /\ reply' \in Seq([text : {"ok", "error", "report", "info"}, cmd : Nat])
        /\ \A i \in 1 .. Len(reply') : reply'[i].cmd = c.cmd
        /\ Accepts(c) \/ Refuses(c)
    BY Obeyed
  <2>2. \A i \in 1 .. Len(reply') : reply'[i].text \in {"ok", "error", "report", "info"}
    <3>1. \A i \in 1 .. Len(reply') :
            reply'[i] \in [text : {"ok", "error", "report", "info"}, cmd : Nat]
      BY <2>1, Elements
    <3>2. QED
      BY <3>1
  <2>3. Len(asked') = 0
    BY <1>2, <2>1 DEF TypeOK
  <2>4. QED
    BY <1>2, <2>1, <2>2, <2>3
<1>4. Len(said) \in 1 .. Len(said)
  BY <1>2 DEF TypeOK
<1>5. \E answer \in {"ok", "error"} :
        /\ said' = [said EXCEPT ![Len(said)] = answer]
        /\ Len(said') = Len(said) /\ said'[Len(said)] = answer
        /\ answer = "ok" => Accepts(c)
        /\ answer = "error" => Refuses(c)
  BY <1>2, <1>3, <1>4, SaidNow DEF Accepts, Refuses
<1>6. \A i \in 1 .. Len(line_queue) : line_queue[i].text \notin {"ok", "report", "error"}
  BY <1>2 DEF NewsInv
<1>7. IdleInv' /\ AskedInv'
  BY <1>1, <1>2, <1>3, <1>5 DEF IdleInv, AskedInv
<1>8. SaidInv'
  BY <1>1, <1>2, <1>3, <1>5, <1>6 DEF SaidInv, Mentions, Coming, Accepts, Refuses
<1>9. LastInv'
  BY <1>1, <1>2, <1>3, <1>6 DEF LastInv, Last, Accepts, Refuses
<1>10. OnceInv'
  <2>1. \A i \in 1 .. Len(line_queue') : line_queue'[i].cmd = 0
    BY <1>1, <1>2
  <2>2. "error" \notin seen'
    BY <1>1 DEF WaitInv
  <2>3. CASE waiting = "action" /\ Accepts(c)
    <3>1. \A i \in 1 .. Len(reply') : reply'[i].text \in {"ok", "report"} \ seen'
      BY <1>1, <1>2, <2>3 DEF Accepts
    <3>2. \A i, j \in 1 .. Len(reply') : i # j => reply'[i].text # reply'[j].text
      BY <1>2, <2>3 DEF Accepts
    <3>3. \A i \in 1 .. Len(reply') :
            \A j \in i + 1 .. Len(reply') : j \in 1 .. Len(reply') /\ i # j
      BY <1>3
    <3>4. QED
      BY <2>1, <3>1, <3>2, <3>3 DEF OnceInv
  <2>4. CASE Refuses(c)
    <3>1. Len(reply') = 1 /\ reply'[1].text = "error"
      BY <2>4 DEF Refuses
    <3>2. QED
      BY <2>1, <2>2, <3>1 DEF OnceInv
  <2>5. QED
    BY <1>1, <1>3, <2>3, <2>4 DEF OnceInv
<1>11. QED
  BY <1>2, <1>5, <1>7, <1>8, <1>9, <1>10 DEF WaitsInv

\* A line of the answer comes in.
LEMMA SayStep ==
  ASSUME TypeOK, NewsInv, WaitsInv, Say
  PROVE  WaitsInv'
<1>1. /\ waiting # "none" /\ asked = <<>> /\ Len(said) = Len(results) + 1
      /\ UNCHANGED <<waiting, seen, asked, said, results>>
  <2>1. waiting # "none"
    BY WaitsOn DEF Say
  <2>2. QED
    BY <2>1 DEF Say, WaitsInv, AskedInv
<1>2. /\ Len(reply) \in Nat /\ Len(reply) >= 1 /\ 1 \in 1 .. Len(reply)
      /\ Len(reply') = Len(reply) - 1
      /\ \A i \in 1 .. Len(reply') : i + 1 \in 1 .. Len(reply) /\ reply'[i] = reply[i + 1]
      /\ reply' \in Seq([text : {"ok", "error", "report", "info"}, cmd : Nat])
  <2>1. reply \in Seq([text : {"ok", "error", "report", "info"}, cmd : Nat])
    BY DEF TypeOK
  <2>2. /\ Len(reply) >= 1 /\ Len(reply') = Len(reply) - 1
        /\ \A i \in 1 .. Len(reply') : reply'[i] = reply[i + 1]
        /\ reply' \in Seq([text : {"ok", "error", "report", "info"}, cmd : Nat])
    BY SayPushes
  <2>3. Len(reply) \in Nat
    BY <2>1
  <2>4. \A i \in 1 .. Len(reply') : i + 1 \in 1 .. Len(reply)
    BY <2>2, <2>3
  <2>5. QED
    BY <2>2, <2>3, <2>4
<1>3. PICK text \in Texts :
        /\ PushLine(text, reply[1].cmd)
        /\ text \in {"ok", "error", "report"} => text = reply[1].text
        /\ reply[1].text \in {"ok", "error", "report"} => text = reply[1].text
  BY SayPushes
<1>4. reply[1].cmd \in Nat /\ reply[1].cmd = Len(said) /\ Len(said) # 0 /\ Len(results) \in Nat
  BY <1>1, <1>2, SayPushes DEF WaitsInv, AskedInv, TypeOK
<1>5. \A i \in 1 .. Len(line_queue') :
        \/ i \in 1 .. Len(line_queue) /\ line_queue'[i] = line_queue[i]
        \/ /\ i = Len(line_queue) + 1
           /\ line_queue'[i].text = text /\ line_queue'[i].cmd = Len(said)
  BY <1>3, <1>4, PushedLine
<1>6. Len(line_queue) \in Nat
  BY DEF TypeOK
<1>7. IdleInv' /\ AskedInv'
  BY <1>1, <1>2, <1>5 DEF IdleInv, AskedInv, WaitsInv
<1>8. SaidInv'
  <2>1. \A t \in {"ok", "error", "report"} :
          Coming(t)' \/ Mentions(t)' => Coming(t) \/ Mentions(t)
    BY <1>2, <1>3, <1>5 DEF Coming, Mentions
  <2>2. QED
    BY <1>1, <2>1 DEF SaidInv, WaitsInv
<1>9. LastInv'
  <2>1. \A i \in 1 .. Len(line_queue) : line_queue[i].text \notin Last(waiting)
    BY <1>1, <1>2 DEF LastInv, WaitsInv
  <2>2. text \in Last(waiting) => reply' = <<>>
    <3>1. text \in Last(waiting) => Len(reply) = 1
      BY <1>1, <1>2, <1>3 DEF LastInv, WaitsInv, Last
    <3>2. Len(reply') = 0 => reply' = <<>>
      BY <1>2
    <3>3. QED
      BY <1>2, <3>1, <3>2
  <2>3. \A i \in 1 .. Len(line_queue') :
          line_queue'[i].text \in Last(waiting) =>
            /\ reply' = <<>>
            /\ \A j \in i + 1 .. Len(line_queue') : line_queue'[j].cmd = 0
    <3> SUFFICES ASSUME NEW i \in 1 .. Len(line_queue'), line_queue'[i].text \in Last(waiting)
                 PROVE  /\ reply' = <<>>
                        /\ \A j \in i + 1 .. Len(line_queue') : line_queue'[j].cmd = 0
      OBVIOUS
    <3>1. i = Len(line_queue) + 1 /\ text \in Last(waiting)
      BY <1>5, <2>1
    <3>2. \A j \in 1 .. Len(line_queue') : j <= Len(line_queue) + 1
      BY <1>5, <1>6
    <3>3. QED
      BY <1>6, <2>2, <3>1, <3>2
  <2>4. \A i \in 1 .. Len(reply') : reply'[i].text \in Last(waiting) => i = Len(reply')
    <3>1. \A i \in 1 .. Len(reply) : reply[i].text \in Last(waiting) => i = Len(reply)
      BY <1>1 DEF LastInv, WaitsInv
    <3>2. ASSUME NEW i \in 1 .. Len(reply'), reply'[i].text \in Last(waiting)
          PROVE  i + 1 = Len(reply)
      BY <1>2, <3>1, <3>2
    <3>3. QED
      BY <1>2, <3>2
  <2>5. QED
    BY <1>1, <2>3, <2>4 DEF LastInv
<1>10. OnceInv'
  <2> SUFFICES ASSUME waiting = "action" PROVE OnceInv'
    BY <1>1 DEF OnceInv
  <2>1. /\ reply[1].text \in {"ok", "report", "error"} \ seen
        /\ \A j \in 2 .. Len(reply) : reply[j].text # reply[1].text
    BY <1>2 DEF OnceInv, WaitsInv
  <2>2. text = reply[1].text
    BY <1>3, <2>1
  <2>3. /\ \A i \in 1 .. Len(line_queue) :
             line_queue[i].cmd # 0 =>
               /\ line_queue[i].text \in {"ok", "report", "error"} \ seen
               /\ \A j \in i + 1 .. Len(line_queue) : line_queue[j].text # line_queue[i].text
               /\ \A j \in 1 .. Len(reply) : reply[j].text # line_queue[i].text
        /\ \A i \in 1 .. Len(reply) :
             /\ reply[i].text \in {"ok", "report", "error"} \ seen
             /\ \A j \in i + 1 .. Len(reply) : reply[j].text # reply[i].text
    BY DEF OnceInv, WaitsInv
  <2>4. ASSUME NEW i \in 1 .. Len(line_queue'), line_queue'[i].cmd # 0
        PROVE  /\ line_queue'[i].text \in {"ok", "report", "error"} \ seen
               /\ \A j \in i + 1 .. Len(line_queue') : line_queue'[j].text # line_queue'[i].text
               /\ \A j \in 1 .. Len(reply') : reply'[j].text # line_queue'[i].text
    <3>1. \A j \in i + 1 .. Len(line_queue') : j \in 1 .. Len(line_queue')
      OBVIOUS
    <3>2. CASE i = Len(line_queue) + 1 /\ line_queue'[i].text = text
      <4>1. \A j \in 1 .. Len(line_queue') : ~(j \in i + 1 .. Len(line_queue'))
        BY <1>5, <1>6, <3>2
      <4>2. line_queue'[i].text \in {"ok", "report", "error"} \ seen
        BY <2>1, <2>2, <3>2
      <4>3. \A j \in i + 1 .. Len(line_queue') : line_queue'[j].text # line_queue'[i].text
        BY <3>1, <4>1
      <4>4. ASSUME NEW j \in 1 .. Len(reply') PROVE reply'[j].text # line_queue'[i].text
        <5>1. j + 1 \in 2 .. Len(reply) /\ reply'[j] = reply[j + 1]
          BY <1>2
        <5>2. QED
          BY <2>1, <2>2, <3>2, <5>1
      <4>5. QED
        BY <4>2, <4>3, <4>4
    <3>3. CASE i \in 1 .. Len(line_queue) /\ line_queue'[i] = line_queue[i]
      <4>1. /\ line_queue[i].text \in {"ok", "report", "error"} \ seen
            /\ line_queue[i].text # text
            /\ \A j \in 1 .. Len(reply) : reply[j].text # line_queue[i].text
        BY <1>2, <2>2, <2>3, <3>3, <2>4
      <4>2. ASSUME NEW j \in i + 1 .. Len(line_queue')
            PROVE  line_queue'[j].text # line_queue'[i].text
        <5>1. j \in 1 .. Len(line_queue')
          BY <3>1
        <5>2. CASE line_queue'[j].text = text
          BY <3>3, <4>1, <5>2
        <5>3. CASE j \in 1 .. Len(line_queue) /\ line_queue'[j] = line_queue[j]
          <6>1. j \in i + 1 .. Len(line_queue)
            BY <5>3
          <6>2. QED
            BY <2>3, <2>4, <3>3, <5>3, <6>1
        <5>4. QED
          BY <1>5, <5>1, <5>2, <5>3
      <4>3. QED
        BY <1>2, <3>3, <4>1, <4>2
    <3>4. QED
      BY <1>5, <3>2, <3>3
  <2>5. ASSUME NEW i \in 1 .. Len(reply')
        PROVE  /\ reply'[i].text \in {"ok", "report", "error"} \ seen
               /\ \A j \in i + 1 .. Len(reply') : reply'[j].text # reply'[i].text
    <3>1. i + 1 \in 1 .. Len(reply) /\ reply'[i] = reply[i + 1]
      BY <1>2
    <3>2. \A j \in i + 1 .. Len(reply') :
            /\ j \in 1 .. Len(reply') /\ reply'[j] = reply[j + 1]
            /\ j + 1 \in (i + 1) + 1 .. Len(reply)
      BY <1>2
    <3>3. \A j \in (i + 1) + 1 .. Len(reply) : reply[j].text # reply[i + 1].text
      BY <2>3, <3>1
    <3>4. reply'[i].text \in {"ok", "report", "error"} \ seen
      BY <2>3, <3>1
    <3>5. QED
      BY <3>1, <3>2, <3>3, <3>4
  <2>6. QED
    BY <1>1, <2>4, <2>5 DEF OnceInv
<1>11. QED
  BY <1>7, <1>8, <1>9, <1>10 DEF WaitsInv

\* News comes in.
LEMMA DropStep ==
  ASSUME TypeOK, WaitsInv, DropPdp
  PROVE  WaitsInv'
<1>1. UNCHANGED <<waiting, seen, asked, reply, said, results>>
  BY DEF DropPdp
<1>2. PushLine("deactive", 0) /\ "deactive" \in Texts
  BY DEF DropPdp, Texts
<1>3. \A i \in 1 .. Len(line_queue') :
        \/ i \in 1 .. Len(line_queue) /\ line_queue'[i] = line_queue[i]
        \/ line_queue'[i].text = "deactive" /\ line_queue'[i].cmd = 0
  BY <1>2, PushedLine
<1>4. IdleInv' /\ AskedInv'
  BY <1>1, <1>3 DEF WaitsInv, IdleInv, AskedInv
<1>5. SaidInv'
  BY <1>1, <1>3 DEF WaitsInv, SaidInv, Mentions, Coming
<1>6. \A i \in 1 .. Len(line_queue') : \A j \in i + 1 .. Len(line_queue') :
        /\ j \in 1 .. Len(line_queue')
        /\ i \in 1 .. Len(line_queue) /\ j \in 1 .. Len(line_queue) =>
             j \in i + 1 .. Len(line_queue)
  OBVIOUS
<1>7. LastInv'
  <2>1. "deactive" \notin Last(waiting)
    BY DEF Last
  <2>2. QED
    BY <1>1, <1>3, <1>6, <2>1 DEF WaitsInv, LastInv
<1>8. OnceInv'
  BY <1>1, <1>3, <1>6 DEF WaitsInv, OnceInv
<1>9. QED
  BY <1>4, <1>5, <1>7, <1>8 DEF WaitsInv

\* A line is read, and more are to come.
LEMMA ReadOnStep ==
  ASSUME TypeOK, NewsInv, WaitsInv, ReadOn
  PROVE  WaitsInv'
<1> DEFINE h == line_queue[1]
<1>1. /\ UNCHANGED <<waiting, asked, reply, said, results>> /\ waiting # "none"
      /\ seen' = SeenWith(h.text)
      /\ Len(line_queue) \in Nat /\ 1 \in 1 .. Len(line_queue)
      /\ Len(line_queue') = Len(line_queue) - 1
      /\ \A i \in 1 .. Len(line_queue') :
           i + 1 \in 1 .. Len(line_queue) /\ line_queue'[i] = line_queue[i + 1]
  BY Taken DEF ReadOn, Reading
<1>2. \A t \in {"ok", "report", "error"} : t \in seen' <=> t \in seen \/ t = h.text
  BY <1>1 DEF SeenWith
<1>3. IdleInv' /\ AskedInv'
  <2>1. asked # <<>> => h.text = "deactive"
    BY <1>1 DEF WaitsInv, AskedInv, NewsInv
  <2>2. asked # <<>> => seen' \cap {"ok", "report"} = {}
    BY <1>1, <1>2, <2>1 DEF WaitsInv, AskedInv
  <2>3. QED
    BY <1>1, <2>2 DEF WaitsInv, IdleInv, AskedInv
<1>4. SaidInv'
  <2>1. \A t \in {"ok", "error", "report"} : Mentions(t)' => Mentions(t)
    BY <1>1 DEF Mentions
  <2>2. seen' \cap {"ok", "report"} # {} =>
          seen \cap {"ok", "report"} # {} \/ Mentions("ok") \/ Mentions("report")
    BY <1>1, <1>2 DEF Mentions
  <2>3. \A t \in {"ok", "error", "report"} : Coming(t)' <=> Coming(t)
    BY <1>1 DEF Coming
  <2>4. QED
    BY <1>1, <2>1, <2>2, <2>3 DEF WaitsInv, SaidInv
<1>5. \A i \in 1 .. Len(line_queue') : \A j \in i + 1 .. Len(line_queue') :
        /\ j \in 1 .. Len(line_queue') /\ j + 1 \in (i + 1) + 1 .. Len(line_queue)
        /\ line_queue'[j] = line_queue[j + 1]
  BY <1>1
<1>6. LastInv'
  <2>1. ASSUME NEW i \in 1 .. Len(line_queue'), line_queue'[i].text \in Last(waiting)
        PROVE  /\ reply = <<>>
               /\ \A j \in i + 1 .. Len(line_queue') : line_queue'[j].cmd = 0
    <3>1. i + 1 \in 1 .. Len(line_queue) /\ line_queue[i + 1].text \in Last(waiting)
      BY <1>1, <2>1
    <3>2. reply = <<>> /\ \A j \in (i + 1) + 1 .. Len(line_queue) : line_queue[j].cmd = 0
      BY <1>1, <3>1 DEF WaitsInv, LastInv
    <3>3. QED
      BY <1>5, <3>2
  <2>2. \A i \in 1 .. Len(reply) : reply[i].text \in Last(waiting) => i = Len(reply)
    BY <1>1 DEF WaitsInv, LastInv
  <2>3. QED
    BY <1>1, <2>1, <2>2 DEF LastInv
<1>7. OnceInv'
  <2> SUFFICES ASSUME waiting = "action" PROVE OnceInv'
    BY <1>1 DEF OnceInv
  <2>1. /\ \A i \in 1 .. Len(line_queue) :
             line_queue[i].cmd # 0 =>
               /\ line_queue[i].text \in {"ok", "report", "error"} \ seen
               /\ \A j \in i + 1 .. Len(line_queue) : line_queue[j].text # line_queue[i].text
               /\ \A j \in 1 .. Len(reply) : reply[j].text # line_queue[i].text
        /\ \A i \in 1 .. Len(reply) :
             /\ reply[i].text \in {"ok", "report", "error"} \ seen
             /\ \A j \in i + 1 .. Len(reply) : reply[j].text # reply[i].text
    BY DEF OnceInv, WaitsInv
  <2>2. /\ \A j \in 2 .. Len(line_queue) : line_queue[j].cmd # 0 => line_queue[j].text # h.text
        /\ \A j \in 1 .. Len(reply) : reply[j].text # h.text
    <3>1. CASE h.cmd = 0
      BY <1>1, <2>1, <3>1 DEF NewsInv
    <3>2. CASE h.cmd # 0
      BY <1>1, <2>1, <3>2
    <3>3. QED
      BY <3>1, <3>2
  <2>3. ASSUME NEW i \in 1 .. Len(line_queue'), line_queue'[i].cmd # 0
        PROVE  /\ line_queue'[i].text \in {"ok", "report", "error"} \ seen'
               /\ \A j \in i + 1 .. Len(line_queue') : line_queue'[j].text # line_queue'[i].text
               /\ \A j \in 1 .. Len(reply) : reply[j].text # line_queue'[i].text
    <3>1. /\ i + 1 \in 2 .. Len(line_queue) /\ i + 1 \in 1 .. Len(line_queue)
          /\ line_queue'[i] = line_queue[i + 1]
      BY <1>1
    <3>2. /\ line_queue[i + 1].text \in {"ok", "report", "error"} \ seen
          /\ \A j \in (i + 1) + 1 .. Len(line_queue) :
               line_queue[j].text # line_queue[i + 1].text
          /\ \A j \in 1 .. Len(reply) : reply[j].text # line_queue[i + 1].text
      BY <2>1, <2>3, <3>1
    <3>3. line_queue[i + 1].text # h.text
      BY <2>2, <2>3, <3>1
    <3>4. line_queue'[i].text \in {"ok", "report", "error"} \ seen'
      BY <1>2, <3>1, <3>2, <3>3
    <3>5. \A j \in i + 1 .. Len(line_queue') : line_queue'[j].text # line_queue'[i].text
      BY <1>5, <3>1, <3>2
    <3>6. QED
      BY <3>1, <3>2, <3>4, <3>5
  <2>4. \A i \in 1 .. Len(reply) : reply[i].text \in {"ok", "report", "error"} \ seen'
    BY <1>2, <2>1, <2>2
  <2>5. QED
    BY <1>1, <2>1, <2>3, <2>4 DEF OnceInv
<1>8. QED
  BY <1>3, <1>4, <1>6, <1>7 DEF WaitsInv

\* Once a command has been given up too early, it has been.
LEMMA LateGrows ==
  ASSUME TypeOK, [Next]_vars, late' = 0
  PROVE  late = 0
<1>1. late \in Nat
  BY LinkAssumption DEF TypeOK
<1>2. late' = late \/ late' = late + 1
  <2>1. CASE TimeOut
    BY <2>1 DEF TimeOut
  <2>2. CASE UNCHANGED vars
    BY <2>2 DEF vars
  <2>3. CASE Obey \/ Ignore \/ Say \/ DropPdp \/ Restart \/ Send \/ Flush \/ Boot
    BY <2>3 DEF Obey, Ignore, Say, DropPdp, Restart, Send, Flush, Boot
  <2>4. CASE ReadOn \/ ReadLast \/ ReadError
    BY <2>4 DEF ReadOn, ReadLast, ReadError
  <2>5. QED
    BY <2>1, <2>2, <2>3, <2>4 DEF Next
<1>3. QED
  BY <1>1, <1>2

\* Every step keeps the port in order until a command is given up too early.
LEMMA PortStep ==
  ASSUME IInv, [Next]_vars, NewsInv'
  PROVE  PortInv'
<1> SUFFICES ASSUME late' = 0 PROVE (OwnAnswer /\ WaitsInv)'
  BY DEF PortInv, WaitsInv
<1>1. /\ TypeOK /\ NewsInv /\ WaitInv
      /\ late \in Nat /\ Len(said) \in Nat /\ Len(results) \in Nat
  BY LinkAssumption DEF IInv, TypeOK
<1>2. late = 0
  BY <1>1, LateGrows
<1>3. OwnAnswer /\ WaitsInv
  BY <1>2 DEF IInv, PortInv, WaitsInv
<1>4. CASE UNCHANGED <<said, results>> /\ WaitsInv'
  BY <1>3, <1>4 DEF OwnAnswer
<1>5. CASE Obey
  <2>1. /\ WaitsInv' /\ results' = results
        /\ \E answer \in {"ok", "error"} : said' = [said EXCEPT ![Len(said)] = answer]
    BY <1>1, <1>3, <1>5, ObeyStep DEF Obey
  <2>2. \A n \in 1 .. Len(said) : n # Len(said) => said'[n] = said[n]
    BY <1>1, <2>1, SaidNow
  <2>3. Len(said) = Len(results) + 1
    BY <1>3, <1>5, <1>1, WaitsOn DEF WaitsInv, AskedInv, Obey
  <2>4. QED
    BY <1>1, <1>3, <2>1, <2>2, <2>3 DEF OwnAnswer
<1>6. CASE Ignore
  <2>1. /\ waiting # "none" /\ asked # <<>> /\ asked' = Tail(asked)
        /\ UNCHANGED <<driver, line_queue, reply, said, results>>
    BY <1>1, <1>3, <1>6, WaitsOn DEF Ignore
  <2>2. asked' = <<>> /\ Len(asked') = 0
    <3>1. asked \in Seq([kind : Kinds, cmd : Nat]) /\ Len(asked) <= 1
      BY <1>1, <1>3, <2>1 DEF WaitsInv, AskedInv, TypeOK
    <3>2. /\ Len(asked) >= 1 /\ Len(asked') = Len(asked) - 1
          /\ asked' \in Seq([kind : Kinds, cmd : Nat])
      BY <2>1, <3>1, FirstAndRest
    <3>3. QED
      BY <3>1, <3>2
  <2>3. WaitsInv'
    BY <1>3, <2>1, <2>2
       DEF WaitsInv, IdleInv, AskedInv, SaidInv, LastInv, OnceInv, Coming, Mentions
  <2>4. QED
    BY <1>4, <2>1, <2>3
<1>7. CASE Say
  BY <1>1, <1>3, <1>4, <1>7, SayStep DEF Say
<1>8. CASE DropPdp
  BY <1>1, <1>3, <1>4, <1>8, DropStep DEF DropPdp
<1>9. CASE Send
  <2>1. PICK kind \in Kinds \ {"action"} : Issue(kind)
    BY <1>9 DEF Send
  <2>2. /\ waiting = "none" /\ UNCHANGED <<line_queue, reply, results>>
    BY <1>9 DEF Send
  <2>3. /\ Len(said) = Len(results) /\ asked = <<>> /\ reply = <<>>
        /\ \A i \in 1 .. Len(line_queue) : line_queue[i].cmd = 0
    BY <1>3, <2>2 DEF WaitsInv, IdleInv
  <2>4. WaitsInv'
    BY <1>1, <2>1, <2>2, <2>3, FreshWait
  <2>5. OwnAnswer'
    BY <1>1, <1>3, <2>1, <2>2, <2>3, Issued DEF OwnAnswer
  <2>6. QED
    BY <2>4, <2>5
<1>10. CASE ReadOn
  BY <1>1, <1>3, <1>4, <1>10, ReadOnStep DEF ReadOn
<1>11. CASE ReadLast
  <2>1. PICK ok \in BOOLEAN : Return(ok)
    BY <1>11, Zenon DEF ReadLast, QueryResult
  <2>2. /\ waiting # "none" /\ said[Len(said)] = "ok" /\ asked = <<>> /\ reply' = <<>>
        /\ \A i \in 1 .. Len(line_queue') : line_queue'[i].cmd = 0
    BY <1>1, <1>3, <1>11, LastRead DEF ReadLast
  <2>3. Len(said) = Len(results) + 1
    BY <1>3, <2>2 DEF WaitsInv, AskedInv
  <2>4. QED
    BY <1>1, <1>3, <2>1, <2>2, <2>3, AfterReturn
<1>12. CASE ReadError \/ TimeOut
  <2>1. Return(FALSE) /\ reply' = reply
    BY <1>12 DEF ReadError, TimeOut
  <2>2. /\ waiting # "none" /\ asked = <<>> /\ reply = <<>>
        /\ \A i \in 1 .. Len(line_queue') : line_queue'[i].cmd = 0
    BY <1>1, <1>2, <1>3, <1>12, FailedRead
  <2>3. Len(said) = Len(results) + 1
    BY <1>3, <2>2 DEF WaitsInv, AskedInv
  <2>4. QED
    BY <1>1, <1>3, <2>1, <2>2, <2>3, AfterReturn
<1>13. CASE Flush \/ Boot
  <2>1. /\ waiting = "none" /\ waiting' = waiting /\ line_queue' = <<>>
        /\ UNCHANGED <<asked, reply, said, results>>
    BY <1>13 DEF Flush, Boot
  <2>2. WaitsInv'
    BY <1>3, <2>1 DEF WaitsInv, IdleInv, AskedInv, SaidInv, LastInv, OnceInv
  <2>3. QED
    BY <1>4, <2>1, <2>2
<1>14. CASE UNCHANGED vars
  <2>1. WaitsInv'
    BY <1>3, <1>14
       DEF vars, WaitsInv, IdleInv, AskedInv, SaidInv, LastInv, OnceInv, Coming, Mentions
  <2>2. QED
    BY <1>4, <1>14, <2>1 DEF vars
<1>15. CASE Restart
  <2>1. /\ UNCHANGED <<driver, line_queue, said, results>>
        /\ asked' = <<>> /\ reply' = <<>>
    BY <1>15 DEF Restart
  <2>2. WaitsInv'
    BY <1>3, <2>1
       DEF WaitsInv, IdleInv, AskedInv, SaidInv, LastInv, OnceInv, Coming, Mentions
  <2>3. QED
    BY <1>4, <2>1, <2>2
<1>16. QED
  BY <1>5, <1>6, <1>7, <1>8, <1>9, <1>10, <1>11, <1>12, <1>13, <1>14, <1>15 DEF Next

-----------------------------------------------------------------------------
(* What follows.                                                           *)

\* The inductive invariant holds in every reachable state of the link.
THEOREM Invariant == Spec => []IInv
<1>1. ASSUME IInv, [Next]_vars PROVE IInv'
  <2>1. /\ TypeOK /\ AskedNumbered /\ NewsInv /\ WaitInv /\ BeliefInv /\ SentInv
        /\ AskedFresh /\ ReportInv
    BY <1>1 DEF IInv
  <2>2. TypeOK' /\ AskedNumbered' /\ NewsInv'
    BY <1>1, <2>1, TypeStep, NumberedStep, NewsStep
  <2>3. WaitInv' /\ BeliefInv' /\ SentInv'
    BY <1>1, <2>1, WaitStep, BeliefStep, SentStep
  <2>4. AskedFresh' /\ ReportInv'
    BY <1>1, <2>1, FreshStep, ReportStep
  <2>5. PortInv'
    BY <1>1, <2>2, PortStep
  <2>6. QED
    BY <2>2, <2>3, <2>4, <2>5 DEF IInv
<1>2. QED
  BY <1>1, InitIInv, PTL DEF Spec

\* Every variable of the link keeps its type: the queue of lines above all, which
\* modem_push_line() never lets grow beyond its length.
THEOREM TypeCorrect == Spec => []TypeOK
<1>1. IInv => TypeOK
  BY DEF IInv
<1>2. QED
  BY <1>1, Invariant, PTL

\* While no command has been given up too early, a call that returns true has the
\* modem's own OK to that command, for every length of the queue: a line that is
\* dropped makes a call fail and never makes one succeed.
THEOREM AnswerCorrect == Spec => []AnswerIsOwn
<1>1. IInv => AnswerIsOwn
  BY DEF IInv, PortInv, AnswerIsOwn
<1>2. QED
  BY <1>1, Invariant, PTL

\* However late the answers are, across any number of sleeps, every publish that
\* succeeds takes the report of a request that the modem has sent and that no other
\* publish takes; and it is one of this boot unless an answer was on its way at its
\* start.
THEOREM PublishCorrect == Spec => []PublishedWasSent
<1>1. IInv => PublishedWasSent
  BY DEF IInv, SentInv, ReportInv, PublishedWasSent
<1>2. QED
  BY <1>1, Invariant, PTL

\* The driver believes in a context that is gone for one of four reasons only:
\* news dropped, flushed or overwritten, or a modem that restarted and sent none.
THEOREM BeliefCorrect == Spec => []KnownUnlessMissed
<1>1. IInv => KnownUnlessMissed
  BY DEF IInv, BeliefInv, KnownUnlessMissed
<1>2. QED
  BY <1>1, Invariant, PTL

\* A return is one of the port's, alone or with the next call.
LEMMA ReturnMaps ==
  ASSUME TypeOK, NEW ok \in BOOLEAN, Return(ok), waiting # "none",
         ok => said[Len(said)] = "ok"
  PROVE  Port!Next
<1>1. results' = Append(results, ok)
  BY DEF Return
<1>2. CASE ok /\ waiting = "para" /\ Issue("action")
  <2>1. said' = Append(said, "none") /\ waiting' = "action" /\ results' = Append(results, TRUE)
    BY <1>1, <1>2 DEF Issue
  <2>2. Port!ReturnAndCall
    BY <1>2, <2>1 DEF Port!ReturnAndCall, Port!Returned
  <2>3. QED
    BY <2>2 DEF Port!Next
<1>3. CASE waiting' = "none" /\ said' = said
  <2>1. Port!Return
    BY <1>1, <1>3 DEF Port!Return, Port!Returned
  <2>2. QED
    BY <2>1 DEF Port!Next
<1>4. QED
  BY <1>2, <1>3, Returns

\* Every step of the link is one of the port, or none of its business.
LEMMA StepMaps ==
  ASSUME IInv, late = 0, late' = late, [Next]_vars
  PROVE  [Port!Next]_Port!vars
<1>1. TypeOK /\ NewsInv /\ WaitInv /\ WaitsInv
  BY DEF IInv, PortInv, WaitsInv
<1>2. CASE UNCHANGED <<waiting, said, results>>
  BY <1>2 DEF Port!vars
<1>3. CASE Obey
  <2>1. /\ said[Len(said)] = "none" /\ UNCHANGED <<waiting, results>>
        /\ \E answer \in {"ok", "error"} : said' = [said EXCEPT ![Len(said)] = answer]
    BY <1>1, <1>3, ObeyStep DEF Obey
  <2>2. waiting # "none"
    BY <1>1, <1>3, WaitsOn DEF Obey
  <2>3. Port!Execute
    BY <2>1, <2>2 DEF Port!Execute
  <2>4. QED
    BY <2>3 DEF Port!Next
<1>4. CASE Send
  <2>1. PICK kind \in Kinds \ {"action"} : Issue(kind)
    BY <1>4 DEF Send
  <2>2. /\ waiting = "none" /\ waiting' # "none" /\ said' = Append(said, "none")
        /\ UNCHANGED results
    BY <1>4, <2>1 DEF Send, Issue, Kinds
  <2>3. Port!Call
    BY <2>2 DEF Port!Call
  <2>4. QED
    BY <2>3 DEF Port!Next
<1>5. CASE ReadLast
  <2>1. PICK ok \in BOOLEAN : Return(ok)
    BY <1>5, Zenon DEF ReadLast, QueryResult
  <2>2. waiting # "none" /\ said[Len(said)] = "ok"
    BY <1>1, <1>5, LastRead
  <2>3. QED
    BY <1>1, <2>1, <2>2, ReturnMaps
<1>6. CASE ReadError \/ TimeOut
  <2>1. Return(FALSE) /\ waiting # "none"
    BY <1>6 DEF ReadError, TimeOut, Reading
  <2>2. QED
    BY <1>1, <2>1, ReturnMaps
<1>7. QED
  BY <1>2, <1>3, <1>4, <1>5, <1>6 DEF Next, Ignore, Say, DropPdp, Restart, ReadOn, Flush, Boot,
     vars

\* The driver is a synchronous port for its callers, until a deadline is shorter
\* than the modem is slow: modem_cmd_expect() returns true only for a command that
\* was carried out, before it returned.
THEOREM Implements == Spec => ImplementsPort
<1>1. Init => Port!Init
  BY DEF Init, Port!Init
<1>2. ASSUME IInv, [Next]_vars PROVE [late' = 0 => Port!Next]_(Port!vars)
  <2>1. SUFFICES ASSUME late' = 0 PROVE [Port!Next]_(Port!vars)
    OBVIOUS
  <2>2. TypeOK
    BY <1>2 DEF IInv
  <2>3. late = 0
    BY <1>2, <2>1, <2>2, LateGrows
  <2>4. QED
    BY <1>2, <2>1, <2>3, StepMaps
<1>3. QED
  BY <1>1, <1>2, Invariant, PTL DEF Spec, ImplementsPort
=============================================================================
