-------------------------- MODULE TranscriptProofs --------------------------
(***************************************************************************)
(* Proofs about Transcript for every set of senders, every threshold and   *)
(* any number of sections.                                                 *)
(***************************************************************************)
EXTENDS Transcript, TLAPS

AllIdle == \A t \in Thread : pc[t] = "idle"

\* What is stored describes the screen: nobody, or the sender whose heading is
\* in force and the time of the last message.
Agree ==
    IF last_sender = NoOne THEN last_message_time = 0
    ELSE heading = last_sender /\ last_message_time = shown_at

\* What a thread shows, and whether it has printed a heading, fit its step.
Items ==
    \A t \in Thread :
        /\ pc[t] \in {"sender", "age", "heading", "body", "update"} =>
              item[t] \in (IF t = "recv" THEN Sender ELSE {SELF_SENDER})
        /\ pc[t] = "stamp" => t = "recv" /\ item[t] \in Sender \cup {"file"}
        /\ pc[t] = "name" => t = "recv" /\ item[t] = "file"
        /\ pc[t] \in {"sender", "age", "heading"} => ~headed[t]

\* A thread that has been alone in its section is still alone.
Alone == \A t, u \in Thread : t # u /\ pc[t] # "idle" /\ alone[t] => pc[u] = "idle"

(***************************************************************************)
(* What an undisturbed section knows at each step, from the test of        *)
(* last_sender over the printing to the update.                            *)
(***************************************************************************)
Before(t) == pc[t] \in {"sender", "age", "heading"} /\ ~suspect => Agree
AtAge(t) == pc[t] = "age" => item[t] = last_sender
AtStamp(t) ==
    pc[t] = "stamp" /\ item[t] # "file" =>
        /\ heading = item[t] /\ headed[t]
        /\ ~suspect => last_message_time \in {0, shown_at}
AtBody(t) ==
    pc[t] = "body" =>
        /\ headed[t] => heading = item[t]
        /\ ~suspect => /\ heading = item[t]
                       /\ now - shown_at >= TIMESTAMP_THRESHOLD =>
                             headed[t] /\ (t = "recv" => stamped[t])
AtUpdate(t) ==
    pc[t] = "update" => /\ shown_at = now
                        /\ headed[t] \/ ~suspect => heading = item[t]
AtLine(t) == pc[t] = "line" => last_sender = NoOne /\ last_message_time = 0

Knows(t) == Before(t) /\ AtAge(t) /\ AtStamp(t) /\ AtBody(t) /\ AtUpdate(t) /\ AtLine(t)

Sections == \A t \in Thread : alone[t] => Knows(t)

\* Between sections the stored state is right unless something is suspect.
Between == AllIdle /\ ~suspect => Agree

Shown == UnderOwnName /\ GapsAreMarked

Flags ==
    /\ headed \in [Thread -> BOOLEAN] /\ stamped \in [Thread -> BOOLEAN]
    /\ alone \in [Thread -> BOOLEAN] /\ suspect \in BOOLEAN

TranscriptInv == TypeOK /\ Flags /\ Items /\ Alone /\ Sections /\ Between /\ Shown

-----------------------------------------------------------------------------
(***************************************************************************)
(* There are two threads.                                                  *)
(***************************************************************************)
LEMMA TwoThreads ==
    /\ Other("recv") = "send" /\ Other("send") = "recv"
    /\ \A t, u \in Thread : t # u => u = Other(t)
  BY DEF Other, Thread

(***************************************************************************)
(* A freshly started client has an empty screen and nothing stored.        *)
(***************************************************************************)
LEMMA InitTranscript == Init => TranscriptInv
<1> SUFFICES ASSUME Init PROVE TranscriptInv
  OBVIOUS
<1> USE TranscriptAssumption DEF Init
<1>1. TypeOK
  BY DEF TypeOK, Texts
<1>2. Flags
  BY DEF Flags
<1>3. Items /\ Alone /\ Between
  BY DEF Items, Alone, Between, Agree
<1>4. Sections
  BY DEF Sections, Knows, Before, AtAge, AtStamp, AtBody, AtUpdate, AtLine
<1>5. Shown
  BY DEF Shown, UnderOwnName, GapsAreMarked, Nothing
<1>6. QED
  BY <1>1, <1>2, <1>3, <1>4, <1>5 DEF TranscriptInv

(***************************************************************************)
(* A step inside the section of t says nothing about the other thread: if  *)
(* that one is in a section too, neither counts as undisturbed.            *)
(***************************************************************************)
LEMMA StepFrame ==
    ASSUME TranscriptInv, NEW t \in Thread, pc[t] # "idle", NEW p,
           pc' = [pc EXCEPT ![t] = p], alone' = alone
    PROVE  /\ Alone'
           /\ \A u \in Thread : u # t /\ alone'[u] => Knows(u)'
<1>1. \A u \in Thread : u # t => pc'[u] = pc[u]
  BY DEF TranscriptInv, TypeOK
<1>2. \A u \in Thread : u # t /\ alone[u] => pc[u] = "idle"
  BY DEF TranscriptInv, Alone
<1>3. Alone'
  BY <1>1, <1>2 DEF TranscriptInv, Alone
<1>4. \A u \in Thread : u # t /\ alone'[u] => pc'[u] = "idle"
  BY <1>1, <1>2
<1>5. QED
  BY <1>3, <1>4 DEF Knows, Before, AtAge, AtStamp, AtBody, AtUpdate, AtLine

(***************************************************************************)
(* Entering: undisturbed if the other thread is idle, and then what is     *)
(* stored agrees with the screen, unless it was suspect before.            *)
(***************************************************************************)
LEMMA EnterStep ==
    ASSUME TranscriptInv, NEW t \in Thread, NEW i, Enter(t, i),
           i \in IF t = "recv" THEN Sender \cup {"stat", "file"} ELSE {SELF_SENDER, "command"}
    PROVE  TranscriptInv'
<1> USE TranscriptAssumption DEF Enter, TranscriptInv
<1>1. /\ FirstStep(i) \in {"sender", "reset", "name", "output"}
      /\ FirstStep(i) = "sender" => i \in (IF t = "recv" THEN Sender ELSE {SELF_SENDER})
      /\ FirstStep(i) = "name" => t = "recv" /\ i = "file"
      /\ i \in Texts \cup {"stat", "file", "command"}
  BY DEF FirstStep, Texts, SELF_SENDER, NoOne, Thread
<1>2. TypeOK'
  BY <1>1 DEF TypeOK, stored, screen
<1>3. Flags'
  BY DEF Flags, TypeOK
<1>4. Items'
  <2>1. pc'[t] = FirstStep(i) /\ item'[t] = i /\ ~headed'[t]
    BY DEF TypeOK, Flags
  <2>2. \A u \in Thread : u # t =>
            pc'[u] = pc[u] /\ item'[u] = item[u] /\ headed'[u] = headed[u]
    BY DEF TypeOK, Flags
  <2>3. QED
    BY <1>1, <2>1, <2>2 DEF Items
<1>5. pc'[t] # "idle" /\ \A u \in Thread : u # t => pc'[u] = pc[u]
  BY <1>1 DEF TypeOK
<1>6. Alone' /\ Sections'
  <2>1. CASE pc[Other(t)] = "idle"
    <3>1. AllIdle
      BY <2>1, TwoThreads DEF AllIdle
    <3>2. \A u \in Thread : u # t => pc'[u] = "idle"
      BY <3>1, <1>5 DEF AllIdle
    <3>3. Alone'
      BY <3>2 DEF Alone
    <3>4. \A u \in Thread : u # t => Knows(u)'
      BY <3>2 DEF Knows, Before, AtAge, AtStamp, AtBody, AtUpdate, AtLine
    <3>5. Knows(t)'
      <4>1. ~suspect => Agree
        BY <3>1 DEF Between
      <4>2. ~suspect' => Agree'
        BY <4>1 DEF Agree, stored, screen
      <4>3. pc'[t] = FirstStep(i)
        BY DEF TypeOK
      <4>4. QED
        BY <4>2, <4>3, <1>1 DEF Knows, Before, AtAge, AtStamp, AtBody, AtUpdate, AtLine
    <3>6. QED
      BY <3>3, <3>4, <3>5 DEF Sections
  <2>2. CASE pc[Other(t)] # "idle"
    BY <2>2 DEF Alone, Sections
  <2>3. QED
    BY <2>1, <2>2
<1>7. Between'
  BY <1>5 DEF Between, AllIdle
<1>8. Shown'
  BY DEF Shown, UnderOwnName, GapsAreMarked, screen
<1>9. QED
  BY <1>2, <1>3, <1>4, <1>6, <1>7, <1>8

(***************************************************************************)
(* Time passes between sections.                                           *)
(***************************************************************************)
LEMMA TickStep ==
    ASSUME TranscriptInv, Tick
    PROVE  TranscriptInv'
<1> USE TranscriptAssumption DEF Tick, TranscriptInv, stored, screen
<1>1. TypeOK' /\ Flags' /\ Items' /\ Alone'
  BY DEF TypeOK, Flags, Items, Alone
<1>2. Sections'
  BY DEF Sections, Knows, Before, AtAge, AtStamp, AtBody, AtUpdate, AtLine
<1>3. Between' /\ Shown'
  BY DEF Between, Agree, AllIdle, Shown, UnderOwnName, GapsAreMarked
<1>4. QED
  BY <1>1, <1>2, <1>3

(***************************************************************************)
(* A step that keeps the section open, prints no message and changes       *)
(* neither what is suspect nor who is alone.                               *)
(***************************************************************************)
LEMMA OpenStep ==
    ASSUME TranscriptInv, NEW t \in Thread, pc[t] # "idle",
           NEW p \in {"age", "heading", "stamp", "body", "update", "reset", "line", "write"},
           pc' = [pc EXCEPT ![t] = p], UNCHANGED <<rest, suspect>>,
           TypeOK', Flags', Items',
           alone[t] => Knows(t)', Shown'
    PROVE  TranscriptInv'
<1>1. Alone' /\ \A u \in Thread : u # t /\ alone'[u] => Knows(u)'
  BY StepFrame DEF rest
<1>2. Sections'
  BY <1>1 DEF Sections, rest
<1>3. pc'[t] # "idle"
  BY DEF TranscriptInv, TypeOK
<1>4. Between'
  BY <1>3 DEF Between, AllIdle
<1>5. QED
  BY <1>1, <1>2, <1>4 DEF TranscriptInv

(***************************************************************************)
(* A step that ends the section: disturbed ones leave suspicion behind,    *)
(* others what the premise says.                                           *)
(***************************************************************************)
LEMMA LeaveStep ==
    ASSUME TranscriptInv, NEW t \in Thread, pc[t] # "idle", NEW b \in BOOLEAN,
           Leave(t, b), UNCHANGED <<rest, headed, stamped, shown>>,
           TypeOK',
           alone[t] /\ (b \/ ~suspect) => Agree'
    PROVE  TranscriptInv'
<1>1. Alone' /\ \A u \in Thread : u # t /\ alone'[u] => Knows(u)'
  BY StepFrame DEF rest, Leave, Goto
<1>2. pc'[t] = "idle" /\ \A u \in Thread : u # t => pc'[u] = pc[u]
  BY DEF TranscriptInv, TypeOK, Leave, Goto
<1>3. Sections'
  <2>1. Knows(t)'
    BY <1>2 DEF Knows, Before, AtAge, AtStamp, AtBody, AtUpdate, AtLine
  <2>2. QED
    BY <1>1, <2>1 DEF Sections
<1>4. Between'
  BY DEF Between, Leave, TranscriptInv, Flags
<1>5. Items' /\ Flags'
  BY <1>2 DEF TranscriptInv, Items, Flags, Leave, rest
<1>6. Shown'
  BY DEF TranscriptInv, Shown, UnderOwnName, GapsAreMarked
<1>7. QED
  BY <1>1, <1>3, <1>4, <1>5, <1>6 DEF TranscriptInv

-----------------------------------------------------------------------------
(***************************************************************************)
(* The accesses to the shared state.                                       *)
(***************************************************************************)
LEMMA NeedSenderStep ==
    ASSUME TranscriptInv, NEW t \in Thread, need_sender(t)
    PROVE  TranscriptInv'
<1> DEFINE p == IF item[t] # last_sender THEN "heading" ELSE "age"
<1>1. pc' = [pc EXCEPT ![t] = p] /\ pc[t] = "sender" /\ pc'[t] = p
  BY DEF need_sender, Goto, At, TranscriptInv, TypeOK
<1>2. TypeOK' /\ Flags' /\ Items'
  BY <1>1 DEF need_sender, rest, stored, screen, TranscriptInv, TypeOK, Flags, Items
<1>3. alone[t] => Knows(t)'
  BY <1>1 DEF need_sender, rest, stored, screen, TranscriptInv, Sections, Agree,
     Knows, Before, AtAge, AtStamp, AtBody, AtUpdate, AtLine
<1>4. Shown'
  BY DEF need_sender, screen, TranscriptInv, Shown, UnderOwnName, GapsAreMarked
<1>5. QED
  BY <1>1, <1>2, <1>3, <1>4, OpenStep DEF need_sender

\* Within the threshold of the last message nothing has to be marked.
LEMMA NeedTimestampStep ==
    ASSUME TranscriptInv, NEW t \in Thread, need_timestamp(t)
    PROVE  TranscriptInv'
<1> DEFINE p == IF NeedTimestamp THEN "heading" ELSE "body"
<1>1. pc' = [pc EXCEPT ![t] = p] /\ pc[t] = "age" /\ pc'[t] = p
  BY DEF need_timestamp, Goto, At, TranscriptInv, TypeOK
<1>2. TypeOK' /\ Flags' /\ Items'
  BY <1>1 DEF need_timestamp, rest, stored, screen, TranscriptInv, TypeOK, Flags, Items
<1>3. alone[t] => Knows(t)'
  <2> SUFFICES ASSUME alone[t] PROVE Knows(t)'
    OBVIOUS
  <2>1. (~suspect => Agree) /\ item[t] = last_sender
    BY <1>1 DEF TranscriptInv, Sections, Knows, Before, AtAge
  <2>2. item[t] # NoOne
    BY <1>1, TranscriptAssumption DEF TranscriptInv, Items, SELF_SENDER, NoOne
  <2>3. CASE NeedTimestamp
    BY <1>1, <2>1, <2>3 DEF need_timestamp, rest, stored, screen, Agree,
       Knows, Before, AtAge, AtStamp, AtBody, AtUpdate, AtLine
  <2>4. CASE ~NeedTimestamp
    <3>1. ~suspect => heading = item[t] /\ ~(now - shown_at >= TIMESTAMP_THRESHOLD)
      BY <2>1, <2>2, <2>4 DEF Agree, NeedTimestamp
    <3>2. ~headed'[t]
      BY <1>1 DEF need_timestamp, TranscriptInv, Items
    <3>3. QED
      BY <1>1, <3>1, <3>2, <2>4 DEF need_timestamp, rest, stored, screen,
       Knows, Before, AtAge, AtStamp, AtBody, AtUpdate, AtLine
  <2>5. QED
    BY <2>3, <2>4
<1>4. Shown'
  BY DEF need_timestamp, screen, TranscriptInv, Shown, UnderOwnName, GapsAreMarked
<1>5. QED
  BY <1>1, <1>2, <1>3, <1>4, OpenStep DEF need_timestamp

\* The update restores agreement: the heading in force is that of the section.
LEMMA UpdateStep ==
    ASSUME TranscriptInv, NEW t \in Thread, update_last_sender(t)
    PROVE  TranscriptInv'
<1>1. pc[t] = "update" /\ item[t] \in Sender \cup {SELF_SENDER}
  BY DEF update_last_sender, At, TranscriptInv, Items
<1>2. item[t] # NoOne /\ item[t] \in Texts
  BY <1>1, TranscriptAssumption DEF SELF_SENDER, NoOne, Texts
<1>3. TypeOK'
  BY <1>2 DEF update_last_sender, Leave, Goto, rest, screen, TranscriptInv, TypeOK
<1>4. alone[t] /\ (headed[t] \/ ~suspect) => Agree'
  BY <1>1, <1>2 DEF update_last_sender, screen, rest, TranscriptInv, Sections, Knows, AtUpdate, Agree
<1>5. headed[t] \in BOOLEAN
  BY DEF TranscriptInv, Flags
<1>6. QED
  BY <1>1, <1>3, <1>4, <1>5, LeaveStep DEF update_last_sender, screen

\* After a reset the stored state claims nothing about the screen.
LEMMA ResetStep ==
    ASSUME TranscriptInv, NEW t \in Thread, reset_last_sender(t)
    PROVE  TranscriptInv'
<1>1. pc[t] = "reset" /\ Agree' /\ last_sender' = NoOne /\ last_message_time' = 0
  BY DEF reset_last_sender, At, Forget, Agree
<1>2. CASE item[t] = "stat"
  <2>1. pc' = [pc EXCEPT ![t] = "line"] /\ pc'[t] = "line" /\ UNCHANGED suspect
    BY <1>2 DEF reset_last_sender, Goto, TranscriptInv, TypeOK
  <2>2. TypeOK' /\ Flags' /\ Items'
    BY <1>1, <2>1, TranscriptAssumption DEF reset_last_sender, rest, screen, TranscriptInv, TypeOK, Flags, Items
  <2>3. Knows(t)'
    BY <1>1, <2>1 DEF Knows, Before, AtAge, AtStamp, AtBody, AtUpdate, AtLine
  <2>4. Shown'
    BY DEF reset_last_sender, screen, TranscriptInv, Shown, UnderOwnName, GapsAreMarked
  <2>5. QED
    BY <1>1, <2>1, <2>2, <2>3, <2>4, OpenStep DEF reset_last_sender
<1>3. CASE item[t] # "stat"
  <2>1. Leave(t, TRUE)
    BY <1>3 DEF reset_last_sender
  <2>2. TypeOK'
    BY <1>1, <2>1, TranscriptAssumption DEF reset_last_sender, Leave, Goto, rest, screen, TranscriptInv, TypeOK
  <2>3. QED
    BY <1>1, <2>1, <2>2, LeaveStep DEF reset_last_sender, screen
<1>4. QED
  BY <1>2, <1>3

-----------------------------------------------------------------------------
(***************************************************************************)
(* Printing.                                                               *)
(***************************************************************************)
LEMMA HeadingStep ==
    ASSUME TranscriptInv, NEW t \in Thread, print_heading(t)
    PROVE  TranscriptInv'
<1> DEFINE p == IF t = "recv" THEN "stamp" ELSE "body"
<1>1. pc' = [pc EXCEPT ![t] = p] /\ pc[t] = "heading" /\ pc'[t] = p
  BY DEF print_heading, Goto, At, TranscriptInv, TypeOK
<1>2. /\ item[t] \in (IF t = "recv" THEN Sender ELSE {SELF_SENDER})
      /\ headed'[t] /\ heading' = item[t]
  BY <1>1 DEF print_heading, TranscriptInv, Items, Flags
<1>3. TypeOK' /\ Flags' /\ Items'
  BY <1>1, <1>2 DEF print_heading, rest, stored, TranscriptInv, TypeOK, Flags, Items, Texts
<1>4. alone[t] => Knows(t)'
  <2> SUFFICES ASSUME alone[t] PROVE Knows(t)'
    OBVIOUS
  <2>1. ~suspect => last_message_time \in {0, shown_at}
    BY <1>1 DEF TranscriptInv, Sections, Knows, Before, Agree
  <2>2. QED
    BY <1>1, <1>2, <2>1 DEF print_heading, rest, stored, Knows, Before, AtAge, AtStamp, AtBody, AtUpdate, AtLine
<1>5. Shown'
  BY DEF print_heading, TranscriptInv, Shown, UnderOwnName, GapsAreMarked
<1>6. QED
  BY <1>1, <1>3, <1>4, <1>5, OpenStep DEF print_heading

\* The second look at the age finds what the first one found, if undisturbed.
LEMMA StampStep ==
    ASSUME TranscriptInv, NEW t \in Thread, show_timestamp(t)
    PROVE  TranscriptInv'
<1> DEFINE p == IF item[t] = "file" THEN "write" ELSE "body"
<1>1. /\ pc' = [pc EXCEPT ![t] = p] /\ pc[t] = "stamp" /\ pc'[t] = p
      /\ t = "recv" /\ item[t] \in Sender \cup {"file"}
  BY DEF show_timestamp, Goto, At, TranscriptInv, TypeOK, Items
<1>2. NeedTimestamp \in BOOLEAN /\ stamped' = [stamped EXCEPT ![t] = NeedTimestamp]
      /\ stamped'[t] = NeedTimestamp
  BY DEF NeedTimestamp, show_timestamp, TranscriptInv, Flags
<1>3. TypeOK' /\ Flags' /\ Items'
  BY <1>1, <1>2, TranscriptAssumption DEF show_timestamp, rest, stored, screen, TranscriptInv, TypeOK, Flags, Items
<1>4. alone[t] => Knows(t)'
  <2> SUFFICES ASSUME alone[t], item[t] # "file" PROVE Knows(t)'
    BY <1>1 DEF Knows, Before, AtAge, AtStamp, AtBody, AtUpdate, AtLine
  <2>1. /\ heading = item[t] /\ headed[t]
        /\ ~suspect => last_message_time \in {0, shown_at}
    BY <1>1 DEF TranscriptInv, Sections, Knows, AtStamp
  <2>2. ~suspect /\ now - shown_at >= TIMESTAMP_THRESHOLD => NeedTimestamp
    BY <2>1 DEF NeedTimestamp
  <2>3. QED
    BY <1>1, <1>2, <2>1, <2>2 DEF show_timestamp, rest, stored, screen, Knows, Before, AtAge, AtStamp, AtBody, AtUpdate, AtLine
<1>5. Shown'
  BY DEF show_timestamp, screen, TranscriptInv, Shown, UnderOwnName, GapsAreMarked
<1>6. QED
  BY <1>1, <1>3, <1>4, <1>5, OpenStep DEF show_timestamp

\* The message is printed under what the section knows to be its own heading.
LEMMA BodyStep ==
    ASSUME TranscriptInv, NEW t \in Thread, print_body(t)
    PROVE  TranscriptInv'
<1>1. pc' = [pc EXCEPT ![t] = "update"] /\ pc[t] = "body" /\ pc'[t] = "update"
  BY DEF print_body, Goto, At, TranscriptInv, TypeOK
<1>2. TypeOK' /\ Flags' /\ Items'
  BY <1>1 DEF print_body, rest, stored, TranscriptInv, TypeOK, Flags, Items
<1>3. alone[t] => AtBody(t)
  BY DEF TranscriptInv, Sections, Knows
<1>4. alone[t] => Knows(t)'
  BY <1>1, <1>3 DEF print_body, rest, stored, Knows, Before, AtAge, AtStamp, AtBody, AtUpdate, AtLine
<1>5. Shown'
  <2>1. /\ shown'.from = item[t] /\ shown'.under = heading /\ shown'.gap = now - shown_at
        /\ shown'.headed = headed[t] /\ shown'.stamped = stamped[t] /\ shown'.thread = t
        /\ shown'.clean = (alone[t] /\ ~suspect)
    BY DEF print_body
  <2>2. QED
    BY <1>1, <1>3, <2>1 DEF Shown, UnderOwnName, GapsAreMarked, AtBody
<1>6. QED
  BY <1>1, <1>2, <1>4, <1>5, OpenStep DEF print_body

\* A status line or a command takes the heading off the screen.
LEMMA LineStep ==
    ASSUME TranscriptInv, NEW t \in Thread, print_line(t)
    PROVE  TranscriptInv'
<1>1. Shown' /\ Flags'
  BY DEF print_line, Leave, TranscriptInv, Flags, rest, Shown, UnderOwnName, GapsAreMarked
<1>2. CASE At(t, "line") /\ Leave(t, TRUE)
  <2>1. pc[t] = "line" /\ heading' \in {NoOne, heading}
    BY <1>2 DEF print_line, At, Goto, Leave
  <2>2. TypeOK'
    BY <1>2, <2>1 DEF print_line, Leave, Goto, rest, stored, TranscriptInv, TypeOK
  <2>3. alone[t] => Agree'
    BY <2>1 DEF print_line, stored, TranscriptInv, Sections, Knows, AtLine, Agree
  <2>4. QED
    BY <1>2, <2>1, <2>2, <2>3, LeaveStep DEF print_line
<1>3. CASE At(t, "output") /\ Goto(t, "reset") /\ heading' = NoOne /\ UNCHANGED suspect
  <2>1. pc' = [pc EXCEPT ![t] = "reset"] /\ pc[t] = "output" /\ pc'[t] = "reset"
    BY <1>3 DEF Goto, At, TranscriptInv, TypeOK
  <2>2. TypeOK' /\ Items'
    BY <1>3, <2>1 DEF print_line, rest, stored, TranscriptInv, TypeOK, Items
  <2>3. Knows(t)'
    BY <2>1 DEF Knows, Before, AtAge, AtStamp, AtBody, AtUpdate, AtLine
  <2>4. QED
    BY <1>1, <1>3, <2>1, <2>2, <2>3, OpenStep DEF print_line
<1>4. QED
  BY <1>2, <1>3 DEF print_line

\* So does the announcement of a file, before last_sender is reset.
LEMMA FileNameStep ==
    ASSUME TranscriptInv, NEW t \in Thread, proc_file_name(t)
    PROVE  TranscriptInv'
<1>1. pc' = [pc EXCEPT ![t] = "stamp"] /\ pc[t] = "name" /\ pc'[t] = "stamp"
  BY DEF proc_file_name, Goto, At, TranscriptInv, TypeOK
<1>2. t = "recv" /\ item[t] = "file"
  BY <1>1 DEF TranscriptInv, Items
<1>3. TypeOK' /\ Flags' /\ Items'
  BY <1>1, <1>2 DEF proc_file_name, rest, stored, TranscriptInv, TypeOK, Flags, Items
<1>4. Knows(t)'
  BY <1>1, <1>2 DEF proc_file_name, rest, Knows, Before, AtAge, AtStamp, AtBody, AtUpdate, AtLine
<1>5. Shown'
  BY DEF proc_file_name, TranscriptInv, Shown, UnderOwnName, GapsAreMarked
<1>6. QED
  BY <1>1, <1>3, <1>4, <1>5, OpenStep DEF proc_file_name

\* A file that could not be written leaves last_sender as it was: suspicion.
LEMMA WriteStep ==
    ASSUME TranscriptInv, NEW t \in Thread, file_msg_to_file(t)
    PROVE  TranscriptInv'
<1>1. pc[t] = "write" /\ Shown'
  BY DEF file_msg_to_file, At, screen, TranscriptInv, Shown, UnderOwnName, GapsAreMarked
<1>2. CASE Goto(t, "reset") /\ UNCHANGED suspect
  <2>1. pc' = [pc EXCEPT ![t] = "reset"] /\ pc'[t] = "reset"
    BY <1>2 DEF Goto, TranscriptInv, TypeOK
  <2>2. TypeOK' /\ Flags' /\ Items'
    BY <1>2, <2>1 DEF file_msg_to_file, rest, stored, screen, TranscriptInv, TypeOK, Flags, Items
  <2>3. Knows(t)'
    BY <2>1 DEF Knows, Before, AtAge, AtStamp, AtBody, AtUpdate, AtLine
  <2>4. QED
    BY <1>1, <1>2, <2>1, <2>2, <2>3, OpenStep DEF file_msg_to_file
<1>3. CASE Goto(t, "idle") /\ suspect' = TRUE
  <2>1. pc' = [pc EXCEPT ![t] = "idle"] /\ pc'[t] = "idle"
    BY <1>3 DEF Goto, TranscriptInv, TypeOK
  <2>2. TypeOK' /\ Flags' /\ Items'
    BY <1>3, <2>1 DEF file_msg_to_file, rest, stored, screen, TranscriptInv, TypeOK, Flags, Items
  <2>3. Alone' /\ \A u \in Thread : u # t /\ alone'[u] => Knows(u)'
    BY <1>1, <2>1, StepFrame DEF file_msg_to_file, rest
  <2>4. Knows(t)'
    BY <2>1 DEF Knows, Before, AtAge, AtStamp, AtBody, AtUpdate, AtLine
  <2>5. QED
    BY <1>1, <1>3, <2>2, <2>3, <2>4 DEF TranscriptInv, Sections, Between
<1>4. QED
  BY <1>2, <1>3 DEF file_msg_to_file

-----------------------------------------------------------------------------
(***************************************************************************)
(* Every step of either thread, and the passing of time, keeps the         *)
(* invariant.                                                              *)
(***************************************************************************)
LEMMA NextTranscript == TranscriptInv /\ [Next]_vars => TranscriptInv'
<1> SUFFICES ASSUME TranscriptInv, [Next]_vars PROVE TranscriptInv'
  OBVIOUS
<1>1. CASE handle_wire
  BY <1>1, EnterStep DEF handle_wire, Thread
<1>2. CASE send_thread
  <2>1. PICK i \in {SELF_SENDER, "command"} : Enter("send", i)
    BY <1>2 DEF send_thread
  <2>2. QED
    BY <2>1, EnterStep DEF Thread
<1>3. CASE Tick
  BY <1>3, TickStep
<1>4. ASSUME NEW t \in Thread, Step(t) PROVE TranscriptInv'
  BY <1>4, NeedSenderStep, NeedTimestampStep, UpdateStep, ResetStep, HeadingStep,
     StampStep, BodyStep, LineStep, FileNameStep, WriteStep DEF Step
<1>5. CASE UNCHANGED vars
  <2> USE <1>5 DEF vars, stored, screen
  <2>1. TypeOK' /\ Flags' /\ Items' /\ Alone'
    BY DEF TranscriptInv, TypeOK, Flags, Items, Alone
  <2>2. Sections' /\ Between'
    BY DEF TranscriptInv, Sections, Knows, Before, AtAge, AtStamp, AtBody, AtUpdate, AtLine,
       Between, AllIdle, Agree
  <2>3. Shown'
    BY DEF TranscriptInv, Shown, UnderOwnName, GapsAreMarked
  <2>4. QED
    BY <2>1, <2>2, <2>3 DEF TranscriptInv
<1>6. QED
  BY <1>1, <1>2, <1>3, <1>4, <1>5 DEF Next

\* The invariant holds in every reachable state.
LEMMA TranscriptInvariance == Spec => []TranscriptInv
  BY InitTranscript, NextTranscript, PTL DEF Spec

(***************************************************************************)
(* What is printed in an undisturbed section, when nothing before it has   *)
(* left last_sender in doubt, stands under its own sender's heading,       *)
(* however the two threads of client.c interleaved before.                 *)
(***************************************************************************)
THEOREM UnderOwnNameTheorem == Spec => []UnderOwnName
<1>1. TranscriptInv => UnderOwnName
  BY DEF TranscriptInv, Shown
<1>2. QED
  BY <1>1, TranscriptInvariance, PTL

(***************************************************************************)
(* ... and if it comes TIMESTAMP_THRESHOLD after the message before it,    *)
(* need_sender has opened a heading for it and need_timestamp a time.      *)
(***************************************************************************)
THEOREM GapsTheorem == Spec => []GapsAreMarked
<1>1. TranscriptInv => GapsAreMarked
  BY DEF TranscriptInv, Shown
<1>2. QED
  BY <1>1, TranscriptInvariance, PTL

=============================================================================
