----------------------------- MODULE Transcript -----------------------------
(***************************************************************************)
(* What a client shows (src/parcel/proc-type.c, and the end of send_thread *)
(* in client.c).  recv_thread prints what arrives and send_thread echoes   *)
(* what the user sent, as runs of messages under one heading: a heading is *)
(* printed when last_sender is somebody else, or the last message is old.  *)
(* last_sender and last_message_time are shared.  ui_lock protects each    *)
(* single access, but not the way from the test over the printing to the   *)
(* update, which are separate steps here: the other thread may come in     *)
(* between any two of them.                                                *)
(*                                                                         *)
(* A thread is in a section from its first access to its last.             *)
(***************************************************************************)
EXTENDS Naturals

CONSTANTS
    Sender,               \* names of the other clients
    TIMESTAMP_THRESHOLD,  \* in units of now
    MaxTime,              \* bound on now
    MaxSections           \* bound on the sections entered

SELF_SENDER == "::self::"
NoOne == "no one"      \* an empty last_sender; a screen that ends with no heading in force

Thread == {"recv", "send"}
Other(t) == CHOOSE u \in Thread : u # t

ASSUME TranscriptAssumption ==
    /\ Sender \cap {SELF_SENDER, NoOne, "stat", "file", "command"} = {}
    /\ TIMESTAMP_THRESHOLD \in Nat \ {0} /\ MaxTime \in Nat \ {0} /\ MaxSections \in Nat

VARIABLES
    last_sender, last_message_time,  \* the shared state; 0: no time
    now,       \* time(NULL)
    pc,        \* of each thread: "idle", or the step it is about to take
    item,      \* what each thread shows: a sender's text, "stat", "file", "command"
    headed,    \* has the thread printed a heading in this section?
    stamped,   \* ... and a time with it?
    heading,   \* the screen: whose heading is in force
    shown_at,  \* history: when the last message was printed
    shown,     \* history: that message
    alone,     \* history: has the thread been alone in its section so far?
    suspect,   \* history: last_sender may not agree with the screen
    sections   \* sections entered so far

stored == <<last_sender, last_message_time>>
screen == <<heading, shown_at, shown>>
vars == <<stored, now, pc, item, headed, stamped, screen, alone, suspect, sections>>

Texts == Sender \cup {SELF_SENDER}
Nothing == [from |-> NoOne, under |-> NoOne, gap |-> 0, headed |-> FALSE, stamped |-> FALSE,
            thread |-> "send", clean |-> FALSE]

Init ==
    /\ last_sender = NoOne /\ last_message_time = 0
    /\ now = 1
    /\ pc = [t \in Thread |-> "idle"]
    /\ item = [t \in Thread |-> SELF_SENDER]
    /\ headed = [t \in Thread |-> FALSE] /\ stamped = [t \in Thread |-> FALSE]
    /\ heading = NoOne /\ shown_at = 1 /\ shown = Nothing
    /\ alone = [t \in Thread |-> TRUE]
    /\ suspect = FALSE
    /\ sections = 0

-----------------------------------------------------------------------------
(***************************************************************************)
(* Entering a section.                                                     *)
(***************************************************************************)
FirstStep(i) == CASE i \in Texts    -> "sender"
                  [] i = "stat"     -> "reset"
                  [] i = "file"     -> "name"
                  [] i = "command"  -> "output"

Enter(t, i) ==
    /\ pc[t] = "idle" /\ sections < MaxSections
    /\ sections' = sections + 1
    /\ pc' = [pc EXCEPT ![t] = FirstStep(i)]
    /\ item' = [item EXCEPT ![t] = i]
    /\ headed' = [headed EXCEPT ![t] = FALSE]
    /\ stamped' = [stamped EXCEPT ![t] = FALSE]
    /\ alone' = IF pc[Other(t)] = "idle" THEN [alone EXCEPT ![t] = TRUE]
                                         ELSE [u \in Thread |-> FALSE]
    /\ UNCHANGED <<stored, now, screen, suspect>>

\* recv_thread has decrypted a wire that shows something.
handle_wire == \E i \in Sender \cup {"stat", "file"} : Enter("recv", i)

\* send_text_msg has succeeded, or the line is a command for exec_cmd.
send_thread == \E i \in {SELF_SENDER, "command"} : Enter("send", i)

\* Printing takes no time next to the five minutes of TIMESTAMP_THRESHOLD.
Tick ==
    /\ now < MaxTime
    /\ \A t \in Thread : pc[t] = "idle"
    /\ now' = now + 1
    /\ UNCHANGED <<stored, pc, item, headed, stamped, screen, alone, suspect, sections>>

At(t, step) == pc[t] = step
Goto(t, step) == pc' = [pc EXCEPT ![t] = step]
rest == <<now, item, alone, sections>>

\* The section is over.  What it leaves behind agrees with the screen if the
\* thread was alone and has set both; otherwise nothing is certain.
Leave(t, sets_both) ==
    /\ Goto(t, "idle")
    /\ suspect' = IF ~alone[t] THEN TRUE ELSE suspect /\ ~sets_both

-----------------------------------------------------------------------------
(***************************************************************************)
(* The accesses to the shared state, each in a critical section of its own *)
(***************************************************************************)
MutantNeedTimestamp == last_message_time = 0 \/ now - last_message_time > TIMESTAMP_THRESHOLD

NeedTimestamp == last_message_time = 0 \/ now - last_message_time >= TIMESTAMP_THRESHOLD

\* need_sender: the comparison ...
need_sender(t) ==
    /\ At(t, "sender")
    /\ Goto(t, IF item[t] # last_sender THEN "heading" ELSE "age")
    /\ UNCHANGED <<rest, stored, headed, stamped, screen, suspect>>

\* ... and, if it is the same sender, the age of the last message.
need_timestamp(t) ==
    /\ At(t, "age")
    /\ Goto(t, IF NeedTimestamp THEN "heading" ELSE "body")
    /\ UNCHANGED <<rest, stored, headed, stamped, screen, suspect>>

update_last_sender(t) ==
    /\ At(t, "update")
    /\ last_sender' = item[t] /\ last_message_time' = now
    /\ Leave(t, headed[t])
    /\ UNCHANGED <<rest, headed, stamped, screen>>

MutantForget == UNCHANGED stored

Forget == last_sender' = NoOne /\ last_message_time' = 0

\* reset_last_sender: the first thing in proc_stat, the last in proc_file and exec_cmd
reset_last_sender(t) ==
    /\ At(t, "reset")
    /\ Forget
    /\ IF item[t] = "stat" THEN Goto(t, "line") /\ UNCHANGED suspect ELSE Leave(t, TRUE)
    /\ UNCHANGED <<rest, headed, stamped, screen>>

-----------------------------------------------------------------------------
(***************************************************************************)
(* Printing                                                                *)
(***************************************************************************)

\* The name on a line of its own; with a time only in proc_text.
print_heading(t) ==
    /\ At(t, "heading")
    /\ heading' = item[t]
    /\ headed' = [headed EXCEPT ![t] = TRUE]
    /\ Goto(t, IF t = "recv" THEN "stamp" ELSE "body")
    /\ UNCHANGED <<rest, stored, stamped, shown_at, shown, suspect>>

\* need_timestamp is asked once more before the time is printed.
show_timestamp(t) ==
    /\ At(t, "stamp")
    /\ stamped' = [stamped EXCEPT ![t] = NeedTimestamp]
    /\ Goto(t, IF item[t] = "file" THEN "write" ELSE "body")
    /\ UNCHANGED <<rest, stored, headed, screen, suspect>>

print_body(t) ==
    /\ At(t, "body")
    /\ shown' = [from |-> item[t], under |-> heading, gap |-> now - shown_at,
                 headed |-> headed[t], stamped |-> stamped[t], thread |-> t,
                 clean |-> alone[t] /\ ~suspect]
    /\ shown_at' = now
    /\ Goto(t, "update")
    /\ UNCHANGED <<rest, stored, headed, stamped, heading, suspect>>

\* A status line, or a command and what it prints: no heading is in force.
\* proc_stat drops a message without a name, but has reset last_sender by then.
print_line(t) ==
    /\ \/ At(t, "line") /\ Leave(t, TRUE) /\ heading' \in {NoOne, heading}
       \/ At(t, "output") /\ heading' = NoOne /\ Goto(t, "reset") /\ UNCHANGED suspect
    /\ UNCHANGED <<rest, stored, headed, stamped, shown_at, shown>>

(***************************************************************************)
(* proc_file prints the sender's name, which file_msg_from_file never put  *)
(* into the message (and the test of file_msg_get_user is such that a      *)
(* message with a name would be refused), and the name of the file.  Only  *)
(* when the file could be written is last_sender reset.                    *)
(***************************************************************************)
proc_file_name(t) ==
    /\ At(t, "name")
    /\ heading' = NoOne
    /\ Goto(t, "stamp")
    /\ UNCHANGED <<rest, stored, headed, stamped, shown_at, shown, suspect>>

file_msg_to_file(t) ==
    /\ At(t, "write")
    /\ \/ Goto(t, "reset") /\ UNCHANGED suspect
       \/ Goto(t, "idle") /\ suspect' = TRUE
    /\ UNCHANGED <<rest, stored, headed, stamped, screen>>

Step(t) ==
    \/ need_sender(t) \/ need_timestamp(t) \/ update_last_sender(t) \/ reset_last_sender(t)
    \/ print_heading(t) \/ show_timestamp(t) \/ print_body(t) \/ print_line(t)
    \/ proc_file_name(t) \/ file_msg_to_file(t)

Next == handle_wire \/ send_thread \/ Tick \/ \E t \in Thread : Step(t)

Spec == Init /\ [][Next]_vars

-----------------------------------------------------------------------------
TypeOK ==
    /\ last_sender \in Texts \cup {NoOne} /\ last_message_time \in 0 .. MaxTime
    /\ now \in 1 .. MaxTime /\ shown_at \in 1 .. MaxTime
    /\ pc \in [Thread -> {"idle", "sender", "age", "heading", "stamp", "body", "update",
                          "reset", "line", "output", "name", "write"}]
    /\ item \in [Thread -> Texts \cup {"stat", "file", "command"}]
    /\ heading \in Texts \cup {NoOne}

(***************************************************************************)
(* Every message stands under its sender's heading, although most are      *)
(* printed without one and rely on last_sender to describe a screen that   *)
(* two threads write: only sections that overlap, or a file that could not *)
(* be written, can misplace a message, and after either it lasts until a   *)
(* section that prints a heading or resets last_sender runs undisturbed.   *)
(***************************************************************************)
UnderOwnName == shown.clean => shown.from = shown.under

(***************************************************************************)
(* A message TIMESTAMP_THRESHOLD after the one before it opens a heading   *)
(* of its own, and one from another client shows the time, although the    *)
(* age of the last message is looked up twice.                             *)
(***************************************************************************)
GapsAreMarked ==
    shown.clean /\ shown.gap >= TIMESTAMP_THRESHOLD =>
        shown.headed /\ (shown.thread = "recv" => shown.stamped)

=============================================================================
