# parcel: a TLA+ model

parcel is an encrypted group chat: a daemon, `parceld`, relays messages
between `parcel` clients that agree on a group key among themselves.  This
directory holds TLA+ modules that model its protocol and its stateful code,
the TLC configurations that check them on small instances, and TLAPS proofs
of the central properties for every instance.

Paths below are relative to the repository's `src/` directory
(`common/`, `parcel/`, `parceld/`).

## 1. The system

| component | source | state | operations |
|---|---|---|---|
| N-party exchange | `common/key-exchange.c`, `parcel/proc-type.c` | loop counters of the daemon, two byte streams per client, the client's point and session key | `n_party_server`, `server_send_ctrl_key`, `rotate_intermediates`, `n_party_client`, `proc_ctrl` |
| sessions | `parceld/daemon.c`, `parcel/client.c`, `parcel/wire-interface.c` | table of sockets, `server_key`, `keys.ctrl` and `keys.session` of every client, `conn_announced` | `add_client`, `two_party_*`, `transfer_message`, `daemon_handle_disconnect`, `recv_thread`, `transmit_wire`, `/q` |
| connection table | `parceld/daemon.c` | `sfds`, `cnt`, the `fd_set`, `nfds`, the copy `rdy` of one pass | `select`, `add_client`, `recv_client`, `disconnect_client` |
| cables | `common/cable.c`, `common/xutils.c` | bytes under way, what `xsendall` and `xrecvall` still have to do | `init_cable`, `xsendall`, `recv_client`, `cable_recv_data`, `xrecvall` |
| wires | `common/wire.c` | padding, two MACs, IV, header, the key being tried | `init_wire`, `encrypt_wire`, `decrypt_wire` |
| client process | `parcel/client.c`, `commands.c`, `proc-type.c`, `parcel.c` | `keep_alive`, `conn_announced`, `username`, two threads | `recv_thread`, `send_thread`, `parse_command` and every command |
| line editor | `common/console.c`, `common/utf8.c` | buffer, allocation, cursor, rows in use | every editing key, `flush_console`, `xprompt` |
| width tables | `common/utf8.c` | bounds of a binary search | `search_table` |
| transcript | `parcel/proc-type.c`, `parcel/client.c` | `last_sender`, `last_message_time`, the screen | `need_sender`, `need_timestamp`, `update_last_sender`, `reset_last_sender`, `proc_text`, `proc_stat`, `proc_file`, the echo in `send_thread` |
| payloads | `common/wire-*.c`, `common/wire-gen.h`, `parcel/proc-type.c` | the message's own length, its user field, its data | `init_##name`, setters, `wire_pack64`, `wire_unpack64`, the readers `proc_*` |
| start-up | `parcel/parcel.c`, `parceld/parceld.c`, `common/xutils.c`, `parcel/client.c`, `parceld/daemon.c` | `xgetopt_t`, address, name, port | `xgetopt`, `xstrrange`, the cases of `main`, `prompt_args`, `connect_server`, `init_daemon` |
| cryptography | `crypto/` | none | AES, CMAC, SHA-256, X25519 |
| platform, logging, slices | `xplatform.c`, `log.c`, `slice.c` | none of their own | wrappers of system calls, output |

How they interact.  The daemon is a single thread around `select`.  Whenever
its table changes it sends every client a CTRL cable, encrypted with the
current control key and carrying the next one, and then *blocks* on one client
after the other while it rotates intermediate keys.  Cables, CTRL cables and
the bare `ke_t` of an exchange travel on the same socket, and nothing but the
reader's state says which comes next.  A client has two threads on that
socket: `recv_thread` handles what arrives (and so runs the exchange), and
`send_thread` writes what the user types, without a lock and without knowing
of the exchange.

What is hard about it:

* concurrency of the clients' threads with an exchange: a cable may be written
  just where the daemon expects a `ke_t`; keys are replaced at different
  moments in different places;
* membership that changes at any time: joins and leaves while messages and
  keys are under way, sockets handled from a stale `rdy`, the table emptied
  and refilled;
* blocking calls that loop: `xrecvall` never returns when the peer has closed;
* byte streams: writes and reads split anywhere;
* a screen that two threads write, described by two shared variables that are
  tested and set in separate critical sections;
* lengths kept twice, fields without a NUL, settings copied over older ones;
* bookkeeping over long sequences of edits, with unsigned differences.

`PROJECT.json` lists each of these hazards at its line, with the properties
that would catch it.

## 2. Modules

| module | models | correspondence |
|---|---|---|
| `GroupExchange` | one N-party exchange | one action per loop iteration of the daemon and per message of a client; points are counts of secrets, because X25519 commutes; `send_text_msg` is the interference of `send_thread` |
| `GroupExchangeProofs` | | proofs for every N |
| `Session` | what a session promises | a group that changes by one client at a time, a key per group of at least `MinGroup`, members that take the keys up in order |
| `Parcel`, `MCParcel` | the daemon and all clients | one action per handler; exchanges step by step, with keys numbered instead of computed (that an exchange yields one key is what `GroupExchange` shows); implements `Session` |
| `ParcelProofs` | | proofs for any number of clients and messages |
| `ConnectionTable` | the daemon's descriptors | `sfds` with slot 0, descriptors as numbers, `accept` returns the lowest free one; what clients send is left out |
| `ConnectionTableProofs` | | proofs for every `FD_SETSIZE` |
| `CableChannel` | what framing promises | an abstract FIFO of cables |
| `FramedStream` | framing on a byte stream | bytes are numbered, not interpreted; implements `CableChannel` |
| `FramedStreamProofs` | | proofs for every cable size and every split |
| `Wire` | `init_wire`, `encrypt_wire`, `decrypt_wire` | ideal AES and CMAC: a MAC verifies only under its key and over its bytes |
| `Payload` | the messages in the wires | `EXTENDS Wire`; data are told apart by their length, names by being empty or not; the number of bytes and the base of a byte are parameters |
| `PayloadProofs` | | proofs about `Wire` and `Payload` for every block size and length |
| `Transcript` | what a client shows | one action per critical section under `ui_lock` and per print; the screen is whose heading is in force |
| `TranscriptProofs` | | proofs for any senders, times and number of sections |
| `Startup`, `MCStartup` | both mains up to the main loop | words are sequences of characters, one action per call of `xgetopt` and per case; an array is its bytes, read up to the first NUL; getting a socket is one step that may fail |
| `ParcelClient` | one client process | each atomic load or store that another thread can observe is an action; the daemon and the other clients, on whom the end of an exchange depends, are the environment |
| `ParcelClientProofs` | | proofs about `ParcelClient` for any names and number of cables, and about `Startup` for every command line |
| `LineEditor` | `xgetline` and `xprompt` | a character is its bytes and its cells; of the output of `flush_console` only the two unsigned distances are kept |
| `SearchTable` | `search_table` | one step is one pass of the loop, `size_t` wraps |
| `MCConsole` | both, for model checking | the editor waits for the answer of one search |
| `ConsoleProofs` | | proofs about `LineEditor` for every line, prompt and console width, and about `SearchTable` for every table |

Names follow the source.  A definition called `Mutant...` is a plausible
mistake in the definition that follows it; `PROJECT.json` pairs each with the
property that detects it, so that no property holds vacuously.

## 3. Runs

| run | states | shows |
|---|---|---|
| `GroupExchange` | 8,245 | `KeyAgreement`, `DaemonBlind`, `ClientInStep`, the inductive invariant `KeysInPosition`, and `ExchangeCompletes`: four clients, each sending at most one chat cable at any moment |
| `ParcelSafety` | 765,827 | `ReadyHolds`, `MembersAgree`, `InStep`, `EncryptsAsMember`, `OnlyStaleLost`, and the refinement `ImplementsSession`: three clients join, talk, quit and crash in any order |
| `ParcelCalm` | 2,125 | `JoinCompletes`, `ExchangeYieldsKey` (liveness) if clients come and go only while nothing is under way, and `EndsOnlyEmpty`: the daemon then ends only when the last of them has left |
| `ConnectionTable` | 27,783 | `Compact`, `Registered`, `NeverFull`: five clients, descriptors up to and beyond `FD_SETSIZE` |
| `Console` | 772,884 | `Correct`, `InBounds`, `Terminates`: every sorted table of up to four ranges over seven code points; `CursorOnBoundary`, `DistancesInRange`, `TerminatedInBuffer`: every sequence of edits of a line of up to five characters |
| `FramedStream` | 3,076 | `ImplementsChannel` (refinement), `NeverFails`, `Delivered`: three cables from two threads, closed at any moment |
| `ParcelClient` | 26,008 | `KnownByName`, `FarewellIsLast`, `ReachesPrompt` |
| `Payload` | 372,780 | `AcceptsExactlyAuthentic`, `LengthsAgree`: every kind of message, every length, every change on the way |
| `Transcript` | 234,211 | `UnderOwnName`, `GapsAreMarked`: up to four messages, status lines, files and commands of two threads, interleaved at every step |
| `Startup` | 951,345 | `OptionsAsGetopt`, `SettingsAsGiven`: every command line of up to four words out of sixteen, for both programs |
| `ParcelRekey` | violated | "A new group key is derived whenever the number of clients changes": not when one is left |
| `ParcelClientQuit` | violated | "/q exit the server and close parcel": the process never ends |

Type invariants are checked in the runs `ParcelSafety`, `ParcelClient` and
`Payload`; those of the other modules that have proofs are part of the
inductive invariants proved below.

Run one with `tlc -config <run>.cfg <module>`.  Deadlock is not checked where
the system may come to rest: an exchange that is over, a daemon that has
returned, a user who has left.

### Bounds, and why they are enough

* `GroupExchange`: N = 4 is the least number at which a key passes through a
  client that is neither the left nor the right neighbour of the one it started
  from, and clients can be in different rounds; the proofs cover every N.  `MaxTexts` = 1 per client: a
  first cable already ends the exchange.
* `Parcel`: three clients (interchangeable, hence a symmetry set in the
  safety runs only) give exchanges of two and of three members, growing and
  shrinking; each connects once.  Two typed messages in all, so that one can
  follow or overtake another's exchange, besides the announcements and
  farewells that every client sends.  The proofs of the safety properties and
  of the refinement cover any number of clients and messages.
* `ConnectionTable`: `FD_SETSIZE` 7, descriptor limit 9, listening socket 1:
  five clients fill every descriptor an `fd_set` can hold, and the next one is
  beyond it.  The proofs cover every size.
* `FramedStream`: header of three bytes, signature of two, payloads of one to
  three: every split of header and payload occurs.
* `LineEditor`: two columns and a prompt of two make every line wrap and the
  empty one fill its row exactly; an initial allocation of four makes the buffer grow twice; the limit of four
  bytes separates accepted and refused lines; the alphabet has one-, two- and
  three-byte characters, one of them two cells wide.  `SizeValues`, the number
  of values of a `size_t`, is 65536: an unsigned distance that fell below 0
  would be a row no screen has.
* `Payload`: blocks of four, a "byte" of base 4 and two of them in a length,
  a name field of three: structures and data fill less than, exactly and more
  than whole blocks, and lengths need both bytes.  Three keys: the wire's key is the
  first, the second or none of the receiver's.
* `Transcript`: two other senders, four sections, a threshold of two and time
  up to four: a run of messages, its interruption by a status line, file or
  command, a pause and a resumption fit into one behaviour.  Time passes only
  while nobody prints: printing takes no time next to five minutes.
* `Startup`: sixteen words that are options alone, clustered, with an attached
  argument, arguments, ends of options, and ports of two, four and five
  digits, out of range and longer than the array; four words are just enough
  for `argc < 5` to fail.  Arrays of four characters for address and name;
  answers are empty, short, and as long as the array.
* `SearchTable`: four ranges exercise both halves of the search twice.

### Assumptions about the environment

* `FramedStream`, `Overlap = FALSE`: one thread's `xsendall` ends before
  another thread's begins.  The code has no lock for it.  With `TRUE` TLC
  finds two cables mixed and `ImplementsChannel` fails.
* `FramedStream`, `ShortHeader = FALSE`: the kernel neither writes nor returns
  a part of the 14-byte header.  `recv_client` does one `xrecv` and does not
  check for it; with `TRUE` `ImplementsChannel` fails.
* `Parcel`, `Calm = TRUE` (only for liveness): connections come and go while
  nothing is under way.  Without it a client
  that joins while another one's announcement is on its way ends the daemon,
  which reads the announcement as a `ke_t` (`ExchangeYieldsKey` then fails
  with nobody having typed anything); `GroupExchange` shows the same for a
  chat cable, and that nothing else stops an exchange.
* `LineEditor` leaves out bytes that cannot start a character (`"bad"` in
  `Alphabet`): `xgetcp` gives them length 0 but `codepoint_width` gives 1, and
  `CursorOnBoundary` then fails.  `DistancesInRange` is claimed except for an
  empty line behind a prompt that fills its rows to the last cell, where the
  distance upwards does wrap around; the prompts in the code are not that wide
  on any usual console.  `TerminatedInBuffer` is claimed for lines in which no character
  has stepped over the one size (`line_allocation - 2`) at which the buffer
  grows: a two-byte character that does so lets the line outgrow its buffer.
* `Transcript`: `UnderOwnName` and `GapsAreMarked` are claimed for a message
  whose section nobody disturbed, and not between an overlap (or a file that
  could not be written) and the next undisturbed section that prints a heading
  or resets `last_sender`.  Without that restriction TLC shows a message under
  another's heading within two sections.  No client is called `::self::`.
* `Startup`: `SettingsAsGiven` leaves out settings in which a shorter value
  follows a longer one: it shows that this is the only way to a setting that
  nobody gave.  It does not say that a setting is not empty: four words or more
  suppress the prompts, and a prompt can be answered with nothing (a NUL, or
  the end of the input).  An address or port that fills its array leads to the
  state `undefined`, where nothing more is said.

### Fairness

Weak fairness of the daemon's thread, of every `recv_thread`, of a send that
has begun (`GroupExchange`, `Parcel`, `FramedStream`), and of both threads of a
client process (`ParcelClient`): these are operating-system threads that are
scheduled again and again, and TCP delivers while the connection is up.  In
`ParcelClient` the user answers every prompt, which `QuitCloses` needs only
for the prompt after `/q`; that an exchange ever ends is not assumed
(`exchange_over` is not fair), because the daemon may be waiting for another
client for ever, so `ReachesPrompt` starts where `n_party_client` has returned.  Nobody is ever forced to connect, type, leave or
crash.  `SearchTable` assumes only that a function runs on.

## 4. Proofs

TLAPS checks every step; nothing is assumed beyond the named assumptions on
constants.

* **`GroupExchangeProofs`** (assumes `NAssumption`: N is a positive natural,
  `MaxTextsAssumption`).  `AgreementTheorem`: clients that return from
  `n_party_client` hold the same key, to which everybody contributed once,
  whatever the `send_threads` write meanwhile.  `BlindTheorem`: the daemon
  never carries the group key.  `InStepTheorem`: a client never reads a
  message of the wrong kind.  `PositionTheorem`: the type invariant and the
  inductive invariant.  Agreement alone is not inductive: it says nothing of
  keys under way.  The strengthening `KeysInPosition` says that the k-th key a
  client writes is `Pt(c, k)`, its own secret and those of the k clients to
  its left, and counts how many keys have crossed each end of each socket, so
  that the daemon's loop counters and the clients' agree (`DownInv`, `UpInv`).
  A chat cable in a stream ends what is known of the keys behind it
  (`OnlyKeys`), and the daemon stops when it reads it.  One lemma per action
  preserves the invariant; `PtStep` and `PtFull` are the arithmetic of the
  ring.
* **`ParcelProofs`** (assumes `ConnAssumption`: finitely many clients, none of
  them one of the two marks `Listener` and `NoSock`; `BoundAssumption`).  For
  any number of clients and messages, whoever leaves or crashes and whenever:
  `ParcelTypeTheorem`, `ReadyHoldsTheorem`, `MembersAgreeTheorem`,
  `InStepTheorem`, `EncryptsAsMemberTheorem`, `OnlyStaleLostTheorem` and
  `ImplementsSessionTheorem` (`Parcel` refines `Session`).  All of them follow
  from `ParcelInvariant`, the invariant `ParcelInv`, which has two halves.

  The clients' half holds even after the daemon has ended.  `Stream` says what
  each message of the stream to a client may be, given the client's state: the
  intermediate keys that `n_party_client` still waits for come first (`Rem`),
  then cables, then at most one CTRL cable, under the control key the client
  will have by then (`Promised`), and behind it nothing but keys of the
  exchange it starts.  `InStep` alone is not inductive, because it speaks of
  the first message only.  `Holding` relates the keys a client uses to the
  exchanges it was part of, `Aware` says that each exchange a client was part
  of is behind it, under way, or announced by the CTRL cable on its way, which
  is why no key is ever skipped, and `Numbered` that all keys have been made.

  The daemon's half: the table is dense and without duplicates (`Table`), the
  listen queue and the rest of `rdy` are sound (`Queue`, `New`, `Pass`), and
  `Progress` describes every client in the table: between exchanges it is
  `Settled`, at most one intermediate key short of the newest key, and during
  one (`Exchange`) it has not read the CTRL cable yet, is in the exchange, or
  is through with it, and the keys it has written and read are as many as the
  daemon's two loop counters say (`Taken`, `Given`).  Cables may stand among
  the keys in the stream to the daemon, so the keys are counted (`KeCount`)
  and not numbered by their place.

  There is a lemma for each action, and `ClientKeeps`, `LocalFrame` and
  `ServedFrame` for what an action leaves alone.  In the refinement, a join or
  leave needs that as many clients are in the table as slots are in use
  (`TableSize`), and that a client takes up the *oldest* key it lacks is what
  `Aware` is for.
* **`ConnectionTableProofs`** (assumes `FdAssumption`: the listening socket is
  a descriptor above 0 and below both limits).  `CompactTheorem` and
  `RegisteredTheorem`: after any sequence of joins and leaves the running
  daemon's table is dense and without duplicates, and it watches exactly the
  sockets in the table, in a pass as well.  `TableInv` (type, density,
  watching) is preserved together: the first free slot is `cnt + 1` because
  the table is dense, and removing a slot keeps it dense because the last one
  moves into the gap.  It is broken only in the step that ends the daemon.
  `NeverFullTheorem`: the test for a full table never fires, because the
  sockets in the table are distinct descriptors below `FD_SETSIZE` and the
  lowest ones are taken (`PigeonHole`).
* **`ConsoleProofs`**, `SearchTable` (assumes `SizeAssumption`: `SIZE_MAX` is
  at least twice the length of the table).  `SearchCorrect`: the result is that
  of a linear search.  `SearchInBounds`: the unsigned bounds never wrap and
  never leave the table.  The invariant: what is outside the bounds does not
  contain the code point; and the range test before the loop keeps the upper
  bound from passing below 0.
* **`ConsoleProofs`**, `LineEditor` (assumes `LineAssumption`: the console has
  columns and the prompt a cell, the first allocation has room for a character,
  and `size_t` has more values than the line has rows).
  `CursorTheorem`: after any sequence of keys, sizes and lengths, offset and
  column are the bytes and cells of whole characters.  `DistancesTheorem`:
  the distances of `flush_console` never wrap around, for every prompt and
  width, but for the one case named above.  `LineTypeTheorem`: no count ever falls below 0.  These three have
  the hypothesis that no byte is typed that cannot start a character (`"bad"`
  is not in `Alphabet`), without which TLC refutes the first.
  `TerminatedTheorem`, for any alphabet: the line and its NUL stay within the
  buffer unless the size at which it grows was stepped over.  The invariant is
  in three parts: `ByteInv` (the cursor is at the end of some first characters
  of the line), `RowsInv` (as many rows are in use as the cursor, where it was last drawn,
  needs) and `BufferInv` (unless the size
  was stepped over, a byte and a NUL fit before each key).  They rest on
  lemmas about `Total`, which adds up the characters of a line: what it is for
  a line with a character put in or taken out anywhere (`Inserted`, `Removed`),
  and that no two places of a line have the same number of bytes before them
  (`Increasing`), by which the `CHOOSE` in `CharsBefore` is what
  `prev_codepoint` and `next_codepoint` find.
* **`FramedStreamProofs`** (assumes `StreamAssumption`; both theorems have the
  hypotheses `~Overlap` and `~ShortHeader` discussed above, without which they
  are false).  `NeverFailsTheorem` and `ImplementsChannelTheorem`: however the
  kernel splits payloads, the daemon relays whole cables, in order, none
  twice.  `StreamInv`: what has been read of the current cable, what is on the
  line and what the writer still has to send are, put together, the unrelayed
  cables cut into bytes (`CutFrom`), and a header is never split.
* **`PayloadProofs`** (assumes `WireAssumption`, `PayloadAssumption`).
  `AuthenticTheorem`: `decrypt_wire` accepts exactly the wires made under one
  of the receiver's two keys, whole and unchanged.  `Verified` says what each
  stage has established: after the first MAC only the header is known to be
  authentic, and the length is only after the second.
  `PayloadTypeTheorem` and `LengthsAgreeTheorem`, for every radix and number of
  bytes a length is written in: `Lengths` says which digits `wire_unpack64` has
  written, and that `wire_pack64` puts them together again is shown by
  induction over the digits.
* **`ParcelClientProofs`** (assumes `ClientAssumption`).  `ClientTypeTheorem`,
  `KnownByNameTheorem` and, as an action property, `FarewellTheorem`.
  `NameKept` follows the name through the announcement and the critical steps
  of `/username`; `Parting` says that after the farewell the connection is
  shut before anybody can write again.
* **`ParcelClientProofs`**, `Startup` (assumes `StartupAssumption`: words,
  answers, login and default port are made of characters that are neither NUL
  nor the `:` of an option string; any of them may be empty).
  `OptionsTheorem`: for any number of words of any length `xgetopt`
  returns the options that the reference `Options` finds from the end of the
  command line.  `ScanInv`: what was returned, followed by what the reference
  has from xgetopt's word and letter on (`Remaining`), is the whole list until
  `xgetopt` stops or reports an error; and xgetopt is inside a word only while
  that has letters left.  `SettingsTheorem`: with `SettingsInv`, which says
  of the bytes of each array, all the time, what the property says of the
  string once the options are read, so that a NUL left by `-l` is accounted for.
* **`TranscriptProofs`** (assumes `TranscriptAssumption`: no client is called
  `::self::`, the threshold and the end of time are positive).
  `UnderOwnNameTheorem` and `GapsTheorem`.  Neither is inductive: the
  invariant says what each thread knows at each of its steps while it is alone
  in its section (`Alone`, `Sections`), and that between sections, unless
  something is suspect, `last_sender` describes the screen (`Between`).

Before its proof, each inductive invariant was checked by TLC on an instance
like those of section 3 (`ParcelInv`: three clients, one typed message, about a
million states).

Recursive definitions (`Total`, `Place`, `Cluster`, `LastOptions`) are written
as recursive functions.  That such a function exists and what it computes is
proved by induction in first-order form: a set of numbers that is not empty has
a least one (`Least`, from the library's `WFMin`), so a set that holds 0 and,
with each number, the next, holds all of them (`Induction`), and a start and
steps that stay in a set define a function (`Recursion`).

The invariants and action properties of the passing runs and both refinements
are proved, except `EndsOnlyEmpty`, which is about a group that is calm and
types nothing.  Only model-checked, besides it, are the liveness properties (`ExchangeCompletes`,
`JoinCompletes`, `ExchangeYieldsKey`, `Terminates`, `Delivered`,
`ReachesPrompt`): liveness under fairness and ENABLED are out of this prover's
reach.

### The refinements

`Parcel` implements `Session` (`Abstract` in `Parcel.tla`): the group is the
daemon's table, a key is due from the moment the table has changed until the
CTRL cables of the exchange are out, `roster` is the history of who was sent
them, and `holds` the session key of each client.  A join maps to the step
that puts the socket into the table, not to `connect`; the rotation of keys,
relaying and everything a client sends are stuttering; a daemon that ends, for
whatever reason, closes the session, in the middle of announcing a key as well:
only then may the roster of an exchange be a part of the group.  So no exchange is left out or made among
others than the clients of the moment, and no client skips a key or goes back.
`FramedStream` implements `CableChannel`: a cable is relayed when its last byte
is read.

## 5. Disagreements between the code and what the repository says

1. `common/xutils.c:131`: after `/q` `xrecvall` reads 0 bytes for ever and
   `main` never gets past `pthread_join`; `/list` says that `/q` closes parcel
   (`ParcelClientQuit`).
2. `parceld/daemon.c:205`: when the last client leaves, `n_party_server` is
   called with 0 and `assert(connection_count != 0)` (`key-exchange.c:244`)
   aborts the daemon.  `EndsOnlyEmpty` shows that, among clients that come and
   go while nothing is under way, this is the only way in which it ends.
3. `common/key-exchange.c:247`: when one of two clients leaves, no new key is
   derived, and the other keeps the keys they shared; the README (105-106) says
   that one is derived whenever the number of clients changes (`ParcelRekey`).
   What the README says is `Session` with `MinGroup` = 1; what is implemented
   is `Session` with `MinGroup` = 2.
4. `parcel/parcel.c:93`: the README says that a required argument that is not
   provided is prompted for; with four words or more nothing is, whatever is
   missing.
5. `parcel/parcel.c:62`, `parceld/parceld.c:39`: `-p 80` leaves the end of the
   default behind the new port, 8015.
6. `parceld/parceld.c:43` stores the queue limit of `-q`, and `init_daemon`
   listens with `MAX_QUEUE` (`daemon.c:71`): nothing reads what was stored.
7. `parcel/proc-type.c:91` refuses a file message that has a user, with an
   error that says it has none; `file_msg_from_file` never sets one, so files
   arrive without a sender.

The limits named under *Assumptions about the environment* are further places
where the code relies on something it does not check.  Two effects appear in
the model without a property about them, because nothing in the repository
says otherwise: `recv_thread` uses the NULL cable after warning that the
daemon closed the connection, and `cmd_send_file` transmits the NULL wire of a
file it could not read (`proc = "crashed"` in `ParcelClient`).

## 6. Not modelled

* Cryptographic primitives: bit-level arithmetic; taken as ideal.  Their block
  loops only ever see keys of 32 bytes and wires of whole blocks.
* Paths, modes and the file system behind `file_msg_to_file`: its outcome is a
  choice in `Transcript`, the number of bytes is in `Payload`.
* The lookup of the public address (`xgetpublicip` and its HTTP helpers): one
  request whose failure changes a line of output.  Usage texts.
* Windows branches of the platform layer, logging and byte slices, `wire-raw.c`
  (unused): no influence on the protocol.
* The terminal: where the prompt starts (after a line that was too long it
  starts behind the warning, which has no newline), that a cursor in the bottom
  row does not move down, and what `recv_thread` prints during an edit.
  `LineEditor` keeps what `flush_console` computes, not what appears.
* What a receiver prints of a text or a name: `proc_text` and `proc_stat` print
  the data as a string, which only the padding of the wire ends, and a payload
  of whole blocks has none.  A name of exactly `USERNAME_MAX_LENGTH` bytes is
  announced whole and carried one byte shorter.
* The loops over addresses in `connect_server` and `init_daemon`, and the queue
  length that `-q` sets and nothing reads.
* Clients that are not parcel clients: one that connects and stays silent
  keeps the daemon in `two_party_server`.

## 7. Plan

Done: `GroupExchange` and its proofs, `Parcel` over `Session`,
`ConnectionTable`, `FramedStream` over `CableChannel`, `ParcelClient`,
`LineEditor`, `Wire` and `Payload`, `Transcript`, `Startup`, `SearchTable`; and
proofs of the safety properties of every one of them.  What is left of the
source has no state that a property could be about.

What could be added: the liveness properties as theorems, once the prover
handles fairness; and, should the code be changed where section 3 names an
assumption it does not check (a lock around `xsendall`, a header read in full,
a buffer grown in time), the same theorems without the hypothesis.
