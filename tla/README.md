# KRemote in TLA+

KRemote is a desktop client for remote connections: a Flutter user interface in Dart
(`src/lib`) on top of a Rust library (`src/rust/src/api`), joined by flutter_rust_bridge.
This directory holds TLA+ modules for the parts of it whose correctness depends on
the order of events, TLC configurations that check them on small instances, and proofs
that TLAPS checks for every size.

## 1. The system

| Component | Source | State | Operations |
|---|---|---|---|
| Vault contents | `vault.rs`, `models.rs` | connections, folders | add, update, delete, import |
| Vault lifecycle | `vault.rs`, `app.rs` | two mutexes (`state`, `master_key`), the file | create, load (unlock), lock, save, each edit followed by a save |
| VaultScreen | `vault_screen.dart` | `_vaultExists`, `_isSubmitting`, `_rememberPassword`, `_hasStoredPassword` | submit, auto-unlock, Remember checkbox |
| HomeScreen | `home_screen.dart` | cached lists, filters, expanded folders | load, edit dialogs, import dialog, Lock |
| ConnectionDetailScreen | `connection_detail_screen.dart` | a form, stale copies of the lists | save |
| OS keyring | `vault.rs` 60-100 (external service) | one credential, which outlives the process | save, get, delete, ask whether there is one |
| SSH shell connection | `ssh.rs` | session, jump session, `shell_channel` mutex, reader thread | connect, open_shell, send_input, resize_pty, close_shell, disconnect, drop |
| SSH jump tunnel | `ssh.rs` 89-196 | proxy thread, loopback socket, channel | accept, shuttle, disconnect |
| Terminal tabs | `tabbed_terminal_screen.dart` | tabs, views, one connection for each tab | open, connect, reconnect, close, leave |
| mRemoteNG import | `import.rs`, `app.rs` 214-226 | the job under way | parse a document into folders and connections; add each folder, then the connections; save; report |
| RDP session | `rdp.rs`, `rdp_session_screen.dart` | `framed`, `_rdpConnection`, `_isConnecting`, `_isConnected` | connect, retry, disconnect, dispose, garbage collection |
| VNC, VPN, HTTP launcher | `vnc.rs`, `app.rs` 237-272 | none | stubs; start a browser |
| Bridge | `frb_generated.*` | calls in flight, a count and a read-write lock for each opaque object | encode and decode, dispatch, run a call on a pool thread or on Dart's |

How they interact.  Every call from Dart is a future; the bridge runs its Rust side on
a thread of a pool, so calls overlap and finish in any order.  Functions marked `sync`
(`lock_vault`, `is_vault_unlocked`, `vault_exists`) run on the Dart thread and block it.
The methods of an opaque object (`SshConnection`) run under that object's read-write
lock, exclusive for `&mut self`.  Continuations after `await` run on the Dart thread, by
which time their screen may be gone (`mounted`).

What is hard about it: edits are a mutation and a save in two critical sections; the
vault's key and contents lie in two mutexes; screens are replaced while calls of theirs
are in flight; keys are sent by calls that nobody awaits; a tunnel joins a blocking to
a non-blocking end; tabs are closed while they connect; a thread of the pool that waits for a
host serves nobody else.  `PROJECT.json` lists these hazards
with their lines and the properties that watch them.

## 2. Modules

| Module | Stands for |
|---|---|
| `VaultData` | `VaultData` of `models.rs` and the methods of `vault.rs` as operators on it |
| `Vault` | the vault under its threads, with the screens that call it |
| `VaultScreen` | extends `Vault`: the Remember box and the credential in the keyring |
| `VaultStore` | abstract: contents in memory, contents of the file, atomic operations |
| `JumpProxy` | the proxy thread of `connect_via_jump_host` and the conversation through it |
| `Tunnel` | abstract: two streams that may be cut off |
| `SshShell` | one `SshConnection` and the calls a tab makes on it |
| `TerminalTabs` | the tabs of `TabbedTerminalScreen` and the views that draw them |
| `HomeScreen` | HomeScreen's cached lists and reloads, the detail screen and the dialogs above it |
| `Codec` | the serialisation between Dart and Rust |
| `Wires` | each function that Dart can call in Rust: how it is run, locked, decoded, answered |
| `Bridge` | the calls in flight, the pool of threads, the locks and counts of opaque objects |
| `RdpSession` | extends `Bridge`: the RDP screen, its objects, and other calls beside them |
| `Import` | extends `Codec`: the walk over a mRemoteNG document, the job, and the list shown afterwards |
| `MCVault`, `MCJumpProxy`, `MCSshShell`, `MCTerminalTabs`, `MCHomeScreen`, `MCRdpSession`, `MCImport` | forms, documents, conversations, cards and symmetry for TLC |
| `VaultProofs`, `JumpProxyProofs`, `SshShellProofs`, `TerminalTabsProofs`, `HomeScreenProofs`, `CodecProofs`, `RdpSessionProofs`, `ImportProofs` | theorems and proofs |

Definitions whose comment begins with "Mutant" are plausible bugs of the definition that
follows them.  No specification uses them; each breaks a property of a run, which shows
that the property depends on the code it is about.

### 2.1 Vault

`state` and `masterKey` are the contents of the two mutexes; `stateLock` and `keyLock` tell
who holds one across more than a step, which only `save_to_file` does.  A worker is a pool
thread with its call, the number of changes it has made (import makes several) and the
image of the file it read or will write.  One action is one critical section, or one access
to the file: `CreateState`, `CreateKey` (`Vault::create`); `ApplyChange` (any method that
edits); `SaveState`, `SaveKey`, `OpenFile`, `WriteFile` (`save_to_file`; `fs::write` truncates,
then fills); `LoadRead`, `LoadState`, `LoadKey` (`load_from_file`).  `PressLock`, `LockKey`,
`LockState` are `_lockVault` on the Dart thread.  `Deliver` is the continuation of a call,
`AutoUnlockEnds` an auto-unlock that found no password, `Restart` a crash or exit at any
moment and the next start.

The cryptography is kept as far as it matters: a salt stands for the hash and the key made
from it, so a file is `[salt, key, data]`, and it decrypts when `key = salt`.  A connection
keeps its endpoint (name, host and port, what import compares), folder and jump host.
The model's user can do what the screens offer: `CreateVault` and `UnlockVault` from
VaultScreen; the edits from HomeScreen, several at once, on any
id ever shown.  `auto` is an auto-unlock that still waits for the keyring: "pending" while its
screen is shown, "orphan" afterwards.

Calls, locks and edits overlap in any way the screens allow.  Two constants only make an
instance smaller: with `Remembering` the user may tick the box, so that the next start may find
a password; with `Hasty` the form may be submitted again while a submission runs (the button is
disabled meanwhile, vault_screen.dart 302, but Enter in a field submits as well, 235-237, 258).
`vault_overlaps` has both, and no theorem depends on either.

In four situations the code does not keep what it promises (section 3).  Each is recorded when
it occurs, and the property it concerns excepts it by name and nothing else:

- `met` has "rivals" once a creation began beside another one (`RivalCreations`), "late" when at
  the last Lock an opening or auto-unlock of a former screen was still to come (`LockedLate`),
  and "crossed" when half of an opening came between the halves of a lock or the other way round
  (`Crossing`);
- `lost` are the connections that were in memory, or acknowledged, when an opening put contents
  without them in their place (`Overtaken`).

`VaultStore` is the promise: memory is what the file held at some opening plus the edits since,
the file is what memory held at the last save or unreadable.  The refinement mapping takes the
vault to be unlocked while `state` has contents; the image of each opening is what it has read
and not yet put into memory.

### 2.2 VaultScreen

Each step of `VaultScreen` is one of `Vault`, taken under what the screen and the keyring
allow, or leaves the variables of `Vault` alone.  `keyring` is the credential, a password
being known by the salt of the vault it opens; `remember` and `hasStored` are the fields of the
screen shown; `saving` is how far `_submit` is with `saveMasterPasswordToKeyring`, which it
awaits before HomeScreen is shown.  Every keyring call may fail.  A submission whose screen has
been replaced goes on to ask its own screen's `_rememberPassword` (`insisting`), and a deletion
it started goes on too (`deletes`, "left").  `Quiet` is a moment with nothing in flight, of this
screen or a former one.  `misled` is set when the field of the screen shown is not to be relied
on: the keyring could not be read, the auto-unlock failed, or a former screen's saving or
deletion changed the credential after this one had asked (`Misleads`).  A screen that is
replaced counts as unmounted at once; its exit
transition is left out here (it is kept in `RdpSession`, where something happens in it).

### 2.3 Jump tunnel

`local`, `back` are the two directions of the loopback socket, `up`, `down` those of the
channel, `hold` the buffer of the proxy thread between a read and its write.  `pc` is the
call it is in.  `read_channel` has no WouldBlock outcome, because the jump session is never
made non-blocking; `LeaveJump` waits for it, because libssh2 calls on one session exclude
each other.  A conversation is a pair of scripts, `Needs[s][k]`: how many messages side `s`
must have received before it sends its `k`-th.  `Login` is an SSH handshake with a password
login.  Messages are numbered;
`Noise` is a packet without a message in it, which the target may send unasked and need not.

`bye` begins with `TcpStream::connect` to the loopback listener: it may succeed at once, since the
listener's queue takes the connection (`ConnectLocal`), or fail (`ConnectRefused`, ssh.rs
177-178), and then nobody ever comes to `listener.accept`.  `AcceptFails` is the error branch of
`accept` (127-129).  A farewell that would block, or an error of it, leaves `disconnect` with the
jump session kept ("dropped").  The channel's window towards the target is taken to be large
enough: a write to the channel may be short, and does not wait for ever.

### 2.4 SSH shell

`Workers` are pool threads.  A call is `enter` (it waits for the object's read-write lock),
then the steps of its method, of which those that take the mutex of `shell_channel` wait
for it.  `Leave` returns the locks.  The window of the server is a number of bytes; a write may
take part of what it is offered; `WriteEnds` is success, an error, or the timeout while the
window is full.  `channel.close` and `session.disconnect` may fail with WouldBlock, as the
code's comment expects; then `closing` stays false.  Three steps have no time limit (`Silent`):
handshake and login in `connect`, the requests of `open_shell` (ssh.rs 305-315), and the farewell
of a jump session, which waits for the lock that the proxy thread of `JumpProxy` holds while it
reads.  Nothing is assumed of when they end.

### 2.5 Terminal tabs

`tabs` are the open `TerminalSession`s, `views` the mounted view states, both left to right.
`session[v]` is the `widget.session` of a view: the views have no key, so closing a tab
rematches them by position (`Rematch`).  A connection attempt `c` has a phase, the session it
was started for (`owner`) and the view whose method runs (`view`); after its await that method
reads `session[view[c]]`, as the code reads `widget.session`.  The phase "silent" is a host that
has taken the TCP connection and says no more: `connect_with_timeout` limits the TCP connect
alone, so `connect` and the key probe never return.  `StreamDone` is `onDone` of the output
stream; `onError` (374-378) would set the banner, but the Rust side never adds an error to the
stream, only ends it, so it has no action.

### 2.6 HomeScreen

One stay on HomeScreen, the vault unlocked throughout.  `conns`, `folders`, `loading` are its
fields; `top` is the screen or dialog above it: the connection it was opened on, its folder
field, the folders it offers and whether its button is disabled.  `loads` are the runs of
`_loadConnections`, each of which reads connections (`ReadConns`), then folders
(`ReadFolders`), then shows both (`Show`); `calls` the edits in flight, with `mounted` of the
state that waits for them.  An edit is issued by a user's action (`DeleteConnection`,
`CloneConnection`, `Save`, `AddFolder`, `DeleteFolder`, `ImportXml`), changes `data` method by
method (`ApplyChange`), is saved or not (`SaveToFile`), and is continued on the Dart thread
(`ConnectionDone`, `SaveDone`, `FolderDone`, `ImportDone`).  The operations on the contents are
those of `VaultData`; the mutexes, the file and Lock are the subject of `Vault` and left out
here.  `CloseTop` unmounts a form or dialog at once.  In its exit transition it is mounted still,
and an answer that comes just then pops the route below (connection_detail_screen.dart 194-195,
home_screen.dart 1164-1165), as `RdpSession` shows for its screen; here that is left out.
`Cards` are the connections that the tree draws when every folder is expanded: only
those can be opened, cloned or deleted.  `deleted`, `missed` and `shownBy` are history.

### 2.7 Bridge

A message is a sequence of tokens, one for each primitive the generated code writes, with the
width it was written with; `Read` of another width gives `Garbage`.  `EncodeConnection` and
`DecodeConnection` go through the fifteen fields in the order of `sse_encode_connection` and
`sse_decode_connection`; loops over vectors and the writing of one field after the other are
recursive functions (`Loop`, `Concat`).  The Dart half of the codec is modelled as the mirror
image of the Rust half: that the generated Dart code goes through the fields in the order of the
generated Rust code is not checked.  `Wires` lists each function once: normal or synchronous, how
it borrows its object (exclusively for `&mut self`, shared for `&self`), the types it decodes,
its result.  `DispatchedPrimary` and `DispatchedSync` are what the two dispatchers accept.

A call is "queued" (`Invoke`: encoded, decoded, handed over), "claimed" by a thread of the pool
(`Claim`, first come first served), "running" once it has its locks (`Enter`), "replied"
(`Return`), and "free" again when Dart's event loop took the reply (`TakeReply`).  A claimed call
that waits for a lock keeps its thread.  A synchronous call blocks Dart (`blocked`).  The
mutexes of the vault are one lock here.  An opaque object lives while Dart's handle
or a call in flight counts it; `Using` are those calls.

### 2.8 RDP session

One RDP screen above HomeScreen: `route` is where it is in its life, exit transition included;
`home` what became of HomeScreen below it; `isConnecting`, `isConnected`, `error` and
`rdpConnection` are the fields of the state, `rdp` the local variable of `_connect` between its
four awaits.  `Connect`, `Disconnect` and `Ask` are the methods of `rdp.rs`; `open` are the
objects whose `framed` is set, `login` the server and credentials each was last connected with.
`connect` ends in every case, because each of its reads has a time limit.  `Collect` is the
garbage collector with the finalizer of the handle; an object's session closes with its last
count.  That it comes in the end is an assumption, which only `LeftIsClosed` rests on: Dart runs
finalizers some time, and promises no time for an app that is idle.  The user may retry, leave by
the back arrow, press Disconnect more than once, and lock the vault once the screen is leaving;
`Others` are two more calls of the app, of which one may wait for an SSH host for ever.

### 2.9 Import

A document is its nodes in the order in which they begin, with the attributes the parser reads
and the number of the node each is in (`InOrder` makes a tree of them).  That is the order in
which the recursion of `parse_nodes` comes to them, so its walk is a loop here: `Visit` is one
turn, with the defaults, drawing a UUID from a counter and remembering the folder of each
container whose children are visited.  `job` is `import_mremoteng_xml` under way: `AddFolder` for
each folder, `ImportConnections`, `Save`, each a critical section of its own that may find the
vault locked (`FindLocked`); an error leaves what was done.  `OnImported` is the reload of
HomeScreen, the lists going through the codec.  `Containers` and `Leaves` read a document
without the parser: what is in containers alone, at any depth (`Reached`).  The tree is kept when
some assignment of UUIDs to the containers explains everything on the screen (`TreeKept`).

Edits by hand, Lock and Unlock may come between any two steps of an import: the dialog can be
dismissed while it imports, and then an edit saves what the import has done so far, and an unlock
puts the file as it was back into memory.  `since` keeps what the user did after the document was
parsed: "left" the HomeScreen it was pasted in, which therefore is not reloaded (`OnImported`);
"reloaded" the vault by an unlock while the import went on; "edited" connections by hand between
`ImportConnections` and `Save`.  The last two are what the properties except, for the parts they
spoil.  An edit is one step here, mutation, save and reload; its own interleavings are those of
`Vault` and `HomeScreen`.  So is the torn file that a failed save may leave: here a failed save
leaves the file as it was.  One import is under way at a time.

`disk` is what was saved, field for field.  The file has no `private_key_passphrase`
(`#[serde(skip)]`, models.rs 23), but nothing in the vault has one: `add_connection` takes none
(app.rs 98-112) and an import sets none (`ImportAssumption`).

## 3. Runs

| Run | Question | Result |
|---|---|---|
| `vault_overlaps` | With the Remember box, a form submitted twice and Lock at any moment: does the vault implement `VaultStore`; are saves snapshots; can its file be opened again, with the remembered password too; does it hold what was added; does a key mean contents; does Lock clear both; does the box know of the credential?  Each but for the situations of 2.1 and 2.2 | holds |
| `vault_returns` | Do all calls return, and does Lock give the Dart thread back? | holds |
| `vault_stale_unlock` | README: "All decrypted data is cleared from memory" (stored password) | violated |
| `jump_all` | With a target that may also speak unasked: is every byte carried in order and once; does the login come to its end, and is the tunnel taken down, unless the thread waits for ever for a silent target (`Starved`) or for a client that could not connect (`Deserted`)? | holds |
| `jump_starved` | ssh.rs: "Shuttle bytes in both directions", with a target that speaks only when spoken to | violated |
| `shell_all` | Keys in one piece; nothing survives disconnect; nobody writes on a taken channel; all calls return but those held up by a silent host; the reader ends unless a tunnel stays | holds |
| `tabs_all` | Do others stay connected when a tab is closed? As long as only rightmost tabs are closed: independent tabs, no shell outlives its tab, no tab stuck in `connecting` | holds |
| `tabs_mixed_up` | README: "independent sessions and tab controls" | violated |
| `home_all` | Does HomeScreen end up showing the vault's contents; do deleted connections stay deleted in spite of stale forms and cards; does every spinner end? | holds |
| `home_hidden` | home_screen.dart: "Connections in this folder will be moved to root." | violated |
| `rdp_all` | Does a card's every field reach the server; is a session shown open, and one that is left closed; do the spinner and Lock end beside silent hosts? | holds |
| `import_all` | Does the tree of a document arrive on the screen; does no connection come twice; is what is reported on the disk, unless the vault was read again meanwhile? | holds |

Some divergences from what a document or comment says have no run of their own:

- *Vault.*  `UnlockedIsUsable` without its exception "crossed" is violated: `load_from_file`
  sets contents (vault.rs 341-345), then key (346), `lock` clears key, then contents (127-130),
  and an opening overlapping a Lock (a late auto-unlock, or a second submission) leaves a key
  without contents, which `is_unlocked` ("unlocked and usable", 132) reports as unlocked.
- `AddedIsPersisted` without `lost` is violated: `add_connection`, "Add a new connection and
  persist the vault", changes memory (app.rs 123) and then saves it (124).  A lock and an unlock
  in between put the old file back into memory: the call returns Ok, and the connection is
  neither in memory nor on the disk.  A late opening or a second creation has the same effect.
- `DiskDecryptable`, which is `FileOpens` without its exception "rivals", is violated: two
  creations submitted by Enter set `state` and `masterKey` in different orders, and the file
  gets the salt of one and the key of the other, which no password opens.  The credential may
  then be that of either (`RememberedOpens`).
- `LockedStaysLocked`, which is `LockClears` without "late", is the run `vault_stale_unlock`.
- *Remember.*  Unticking the box "immediately clears any stored credential" (vault_screen.dart
  82-87) only if the indicator is set.  A failed auto-unlock clears the indicator and leaves the
  credential, so unticking afterwards deletes nothing; the same holds while the password is
  still being saved.  `BoxTellsKeyring` excepts the first (`misled`) and is about quiet moments.
- *Jump tunnel.*  The tunnel may outlive its connection: the thread waits in `channel.read` (ssh.rs
  153) for a target that says nothing, and holds the lock of the jump session meanwhile, so that
  `disconnect` (284) hangs too; or in `listener.accept` (127) for a client whose connect failed
  (177).  No SSH server is bound to speak unasked, so `TunnelReleased` and `ConversationEnds` name
  these waits (`[]Starved`, `[]Deserted`) as what keeps them from happening.
- `write_all` on the non-blocking loopback socket (ssh.rs 156) fails when the
  socket is full after part of the buffer; the loop is left while both sides hold on, although
  the comment (131) says "until either side closes".
- *Shell.*  A host that falls silent in the handshake, the login or the requests of `open_shell`
  holds its call for ever, and every call that waits for the object's lock with it; the farewell
  of a jump session may wait for the proxy thread.  `CallsReturn` says that nothing else holds a
  call up (`HeldUp`).  After a `?` in `disconnect` (281) the jump session stays, and a server
  behind it need not be heard of again: `ReaderIsTornDown` excepts a jump session kept for ever.
- Keys may arrive in another order than typed: each is a call of its own that nobody
  awaits (tabbed_terminal_screen.dart 386-388), and the pool's threads race for the channel.
  PROGRESS.md line 61 says "Full keyboard input working".  `KeysInOnePiece` is about the
  bytes of one key.
- `close_shell` ignores a close that returns WouldBlock because "we're tearing the channel
  down anyway" (ssh.rs 423-424).  If the farewell of the session would block too, nobody
  tells the server, and the reader thread keeps channel and socket.  `ReaderIsTornDown` is
  therefore about a server that was told (`closing`).
- *Tabs.*  A tab closed while it connects leaves a shell that nobody closes: the continuation
  (tabbed_terminal_screen.dart 359-368) does not look at `mounted` before it opens the shell.
  `ShellsCloseWithTab` is about shells that are open when the tab is closed.  As long as every
  view keeps its session a tab with a connection never offers Reconnect; after a rematch it may,
  and the connection that the second attempt replaces is closed by nobody.
- README line 79 promises a reconnect banner after a connection loss; `onDone` (379-382)
  only writes to the terminal, and the banner needs `error`.
- *HomeScreen* may go on showing a stale list until its next reload, and `ViewIsCurrent` says
  when: an older reload was shown after a newer one (nothing orders them, home_screen.dart
  82-90), or an edit changed the vault and ended without a reload.  The latter happens when
  its save fails (the change stays in memory), when the detail screen is left while it saves
  (connection_detail_screen.dart 194), and when the folder dialog is closed while it adds:
  `setState` (home_screen.dart 990) throws before `onChanged`.
- The folder dialog goes on offering the folders it was opened with (`widget.folders`), so a
  folder just deleted in it can be chosen as a parent; the new folder is then not drawn.
- `_cloneConnection` (home_screen.dart 362) passes neither domain nor notes on to the clone.
- PROGRESS.md line 56 lists filters by folder and protocol; `_filterFolderId` and
  `_filterProtocol` are never given a value.  README line 299 lists renaming folders;
  `updateFolder` is never called.
- *Bridge.*  A silent SSH host keeps a thread of the pool for ever, since the limit covers the
  TCP connect alone (ssh.rs 15-26; the README's lines 50, 74 and 257 speak of connection
  timeouts).  With as many silent hosts as threads, every later call waits, those of the vault
  included; `SpinnerEnds` and `LeftIsClosed` except this state (`Exhausted`).  Lock does not
  wait: it is synchronous, and no call holds the vault while it waits for a host.
- *RDP.*  An answer to Disconnect that comes while the screen is in its exit transition finds
  `mounted` true, and `Navigator.pop` then takes HomeScreen away (rdp_session_screen.dart
  61-66); `home` becomes "popped".  No code reads frames after the connection sequence:
  `get_framebuffer` would return the blank image.
- *Import.*  `ReportedIsStored` without its exception "reloaded" is violated: a Lock and an Unlock
  between `add_folder` and `save_to_file` (app.rs 218-224) put the old file back into memory; the
  import goes on, returns Ok and counts folders that are neither in memory nor on the disk.
- Only connections are compared: an import repeated after an error adds its folders
  again.  A node without a port, or with one that is not a u16, gets 22 whatever its protocol
  (import.rs 72).

### Bounds

- Vault: two threads, one folder, one connection, two salts; five calls (counting locks
  and restarts) in `vault_overlaps`, four in `vault_returns`, which checks liveness and
  so has no symmetry.  Five is enough for create, add, lock, unlock and one call more beside
  an edit still in flight, the longest of the scenarios behind the hazards, and for two
  creations and what follows them; each of the four exceptions of 2.1 occurs.  Four is enough for
  create, lock, unlock and an edit; two threads because every hazard is between two
  parties, the Dart thread being a third.  `Salts` also bounds the creations, `ConnIds` the
  additions, `MaxDeletes` (1) the deletions of the credential in flight from one screen.
- Jump tunnel: the script is finite; `SocketRoom` 2 makes longer writes fail.  One `Noise`
  packet at a time.
- Shell: three threads (the two of CloseTab and one that still writes), two keys of two bytes
  and a window of two, so that a key fills it and writes are cut in the middle of a key; one
  resize.
- Tabs: three tabs and four attempts: a tab on either side of the one that is closed, and
  a reconnect.  One tab uses a private key.
- HomeScreen: two edits in flight, three edits and refreshes in all, which overlap with up to
  four reloads; two connections, one folder, two endpoints of which one can be typed into
  the form (a clone gets the other).  Three is enough for an edit, a deletion of its
  connection, and a third call issued from what was drawn before either.  The document that is
  imported has a folder and a connection in it.  `home_hidden` needs two folders and four edits.
- RDP: a pool of two threads, which one SSH host and one call more exhaust or nearly so; two
  calls of the screen (`connect` beside `disconnect`) and two of the rest of the app; two
  objects, one for each attempt; Back or Disconnect twice (`MaxLeaves`).  One card, with optional
  fields set and not set, since the codec does not depend on the values.
- Import: three documents (folders in folders of the same name with a duplicate and
  an element below a connection; a flat one with an empty folder; one that is no XML), sixteen
  UUIDs, which suffices for an import after another or for a repetition, and three edits, locks
  and restarts (`MaxActs`), before, beside and after the imports.  An edit by hand leaves the UUIDs
  that the import under way may still draw (`Reserved`).

The runs stop when a bound is reached, or when a conversation is over, so deadlock is not
checked (`import_all`, where it is, never stops); that threads do not wait for each other for
ever is a liveness property (`CallsReturn`, `TunnelReleased`, `LockReturns`).  Symmetry is used
where no liveness property is checked.

### Fairness

Weak fairness of a thread's next step, of continuations on the Dart thread (reloads
included), and of
hosts that have something to answer: the operating system schedules threads, the Dart
event loop runs what is queued, and `Mutex` and the bridge's lock are not starved by the few
calls of one screen.  The keyring service answers, with an error if need be.  In `rdp_all` exit
transitions end, garbage is collected and finalizers run, and functions return, except those
that wait for an SSH host (`WaitsForSsh`), of which nothing is assumed; in `tabs_all` a host
may fall silent, which `ConnectingEnds` excepts, and each attempt is taken to find a thread
(`Bridge` has what happens when none is left).  In `shell_all` a thread's next step is fair
except where it waits for a host (`Silent`), and the server's answer is fair where no tunnel
stands between.  In `jump_all` both ends read what has come and say what their script has for
them; of `Noise`, of connecting, failing and hanging up nothing is assumed.  No fairness is
assumed of the user otherwise than that a modal dialog is answered, of a crash, or of a server
that need not speak.

## 4. Proofs

Every safety invariant and action property that a passing run checks is also a theorem, for
every value of the constants, and so are both refinements.
No theorem assumes more than the constants' assumptions: where the code does not keep a promise
in every case, the exception is part of the property, as in the runs.

`VaultProofs` has five parts.

- *Contents*: what `delete_folder` does, as the comment on it promises: no connection is lost,
  those in the folder go to the root, and no connection refers to it afterwards.  Beside it
  the lemmas that changes keep `VaultDatas` closed.
- *Saves and files*: `TypeCorrect`, `SavesAreSnapshots` and `FilesDecryptable`.  `TypeOK` is
  inductive with the closure lemmas and the fact that a call in "apply" has a change left.  A save
  is a snapshot because of the lock discipline: a thread at
  "open" or "write" holds both mutexes, so nobody sets `state` or `masterKey` meanwhile, and its
  buffer is still what they hold.  `FileOpens` alone is not inductive: between the halves
  of create and load, `state` and `masterKey` may belong to different files.  `IInv` adds that a
  file once written stays (`FileExists`), that before the first vault is shown every call is a
  creation of the screen shown and nothing but the empty contents is anywhere (`FirstVault`), and
  what each thread carries between its steps (`MemInv`).  Unless creations met, it adds that a
  creation is by itself and over before a readable file is there (`OneCreation`), and that outside
  a creation every key, every vault in memory, every image read and the file have one salt
  (`OneSalt`); loads and locks may overlap with it in any way.
- *Lock*: `KeyMeansContents`, `LockLasts` and `HomeOpensUnlocked`.  `Mounted`: a submission whose
  screen is still shown has put contents into memory before its key, and both stay until its
  answer is delivered, because Lock is not to be had on that screen.  `KeyLast`: unless an opening
  crossed a lock, a key is set after contents and goes before them, also by those that came late.
  `Locking`: a lock that was not late leaves nobody who would open the vault; edits that were in
  flight when it was pressed may go on, for they set neither key nor contents.
- *Store*: `AddedStaysSaved` and `VaultImplementsStore`, beside failing saves, restarts, late
  openings and second submissions.  `Offers` keeps what an edit in flight came with, and
  `Keeping` that what was added and not deleted or overtaken (`lost`) is in memory, once it is
  acknowledged in every readable file, and so for one about to be acknowledged.  In the
  refinement `CreateVault` gets an empty image and `LoadRead` one of the file, and `CreateState`
  and `LoadState` put it into memory; `ApplyChange` is the store's edit, `WriteFile` its save,
  `OpenFile` the torn file, `LockState` and `Restart` its lock; all else changes nothing there.
- *Screen*: `ScreenSpec` implements `Vault`'s `Spec`, unconditionally: each step maps to a step of
  the vault or leaves it alone.  So the theorems before it hold of the vault together with
  its screen.  `RememberedPasswordOpens` then needs `IInv` and one fact more (`KInv`): a
  password fits (`Fits`) when everything that is or could become the file has its salt; what a
  returned submission has in its buffer fits, so what it saves in the keyring does, and what
  fits goes on to fit, because without rivals no second vault is created over the first.
  `BoxKnowsKeyring`: the only time the box may be wrong unmisled is between the saving of a
  password and the HomeScreen that follows it (`BoxFits`).

`JumpProxyProofs` proves, for any conversation and any room in the socket, `TypeOK` (above all
that the proxy's buffer holds data exactly between a read and its write), `NothingIsMissing`
and `TunnelImplementsStreams`.  `StreamInv` says that each side has heard a first part of what
the other said, and that what lies before a side that holds on is the next part, all of it
while the loop runs.  It mentions the way behind the part nearest to a side only through an
existential (`Flow`), because a write that fails after part of the buffer leaves the loop, and the
part that was written may still be read while the rest is lost.  The lemmas are
about sequences: what appending, taking the head and cutting do to `Carries`.

`SshShellProofs` proves `ShellTypeCorrect`, `WritersHaveChannel`, `DisconnectLasts` and
`KeysAreWhole` for any number of threads and keys.  The invariant `ShellInv` states who holds
which lock at which step (`ObjectLock`, `ChannelLock`), which call a step belongs to (`Within`),
and how far a disconnect has come (`Taken`).  Without `Taken`, an `open_shell` between its halves
could store a channel after disconnect; the shared lock it holds keeps disconnect out, and the
session it needs is gone afterwards.  `KeysAreWhole` needs `KeyInv` besides: a key belongs to one
call (`KeyOwners`), nothing of it is on the wire until that call writes, and while it writes, what
it wrote last is the last on the wire (`OnWire`), since the mutex of `shell_channel` is held from
the first byte to the last.

`TerminalTabsProofs` proves, for any number of tabs and attempts, that closing a tab never closes
the shell of an open one (`OpenTabsKeepTheirShell`), and that keys reach the tab's own host until
a view is handed another session (`KeysReachTheirHost`).  The invariant relates three things: the
views, by position, to the tabs (`Matched`: a view is never handed a session older than the one
it has, so once it has its own it had it always), each attempt to the view
that runs it (`Attached`), and a stored connection to the session it was made for (`Own`).
`ClosedTabsCloseTheirShell` needs `OneAtATime` besides: an open session has one attempt or
connection, because the banner that offers another shows only when it has none (`Alone`), so
what the session stores is all there is to close.

`HomeScreenProofs` proves `HomeTypeCorrect`, `ShownIsCurrent` and `DeletedIsGone` for any number of
edits and reloads in flight, whatever is left, dismissed or imported meanwhile.  `DeletedIsGone`
needs `Fresh`: a connection still to be added is under an id of its own, which no stored or
deleted connection has, so no pending change can bring a deleted one back (`update_connection`
adds nothing).  `ShownIsCurrent` needs `Current`: while every edit that changed the vault was
followed by a reload, the latest reload has read what the vault holds now, the connections as
soon as it is past its first await and the folders past its second; a change in between is one
whose own reload is still to come.  `Budget` counts reloads against acts of the user, and `Waits`
says that a busy form has its call in flight.

`RdpSessionProofs` proves `ConnectedIsOpen` and `LeftSessionCloses` for any number of calls,
objects, threads and presses.  `InUse` says what every call in flight is for: the attempt to
connect, a disconnect of the session stored, or another part of the app.  `Attempt`: one attempt
at a time, and none once a session is stored.  `Learned`: what the attempt has found out still
holds when it is used, because the attempt keeps its object from the garbage collector and nobody
else has it.  So the object that is stored is open when `is_connected` said so, and the only calls
that can close it are disconnects.  `PressedCardArrives` and `RdpTypeCorrect` add `CardInv`, which
follows the card from the press to `login`, and use what follows about the codec.

`CodecProofs` proves `CodecRoundTrips`: whatever connections and folders are written, fifteen
fields each, the reader gets them back and stops where they end.  Each lemma is about a message
that goes on (`Remains`), so that they can be put one after the other: a primitive, an
optional text, a vector of what is already known to come back.  The induction over lists
cannot use the library's theorem, whose predicate is a parameter no prover here can
instantiate.  It is done with a set instead: the lengths for which the claim holds contain 0,
and n + 1 with n, hence every number (the lemma `Induction`, from a least counterexample, which
the library's `WFMin` gives).

`ImportProofs` proves all four properties of `Import`, for any documents, of any depth and size,
any failures, and any edits, locks and unlocks before and beside imports.  Its first half is
about the two loops.  What a loop has found after each turn lies in a set given for that turn
(`LoopRuns`, `LoopEnds`).  `Found` says what that is for `parse_nodes`: the containers visited so
far have folders of their own, each under a later UUID; every folder and connection found is that
of a node in containers alone, in the folder for its own; and each such node has been found.  The
step (`VisitFinds`) rests on `ReachedBy`: a node is in containers alone exactly if the node it is
in is one and is so itself, which `InOrder` implies.  `Kept` says it for `import_connections`:
the vault as it was, then connections of the batch, no two alike, and one for every endpoint that
came by.  The second half is the invariant.  `TreeKept` speaks of what is shown in the end, so
`IInv` says where everything is before: while a job is under way, its document's folders are in
the vault or still in the job, and its connections in the job or in the vault, if that was not
read again in the meantime (`Underway`); no folder of the vault or the file has the UUID of one
that is still to be added, or one still to be drawn, also when an edit has saved half of an
import and an unlock read it (`FolderIds`); and once an import was reported, all of it is on the
disk, and the vault, if open, and the screen, if not cleared, are what is there (`Stored`).
Where the vault was locked, the HomeScreen that would reload is gone (`Away`).  `ListsAreKept`
brings it through the codec to the screen.  `ImportAddsOnce` needs of all this only that what is
added comes out of `Kept`.

Everything rests on the assumptions named in the modules, which TLC evaluates in the runs:

- constants that stand for "none" are no values of the kind they stand beside, bounds are
  natural numbers, pools are not empty (`DataAssumption`, `VaultAssumption`, `ScreenAssumption`,
  `ShellAssumption`, `TabsAssumption`, `ProxyAssumption`, `CodecAssumption`, `BridgeAssumption`,
  `RdpAssumption`, `ImportAssumption`);
- the cards of `Bridge` are connections as models.rs has them, and so are the forms and their
  UUIDs of `Import`; its documents are trees whose attributes are texts;
- a document imported consists of `add_folder` and `import_connections` (`VaultAssumption`;
  app.rs 214-223) and brings its own UUIDs, one for each connection (`HomeAssumption`; vault.rs
  223);
- no other part of the app calls the methods of `RdpConnection` (`RdpAssumption`), which only
  rdp_session_screen.dart does.

Model-checked only:

- liveness, which TLAPS does not do: `CallsReturn`, `ReaderIsTornDown`, `ClientBytesMove`,
  `ConversationEnds`, `TunnelReleased`, `ConnectingEnds`, `SpinnersEnd`, `LockReturns`,
  `SpinnerEnds`, `LeftIsClosed`;
- what goes wrong in the cases that the properties except (section 3).

## 5. Not modelled

Argon2, AES-GCM, JSON and XML syntax; drawing, theming and window titles; the SSH and RDP
protocols beyond who waits for whom; text fields and their validation, the file picker; search,
expanding folders, export, tags and the
jump-host field of the form; `execute_command` and the connection tests, each one sequential
exchange on a connection of its own; VNC and VPN (stubs) and the browser launcher, of
which `Wires` says how they are called; the Dart half of the bridge in its own right; the build
scripts and generated runners; `ssh_terminal_screen.dart`, which nothing refers to.
`save_to_file` rewrites the only copy of the vault in place: a crash in the middle loses it.
The model has that state (`Torn`), and no property forbids it, because no document promises
otherwise.

## 6. Plan

Done, in the order in which they matter: vault, jump tunnel, shell, tabs, HomeScreen,
VaultScreen with the keyring, bridge and RDP session, import; the proofs of section 4.  Left:

1. Connection tests and `execute_command`, as calls of `Bridge` with their own SSH session.
2. Proofs: lemmas on `Wires`, that each method is locked as its receiver demands.
