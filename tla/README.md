# HandsOffMyVPN in TLA+

TLA+ modules, TLC runs and TLAPS proofs for HandsOffMyVPN, an LSPosed module
that hides an active VPN from the Android apps it is loaded into. Paths below
are relative to `app/src/main/` of the repository; `hook/` and `ui/` are under
`kotlin/dev/lok1s/handoffmyvpn/`.

## 1. The system

```
 target app process                                     module app process
 ------------------------------------------------       ----------------------------
 HookEntry.loadApp                                      LogReceiver.onReceive
   LogDispatcher.notifyLoaded ------- broadcast ------>   preferences "enabled_apps"
   Java hooks ---- LogDispatcher.dispatch --- " ----->    DetectionLog.record
   NativeLoader -> JNI_OnLoad                              |              |
     hooks on libc (Dobby) <- threads of the app         AppsScreen     LogScreen
       fd tables, iface marks, sanitizers
```

| Component | State | Operations | What is hard | What makes it correct |
|---|---|---|---|---|
| Descriptor tracking (`cpp/fd_tracker.h`, `cpp/homvpn_native.cpp`) | `g_fd_table`, `g_nl_socket_table`, the hooks in place | hooks on open, openat, fopen, socket, close, read, pread64, recv, recvfrom, recvmsg; `JNI_OnLoad` | the app's threads run in the hooks while they are being installed; no locks; descriptors are reused at once; ways past `close` | the tables agree with what the descriptors refer to; a read gets its own sanitizer and no other |
| Line sanitizers (`cpp/sanitizer.cpp`) | a buffer, edited in place | `sanitize_maps`, `_tcp`, `_mounts`, `_net_dev`, `_if_inet6`, `_route` | overlapping moves, the line after a removed one, a last line without newline, header lines | what is returned is the clean lines, whole and in order |
| `sanitize_status` (`cpp/sanitizer.cpp`) | a buffer, overwritten byte by byte | a zero and blanks over the number after `TracerPid:` | the needle at the end of a piece, a number that is cut, a lone zero, no number at all: then its newline is overwritten | a zero and blanks, to the newline and no further, every other byte stays |
| Reads in pieces (`cpp/homvpn_native.cpp`) | the offset of the file | `hook_read`, `hook_pread64` | the kernel cuts a file anywhere; each piece is sanitized alone; a piece may become empty | each call is what the sanitizer's contract says of its piece |
| Netlink sanitizer (`cpp/sanitizer.cpp`, `cpp/fd_tracker.h`) | `g_vpn_iface_idx` | `sanitize_netlink` | marks are shared by threads and outlive buffers; messages cut off; interfaces are renamed | VPN messages are hidden, addresses follow their links, others are untouched |
| Native interface lists (`cpp/homvpn_native.cpp`) | the caller's list or array | `hook_getifaddrs`, `hook_ioctl`, `hook_if_nametoindex` | unlinking while walking, compacting in place | exactly the plain entries remain, in order |
| Native loader (`hook/NativeLoader.kt`) | `loaded` | `loadIntoProcess` | races, failure and retry | the payload's hooks are installed once |
| Connectivity and link hooks (`hook/ConnectivityManagerHook.kt`, `hook/LinkPropertiesHook.kt`) | none that changes; reflection handles | after-hooks on seven methods | hooks call hooked methods; networks come and go in between; fields out of reach; hooks that failed to register | capabilities show no VPN, plain networks are whole; every call returns, but for `getLinkProperties` of a VPN that the registered hooks do not recognize |
| Java interface filters (`hook/NetworkInterfaceHook.kt`, `OsInterfaceHook`, `IfconfigDetectorHook`) | none | filter one result and report | each has its own list of prefixes and rule of case; an Enumeration is used up by reading it | the plain interfaces remain; no layer shows what another hides |
| Other Java hooks (`hook/NetworkCapabilitiesHook.kt`, `ProxyHook`, `SystemPropertyHook`) | none | replace one result | | |
| Report pipeline (`hook/LogDispatcher.kt`, `LogReceiver.kt`, `HookEntry.kt`) | broadcasts in flight, preferences | `notifyLoaded`, `dispatch`, `onReceive` | two processes; broadcasts late, reordered, lost; the module process dies; the Application does not exist yet | the log has the newest that arrived, whatever is lost or late; logged apps are listed |
| Detection log (`hook/DetectionLog.kt`) | `entries`, `totalCount` | `record`, `clear` | the bound | the newest `MAX_ENTRIES`, none missing |
| Screens (`ui/`) | | read the log and the preferences | row keys | |
| Relocation (`cpp/Dobby/source`: `InstructionRelocation`, `InterceptRouting`, `TrampolineBridge/Trampoline`, `core/assembler`) | code and label buffers, the block of the copy | `GenerateTrampolineBuffer`, `GenerateRelocatedCode`, `GenRelocateCodeAndBranch` | code that refers to its own address moves; lengths and ranges; three instruction sets, four with Thumb; a block that is too small | the pointer to the original does what the function did, a call of the function gets to the hook |
| The rest of Dobby | vendored | memory, patching, symbols | patches running code | |

The components share little: the native hooks share the tables; the Java hooks
call each other through the framework's methods; every hook reports through the
pipeline; the log and the preferences are where the screens read. Every native
hook is put in place by Dobby, and calls its original through the copy that
relocation has made.

## 2. Modules

| Module | Models | |
|---|---|---|
| `FdTracker` | the descriptor tables, the hooks around them, `JNI_OnLoad` | core |
| `LineFilter` | what a line sanitizer keeps of a buffer, without a loop | definitions |
| `LineSanitizer` | one call of a sanitizer: the in-place loop of six, the byte loop of `sanitize_status` | |
| `FilteredReader` | what `hook_read` and `hook_pread64` promise to a caller, one step per call | abstract specification |
| `ProcReader` | a thread that reads a file in pieces, each through `LineSanitizer` | composes with `LineSanitizer`, implements `FilteredReader` |
| `Netlink` | `sanitize_netlink` and the interface marks | |
| `DetectionLog` | the bounded log | extended by `LogPipeline` |
| `LogPipeline` | from a hook's report to the log and the preferences | composes with `DetectionLog` |
| `ConnectivityHooks` | the Java hooks that call each other | |
| `IfaceFilter` | every way to list interfaces: the two native loops, the Java filters | |
| `NativeLoader` | `loadIntoProcess`, from the `loadApp` block to `JNI_OnLoad` | |
| `OriginalCode` | what the first instructions of a function do in their place | abstract specification |
| `Arm64Processor`, `Arm32Processor`, `X86Processor` | what one instruction does to registers and `pc` | external: the processors |
| `Machine` | values, addresses, fields, code in memory | definitions |
| `RelocationContext` | the state of a `DobbyHook`, and of a thread that runs the result | extended by the next three and `Relocation` |
| `Arm64Relocation`, `Arm32Relocation`, `X64Relocation` | trampoline and relocation on each architecture; 32-bit ARM with Thumb | |
| `X86Decode` | how long the decoder takes an instruction to be, and the instructions it is right about (`Described`) | used by `X64Relocation` |
| `Relocation` | a `DobbyHook`, then a thread that calls the function | composes the three, implements `OriginalCode` |
| `MC*` | constants of the TLC runs | |
| `*_proofs` | theorems about `FdTracker`, `ProcReader` with `LineSanitizer`, `Netlink`, `LogPipeline`, `ConnectivityHooks`, `IfaceFilter`, `NativeLoader`, `Relocation` | |

### FdTracker

A hook is split where another thread can get in between. The original libc call
is a step and so is each access to a table: `Open` then `Track`; `Socket` then
`TrackNl`; `Close`, `Untrack`, `UntrackNl`, `OrigClose`, in the order of
`hook_close`, which the record `hook_close` gives; `OrigRead`, `Lookup`,
`LookupNl`, `ReadReturn`. Table accesses are single bytes, so each is one step.
`InstallHook` walks `HookOrder`, the order of `JNI_OnLoad`, and goes on when a
hook fails, since the result of `install_hook` is not looked at. An entry point
that is not installed is its original. `OtherOpeners` and `OtherClosers` stand
for what no hook covers (dup, dup2 over a live descriptor, libc's own closes).

The environment is a program that uses only descriptors it holds: a thread
closes one that some open has returned and nobody is closing (`Usable`). Reads
may race with closes; such a read is marked `raced` and promised nothing, for
the app itself may get any file's data there.

`file`, `hooked`, `bypassed` and `raced` are the kernel's state and history;
the rest is the program's. `classify_path` keeps the order of the tests, on
the set of needles that occur in a path.

### LineFilter and LineSanitizer

`LineFilter` says which bytes of a buffer a sanitizer keeps: those of header
lines (`HeaderLines`: 0, 1 or 2 by sanitizer) and of lines that are not
`Dirty`, a parameter that stands for the needles and interface names.
`LineSanitizer` is the loop: `EndsAt` is `memchr`, `Moved` is `remove_line`'s
`memmove` over the line, positions as in the code. The history variable `src`
moves along with the bytes and tells where in the input each is from. The six
functions differ in the number of header lines and in `Dirty` only, so one
loop stands for them; `f` says which it is.

`sanitize_status` has its own steps: `LeaveStatus` for its early returns (no
needle, nothing behind it, a lone zero), `ZeroFirst` for `val_start[0] = '0'`,
`BlankNext` for a turn of its loop, `ReturnStatus` for its end; `pos` is its `p`.
`Number` is what `memmem` and `memchr` find. In `LineFilter`, `Masked` is what
becomes of the buffer, with no loop and nothing of these definitions but the
place of the first needle; the contract is stated with it. If there is no
number, the zero is written over the newline, and the lines are joined: `Masked`
has that too.

### FilteredReader and ProcReader

`ProcReader` runs `LineSanitizer` once per call of `hook_read` or
`hook_pread64`: `OrigRead(n)` is the original call, which delivers any number of
bytes from `at`; the turns of the loop follow (`Goes`); `HookReturn` ends the sanitizer
(`Returns`) and the call in one step and moves `at`, for `read` by what the kernel
delivered, for `pread64` by what the hook returned, since its caller computes
the next offset from that. `FilteredReader` has the same calls with no loop:
`Yields` is what a call makes of the window it reads, from `LineFilter`. The
refinement maps every variable to its own, and a turn of the loop to a stutter.
What the contract does not promise is visible in it: a line cut by two windows
is judged by its halves, headers are those of the window, and an empty result
ends the reading though the file goes on.

### Netlink

A buffer is a sequence of messages; each keeps its type as sent. `Keep`,
`HideLink`, `HideAddress` are the paths through one turn of the loop, `Stop` is
`NLMSG_OK` failing on a message that is cut off. The kernel renames, creates and
deletes interfaces between receiving and sanitizing (`Change`). Its messages
always have room for their headers, so the test on `nlmsg_len` never fails here.
An address message may lack a label, as those of IPv6 do.

### DetectionLog and LogPipeline

`record` and `clear` are one step each, they hold the monitor. `onReceive` is
two: the preferences edit (`Receive`), which `AppsScreen` may see on its own
thread, and `record` (`ReceiveRecord`); a "\_\_loaded\_\_" report ends after the
first. `Send` does nothing while there is no Application, as `dispatch` and
`notifyLoaded` do. Broadcasts in flight are a set: any order, any delay, `Lose`.
Android delivers a broadcast at most once, so `Receive` takes it out of flight;
`LogReceiver` does not look for repeated reports, and nothing is claimed about them.
`Crash` is the death of the module process: log empty, preferences as on disk,
which `WritePrefs` brings up to date some time after each edit.

### ConnectivityHooks

A call of the app is a stack of frames, for the hooks call hooked methods. A
frame has the place in its hook (`at`), the result so far and the networks still
to look at; every original method is answered from the networks that are up at
that moment, and `Change` takes networks up and down between any two steps.
`Init` chooses the API level (`sdk31`), whether the private fields can be
reached, and which hooks failed to register; each registration is tried on its
own (`LinkPropertiesHook.kt:75-93`), so any of them may fail alone.

One of these failures makes a hook call itself without end. When `getInterfaceName`
is not registered, `getLinkProperties` recognizes the VPN's link and looks for
another (`LinkPropertiesHook.kt:111-115`); `findUnderlyingLinkProperties`
(193-204) skips networks that look like a VPN, but if their capabilities come
from the hook that strips them the VPN does not, and is asked for its link,
which is the same hooked call again. `MaxDepth` is how many hooked calls the stack has room
for, and `Overflow` the `StackOverflowError`: the `catch` (205) names Exception and
lets it pass to the hook framework, which hands it to the app or goes on with
the original's result. `VpnIsRecognized` says that the hooks that are left tell a
VPN; `MayCallItself` is a call of `getLinkProperties` for a VPN when they do not. It is the stated exception
of `NoCallWithinItself` and `CallsReturn`: nothing in the code excludes it.
`hookGetDnsServers` only logs and is left out.

### IfaceFilter

One behaviour is one call: what its original returned (`input`), and the loop of
its hook or, for the hooks that make a filtered copy, one step. Interfaces are
positions in `input`, so that the list and the array show where an entry comes
from. `nxt[0]` is the caller's `*ifap`; with `prev = 0` for null, the two
assignments of the unlinking loop are one. `ok` is false when a hook's first
tests make it return: a failed call, another request than SIOCGIFCONF, a query
for the size only, a field that is not there. `isVpn` has the prefixes and the
rule of case of each layer: the native layer and `OsInterfaceHook` compare as
they are, the others fold case, and `IfconfigDetectorHook` has more prefixes and
any name with "vpn" in it. So a layer may hide more than the native one, and
`TunnelsHiddenEverywhere` says that none hides less.

### NativeLoader

`Enter` is `getAndSet`, atomic; then a `TestPath` per path of `AllPaths`, which
has the strategies in their order, for the filter that keeps files that exist;
`Collect` when all are tested, a `TryPath` per candidate, `LoadLibrary`, and
`Rearm` for the catch block, each a step, for the flag is all that keeps other
threads out. Files may change between any two steps (`ChangeFiles`) and any other Throwable may end an attempt (`Throw`), unless the
behaviour is `calm`. A library that loads runs `JNI_OnLoad`, which always
succeeds, so a failed load has installed nothing.
The comment on the flag (line 34, "set to true after the first successful
load") is not what the code does: it is raised before, and a call that finds it
raised while another is still trying returns as "already loaded"; if the other
fails, only a later call tries again. What holds is `FlagNeverStuck`.

### Relocation

`DobbyHook` writes a trampoline over the first instructions of a function and
hands out a pointer to a copy of them, ended by a branch to those behind. A
`fragment` is these instructions by their offsets, as records of fields (`len`
is in bytes); `env` has the hook, the caller and what conditional branches
depend on. `GenRelocateCodeAndBranch` prepares (`Prepare`: trampoline and
`origin->size`), takes one turn of the loop per instruction of the function, one
action per kind that the code rewrites (`RelocateBCond`, `RelocateCallOrJmp32`,
...) and one that copies, and then ends: the branch back, binding the labels to
their data (`RelocBind`), finding a block. On x64 the code is generated for the
block that is there; if it does not fit, `TryAgain` starts over with a larger
one at another address, as `x86_try_again` does.

Then a thread runs (`Step`): through the trampoline to the hook, which calls the
original with the registers it was given (`CallOriginal`), and through the copy
until it is back in the caller. A callee returns at once. Data and unwritten
bytes do not run, so a thread that gets there is stuck. `source` tells which
instruction an offset of the copy belongs to. Under the refinement the thread
is at that instruction until it starts the next one, with the registers it had
when it started this one; `Unrelocated` reads a return address in the copy as
the one of the function, and `Scratch` are the registers that the copy may use:
x17 on arm64, ip (r12) on ARM. So `ImplementsOriginal` says: instruction by
instruction the same registers, loads, calls and way out.

Literals of the code are addresses or unknown contents of an address, so that a
load from the wrong place is a different value. Immediates are fields of their
real number of bits (`Field`, `SignExtend`) where a constant does not scale
them down. `X86Decode` follows the decoder's tables for the length only: what
operands each opcode has, by class of opcode.

`CasesAssumption` says what a fragment has to be (`WellFormed`): instructions one
after another, of four bytes on arm64, `Described` on x64, and enough of them for
the trampoline. `ReachAssumption` says where the hook and the memory near the
function may be (`HookInReach`). TLC evaluates both on every fragment of the run.

What the code is known to relocate wrongly is in the fragments too but with
`handled` FALSE, and counts for the lengths and blocks only. It is listed in 6.

## 3. Runs

| Run | Instance | Shows |
|---|---|---|
| `fd_tracker` | 2 threads, 2 descriptors of which 1 in the tables, a sensitive and a plain path, `close` may fail to be hooked, dup and dup2 | `TablesFollowKernel`, `SensitiveReadsSanitized`, `OtherReadsUntouched` |
| `proc_reader` | every file of up to 5 bytes over newline, clean byte, needle; the tracer's line with every 3 bytes behind it over newline, clean byte, zero, second needle, and two longer ones; 7 sanitizers, 2 entry points, every cut | `ReturnsKeptBytes`, `WholeLinesFiltered`, `TracerHidden`, `ImplementsContract`, `ReaderFinishes` |
| `netlink` | 2 threads, 1 index in the table and 1 past it, 2 names, buffers of 2 messages, 1 change | `NamedMessagesHidden`, `AddressesFollowLinks`, `OthersUntouched` |
| `log_pipeline` | 2 apps, log of 2, 5 broadcasts, loss, crashes | `LogIsRecent`, `LoggedAppsAreListed` |
| `log_keys` | 2 apps, no loss, no crash | violates `RowKeysAreUnique` |
| `log_loaded` | 1 app, no loss, no crash, fairness | violates `LoadedAppsGetListed` |
| `connectivity` | a VPN over nothing, WiFi, cellular; 2 changes; 5 sets of failed hooks, `getInterfaceName` alone among them; a stack of 5 | `CapsShowNoVpn`, `PlainNetworksKept`, `NoCallWithinItself`, `CallsReturn`, the last two but for `MayCallItself` |
| `iface_filter` | every list of up to 4 interfaces over 7 names; 8 calls, hooks that ignore the result | `ListIsPlain`, `ArrayIsPlain`, `ResultIsPlain`, `TunnelsHiddenEverywhere`, `Terminates` |
| `native_loader` | 2 threads, 3 calls, 3 files in 2 directories, 1 change of the files | `InstalledOnce`, `FlagNeverStuck`, `FlagCoversLibrary`, `CallsInstall` |
| `relocation` | every kind of instruction the code rewrites, those it rewrites wrongly marked as not `handled`, at both ends of its range, first, second, and next to another; on x64 every opcode the decoder knows with every form of operand; conditions that hold or not | `CallReachesHook`, `CopyFitsBlock`, `AtInstruction`, `ImplementsOriginal`, `CallsGetThrough` |
| `all_networks` | no changes, no failures | violates `AllNetworksHideVpn` |
| `links` | no changes, no failures | violates `VpnLinkIsReplaced` |

Each run also checks its module's type invariant; each property has a mutant of
a definition, next to it in the module, that breaks it.

**Bounds and why they are enough.** Descriptors are independent of each other
in the tables, so one in the table shows everything that can happen to an entry,
and one past it the range checks; two threads are enough for one hook to be
between any two steps of another, and the proofs cover more. Five bytes hold
two header lines, two dirty lines in a row and a clean one, one byte each, or a
line cut in the middle with a line on either side; the loop's state depends on
the input only from `pos` on, and the proofs have no bound. In `netlink` two messages in a buffer
are enough for a link followed by its address, or by one cut off. `MaxSends` = 5
fills a log of two twice over, with clear and crash in between; `MaxClock` = 1
allows equal and different time stamps. Three networks give the loops over
networks one to skip, one to take and one that disappears. No more than three hooked calls are
nested unless one calls itself (`ThreeDeep`, proved), so `MaxDepth` = 5 leaves room for
a call within itself and for the overflow. Four interfaces
have hidden ones at the head, at the tail and two in a row between plain ones.
In `relocation` an instruction interacts with those next to it through offsets,
labels and the place where the trampoline ends, which pairs show; `some` are those
that use labels or data. TLC's integers have 32 bits, so sizes of immediates are
scaled: `AdrBits` = 17 of 21 bits of an arm64 adr, `PageBits` = 8 for 12,
`HalfBits` = 8 for 16, `DispBits` = 20 for 32 on x64; both ends of each range are
among the fragments. Three calls on two threads are one that fails, one that races with it and one
that retries; three files give a candidate that does not load before one that does.

**Fairness.** `ProcReader`, `IfaceFilter`, `NativeLoader` and `ConnectivityHooks` have weak fairness on the
steps of a call in progress: a running thread goes on. The app is not obliged
to call anything, nor the networks or files to change. `LogPipeline`'s fairness is that
applications are created, `loadApp` blocks run, broadcasts that are not lost
are delivered and `onReceive` runs to its end; `log_loaded` assumes all of this
and no loss, and still fails. In `Relocation` a thread that hooks a function, or
has called one, gets to run. Safety runs assume none.

**Deadlock** is checked except where the system may stop: a returned sanitizer,
the bounded broadcasts, the bounded changes of interfaces, a process whose
`loadApp` blocks have all run, and a thread that is back in the caller of the
hooked function. That a thread does not stop anywhere else is `CallsGetThrough`.

## 4. Where code and documentation disagree

- `all_networks`: `ConnectivityManagerHook.kt:22` and `112-119` say that VPN
  networks are filtered by their real capabilities. Line 134 calls the hooked
  `getNetworkCapabilities`, which has stripped them: nothing is ever filtered.
- `links`: `LinkPropertiesHook.kt:25-27` says that the VPN's link properties are
  replaced. Line 109 reads the interface name through the hook on
  `getInterfaceName`, so that the VPN is not recognized.
- `log_loaded`: `AppsScreen.kt:165-170` says that apps are discovered by the hook
  broadcast. `notifyLoaded` runs when the `loadApp` block starts and returns if
  there is no Application yet; nothing repeats it.
- `log_keys`: `LogScreen.kt:121` keys rows by millisecond and method, which two
  reports can share; Compose throws on a repeated key.

The endless call of `getLinkProperties` (section 2, ConnectivityHooks) is not in this list: no
comment or document says that a registration may fail without harm. The runs
have it as the exception their properties name.

## 5. Proofs

TLAPS proves, for every value of the constants that the named assumptions
allow:

| Module | Theorem | States |
|---|---|---|
| `FdTracker_proofs` | `TypeCorrect`, `TablesFollow`, `ReadsSanitized`, `OthersUntouched` | `TypeOK`, `TablesFollowKernel`, `SensitiveReadsSanitized`, `OtherReadsUntouched` |
| `ProcReader_proofs`, one call | `TypeCorrect`, `KeptBytesReturned`, `Shrinks` | `TypeOK`, `ReturnsKeptBytes`, and `OnlyShrinks`, which is only proved |
| `ProcReader_proofs`, a reader | `ReaderTypeCorrect`, `ReaderReturnsKeptBytes`, `ReaderShrinks`, `WholeLinesDelivered`, `TracerMasked`, `HooksImplementContract` | `TypeOK`, `ReturnsKeptBytes`, `OnlyShrinks`, `WholeLinesFiltered`, `TracerHidden`, `ImplementsContract` |
| `Netlink_proofs` | `TypeCorrect`, `NamedHidden`, `AddressesHidden`, `OthersAsSent` | `TypeOK`, `NamedMessagesHidden`, `AddressesFollowLinks`, `OthersUntouched` |
| `ConnectivityHooks_proofs` | `TypeCorrect`, `NoVpnShown`, `PlainKept`, `NoReentrance`, `ThreeDeep` | `TypeOK`, `CapsShowNoVpn`, `PlainNetworksKept`, `NoCallWithinItself`, and that at most three hooked calls are nested but for `MayCallItself`, which is only proved |
| `IfaceFilter_proofs` | `TypeCorrect`, `ListPlain`, `ArrayPlain`, `ResultPlain`, `TunnelsHidden` | `TypeOK`, `ListIsPlain`, `ArrayIsPlain`, `ResultIsPlain`, `TunnelsHiddenEverywhere` |
| `NativeLoader_proofs` | `TypeCorrect`, `Once`, `NeverStuck`, `Covers` | `TypeOK`, `InstalledOnce`, `FlagNeverStuck`, `FlagCoversLibrary` |
| `Relocation_proofs` | `TypeCorrect`, `CopyFits`, `InstructionsFound`, `HookReached`, `DecodedLength` | `TypeOK`, `CopyFitsBlock`, `AtInstruction`, `CallReachesHook`, and that the x64 decoder's length is the processor's, which is only proved |
| `Relocation_proofs`, copies on arm64 | `ValuesCopied`, `BranchesCopied`, `LabelLinked` | steps of `ImplementsOriginal`: what is emitted for an instruction does what the instruction does; only proved |
| `LogPipeline_proofs` | `TypeCorrect`, `LogRecent`, `LoggedListed` | `TypeOK`, `LogIsRecent`, `LoggedAppsAreListed` |

**FdTracker** (assumes `FdAssumption`, `FileAssumption`). `TablesFollowKernel`
is not inductive: it does not know that a descriptor has one owner, nor what a
half-done hook has left. `IInv` adds `OneOwner` (no two threads open or close
one descriptor), `OpeningInv` (while an opening hook has still to write, the
entries are clear, unless bypassed), `ClosingInv` (what a closing hook has
already cleared), `TableInv` (`TablesFollowKernel`, and that an entry a hook
wrote is right even on a bypassed descriptor), `ReadingInv` (an undisturbed read
still has its descriptor, and the sanitizers run so far are the right ones) and
`AppliedInv`. There is one lemma per action.

**LineSanitizer** (assumes `LineAssumption`, `InputAssumption`). `OriginInv`:
what counts of the buffer is from the input in order, and byte `j` of the rest
is byte `j + removed` of it. `LineInv`: `pos` is at the start of line number
`line_num` of the input. `DoneInv`: before `pos` is what is kept of the lines
already looked at. The step lemmas are about a line that stays and one that
goes; `LineUnique` says that a byte lies on one line. For `sanitize_status`,
`StatusInv`: once the number is found (`Number` of the input), it is hidden up to `pos`
and every other byte is the input's (`HiddenFrom`). The needle is in front of the
bytes that are overwritten, so that it stays the first one; `MaskedNumber`
says that where the loop ends the buffer is `Masked` of the input.

**ProcReader** (assumes also `FileAssumption`). The invariant of
`LineSanitizer` holds in every call, for `OrigRead` leads to one of its initial
states; with it goes `PieceInv`: the input of the call in progress is the
window of the file at `from`, and `at` is `from` until the call returns. The
refinement has a lemma per action: a turn of the loop leaves the contract's
variables alone, a return makes the step `Read(Len(input))`, whose `Yields` is
`ReturnsKeptBytes` of the state it leads to. For the two properties of the
results, `ResultsInv` says of each that it is what the contract makes of its
window. A line of the file that lies in a window is a line of the window with
fewer lines before it (`LineOfWindow`, `FewerLines`, by an injection between
the newlines before it); so it is judged by the same bytes and can only become
a header (`LineDelivered`). `TracerHidden` is stated on the bytes of the file, so its proof
moves the first needle of the window to its place in the file (`NeedleOfWindow`). It
names the first needle of a piece only: the value after a second one on the same line is overwritten with blanks only, as
`sanitize_status` does.

**Netlink** (assumes `NetlinkAssumption`). `MarksInv`: a mark, and the name of a
VPN in a received message, come from an interface that was a VPN's at some time
(`everVpn`), and every link that was hidden has left its mark if its index is in
the table. `AheadInv`: what the loop has not reached is as the kernel sent it.
Nothing of it speaks of one thread only, so that the marks of other threads,
and renames and deletions meanwhile, keep it.

**ConnectivityHooks** (assumes `NetAssumption`: finitely many networks, and
`VPN` is a transport that only a VPN has, added by `CapsOf`). The stack has no
bound in the invariant. `Called`: every frame but the innermost waits for the
call that the one above it is. `Nested`: the rank of a frame (2 for
`getActiveNetwork` and for `getLinkProperties` of a VPN, 1 for `getAllNetworks`, 0
for the rest) is larger than that of what it called, or both ask for the link of
a VPN that the hooks do not recognize, and then the app has asked for one too
(`Below`, `AskedForVpn`). Ranks have three values, so otherwise no call is
within itself and no more than three are nested. `Answers`: what was returned to
a waiting frame is right for its question. `FitFrames` says which frames a hook
can be in: `getAllNetworks` has seen a part of its array and kept its
plain networks (`KeepsPlain`), and only for a VPN whose interface name is not
hooked does `getLinkProperties` ask for anything.

**LogPipeline** (assumes `MaxAssumption`, `PipelineAssumption`). `IInv` adds
`ReportsInv`: the reports in flight and being received are of apps that are
hooked and started, and the app of the entry about to be recorded is already in
the preferences.

**IfaceFilter** (assumes `InputAssumption`). `ListInv`: `prev` points at `curr`,
every plain node before `prev` at the next plain one, what lies between `prev`
and `curr` is hidden, and the nodes from `curr` on are as libc linked them.
`ArrayInv` is the same for the places up to `valid` and from `i` on. `ResultInv`:
the result is the original's until the hook has returned, then the plain
interfaces in order (`Lists`). `Filtered` is a recursive function; that the
function exists (`Kept`) and what it computes (`FilteredLists`) is proved with the
least counterexample (`Least`), since the library's induction theorems cannot be
instantiated. The prefixes of each layer include those of the native one, so
that `TunnelsHiddenEverywhere` follows from the other three.

**NativeLoader** (`LoaderAssumption` for the types, nothing for the rest). `LockInv`: one call at a
time is past `getAndSet`, and while it is the flag is up and nothing is loaded;
so a library can only be loaded by that call, and only a call that loaded
nothing lowers the flag.

**Relocation** (assumes `ArenaAssumption`, that blocks have addresses other than 0, and
`CasesAssumption`: any set of well-formed fragments, of any length). `IInv` is
`CursorInv` (the loop is at an instruction or at the end, and what the trampoline
overwrites is within the fragment), `BufferInv` (what was emitted ends
before `size`, and what a label says refers to it has been emitted) and `BlockInv` (the block handed out is as long as the copy
and ends before the arena's next). None of it speaks of the thread, so that
its proof needs no processor: `Thread` disposes of every step of one. What is emitted
is a sequence of records placed at the sums of their lengths, a recursive
function (`Offsets`); `OffsetsExist` to `PlacedFits` say that it exists and
where the pieces lie, again by the least counterexample. `Emitted` and
`EmittedLabel` are about one turn of the loop, and each architecture has a lemma
on its actions (`Relocate64`, `Relocate32`, `RelocateX64`) that cites them once
per kind of instruction. `CopyFits` is about the block `GenRelocateCodeAndBranch`
hands out, on x64 after any number of attempts (`TryAgain`).
`DecodedLength` is what `InstructionsFound` needs on x64: for every opcode,
prefix, operand and length that `Described` allows, the decoder gets the length
that the processor has; one lemma per table of the decoder (`TableModrm`,
`TableImmediate1`, `TableImmediate2`), and `Displacement` and `Immediate` for the
bytes behind the opcode.

`HookReached` does need the processors; it also assumes `BitsAssumption` (fields have
bits) and `ReachAssumption` (`HookInReach`: the hook is not in the code under the
trampoline, on arm64 not on the one page that 6 tells of, on x64 near memory is within a
displacement of the jump and overlaps nothing). `HInv` adds to `IInv`: `CallInv`
(the trampoline that is written is `TrampolineOf` the fragment, and a thread in
the hooked function is `OnTheWay`: at an instruction of the trampoline with the
registers that the ones before it leave, or at the hook) and, for x64, `NearInv`
(the address of the hook is still where the jump looks for it: later
pieces of near memory are given away elsewhere, `NearFree`, and the copies lie above). Each
trampoline has a lemma on what it is made of (`NearTrampoline64`,
`FarTrampoline64`, `ArmTrampoline`, `ThumbTrampoline`) and each processor one
on a step of the thread (`Way64`, `Way32`, `WayX64`). `Page64` is the arithmetic of adrp and
add for any number of bits; it rests on `FieldOf` (a number within a field's
range survives the field) and so on laws of powers of two (`PowerDoubles`,
`PowerSum`), which come by counting subsets, without induction.

`ValuesCopied` and `BranchesCopied` are about one turn of the loop on arm64, in a
state of `CursorInv`, for an instruction whose fields have their bits
(`Encoded`). The first says that what adr, adrp and ldr literal emit, put at any
place, takes a thread (`Through`, a path of `Arm64Execute`) to what follows it,
with the registers that the instruction leaves at its own place but for `X17`
(`StandsFor`). `MovWords` is its arithmetic: movz and three movk make
any address of 64 bits; `PageMoved` and `SignExtended` decode the offsets. For a
literal, the address is of 64 bits and not of the copy's own data. The second
says the same of the branches, whose copy loads its target from a datum that is
yet to be placed: `BranchDoes` supposes the load linked to one, and `LabelLinked`
says that `RelocBind` links it, if the datum is within the megabyte that a
literal reaches. A conditional branch is turned around (`ConditionFlipped`), which
is why its condition has to have an opposite (`HasOpposite`): al and nv have none.

Only model-checked:

- `Terminates`, `ReaderFinishes`, `CallsReturn`, `CallsInstall`, `CallsGetThrough`,
  which hold under fairness: TLAPS does no liveness here and no ENABLED.
- Of `Relocation`, `ImplementsOriginal` as a whole. On arm64 its steps are proved
  for the kinds above, one instruction at a time; not proved is the invariant that
  joins them, of how copies, labels and data lie in the finished block, nor the
  like for ARM, Thumb and x64, where a proof has to execute every sequence that
  their code emits on processors of their own.

No module has a RECURSIVE operator.

## 6. What is not modelled

- What becomes of the nodes `hook_getifaddrs` unlinks: the caller's `freeifaddrs`
  no longer reaches them; memory is outside the model.
- Several iovecs of one `recvmsg`, and buffers that are not aligned: memory
  outside the buffer is outside the model.
- Of Dobby, memory allocation, patching (`code-patch-tool-posix.cc`: pages,
  protection, threads that run code while it is patched), the registry of hooks,
  instrumentation and symbols, and everything the build for Android leaves out:
  IA-32, Darwin, Windows, kernel mode, the deprecated disassembler. For
  `FdTracker` a `DobbyHook` is one step that may fail. The bulk of Dobby is
  encoders for instructions that nothing here emits, platforms that are not built
  and tables; this is why the map covers a small part of the repository.
- Instructions that relocation does not handle, or handles wrongly
  (`handled` is FALSE, or no fragment has them):
  - arm64: literals of 32 bits, signed or of SIMD registers are copied; b.al is
    inverted to b.nv; branches into the bytes under the trampoline. x17 is
    overwritten. A trampoline with adrp may be just out of range for the page
    when the distance is just under 2^32.
  - ARM: conditional literal loads and adr lose their condition, ldrb becomes
    ldr, the halfword bit of blx is dropped.
  - Thumb: b.cond becomes 0xe000, a plain b (`InstructionRelocationARM.cc:433`);
    so do svc and udf, which the same test takes
    for it (416-440; its `UNREACHABLE` only logs in a release build);
    adr, ldr.w and adr.w take a base that is not rounded to a word; adr.w jumps
    onto its own data; blx extends the sign from 24 of 25 bits; ldr.w to pc or of a
    byte; blx pc; add and cmp of pc (only mov is modelled); IT blocks; ARM code behind bx pc within the overwritten bytes.
  - ARM and Thumb: `RelocLabelFixup` compares addresses with offsets, so that
    branches into the overwritten bytes are not led into the copy
    (`InstructionRelocationARM.cc:874` says they are).
  - x64, decoding: one-byte opcodes 62, 82, A0-A3, C4, C5, C8, D8-DF, F6, F7, FF,
    rex.w B8-BF; prefix 66 with rex.w and a rip-relative operand, with 68 (push of an
    immediate) and with 0F 80-8F; SIB with mod 0 and base 5, or a base that the
    decoder takes for rbp or r13, which it numbers 7 and 14; and the two-byte
    opcodes `Undecodable2` of `X86Decode`. `Described` is the rest.
  - x64, relocating: jcc rel8 becomes opcode 80 (`InstructionRelocationX86Shared.cc:44`),
    loops and jrcxz become nothing, two-byte opcodes 70-7F, E0-E3, E8, E9, EB are
    taken for the one-byte jumps, near 0F 80-8F are copied as they are.

  Dobby's own tests expect some of these to work (`cpp/Dobby/tests`: `jz` rel8 in
  `test_insn_relo_x64.cpp:10-15`, `beq.w`, `cmp r0, pc`, `blx pc`, `adr.w` and
  `ldr.w` in `test_insn_relo_arm.cpp`). They are not built for the app. The
  `relocation` run says nothing of these kinds but that their copies fit.
- `ProxyHook`, `SystemPropertyHook`, `hasCapability`, `getTransportInfo`: each
  replaces one result, with no state and no call of another hook.
- User interface, theme, build files, `test_apps.py`.
- Contents: interface names, needles and paths are members of small sets.

## 7. Plan

Done in this order: `FdTracker`, `LineFilter` and `LineSanitizer`, `LogPipeline`,
`ConnectivityHooks`, `Netlink`, `IfaceFilter`, `NativeLoader`, then
`sanitize_status`, the contract `FilteredReader` with the refinement and its
proof, and relocation. Next:

1. Proofs about relocation, of which all but the refinement are done: on arm64
   the layout that joins the steps, then the steps on ARM, Thumb and x64.
2. `NativeLoader` composed with `FdTracker`'s `InstallHook`: the threads of the
   app run while `JNI_OnLoad` does.
