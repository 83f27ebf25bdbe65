# Formal models of pumptools

pumptools runs Pump It Up arcade games on ordinary PCs. A hook library (`<game>hook.so`) is preloaded
into the game, traps its `main`, pushes handlers onto chains of hooked library calls and then lets the
game run: its file, ioctl and libusb calls now pass through the handlers, which emulate the machine's
hardware (PIUIO boards, dongles, disks, USB sticks) and services (the profile server).

This directory models the parts of that code where steps of several actors, several calls or several
starts meet, checks the models with TLC and proves the central results with TLAPS. `PROJECT.json` lists
the components, runs, mutants, findings, hazards and theorems, and maps each definition to the lines it
models. Paths below are relative to `src/src/main/`.

To check a module: `tlc -config MCUsb.cfg MCUsb`; to check a proof: `tlapm HookProofs.tla`.

## 1. Inventory

### Hook core (`capnhook/hook/`)
- **State.** Per kind of call (`iohook`, `filehook`, `fshook`, `usbhook`): a table of handlers that grows
  by `realloc`, its length, a mutex, two atomics of a lazy initialisation (`initted`,
  `init_in_progress`), the addresses of the real functions; in every call a request packet (irp) with a
  cursor `next_handler`.
- **Operations.** `_cnh_*_init`, `cnh_*_push_handler`, `cnh_*_invoke_next`, `..._reset_advance`, and one
  function per hooked libc/libusb symbol that builds an irp, descends the chain and copies results back.
- **Interaction.** Everything else is a handler here. Any thread of the game may call at any time.
- **Hard.** The first calls of several threads race through the initialisation, after which a call asserts that
  it is done and a push does not; a push moves the table while another thread dispatches; handlers call down the chain repeatedly (`reset_advance`) and nest;
  every error number goes through two tables on its way back.
- **Correct if** the body of the initialisation runs once and before any use; a call visits the handlers
  in the order of their registration and each exactly where its caller expects; nothing registered is
  ever lost; a call that no handler claims reaches the real function unchanged, and so does its result.

### Handlers of file calls (`capnhook/hooklib/redir.c`, `hook/patch/`, `hook/*/profile-gen.c`, `hook/*/unlock*.c`)
- **State.** The table of redirections; position and latches of the faked `/dev/hdd`; latches of the
  faked list of mounts, of the settings that are unlocked and of the dongle's device; a flag per
  generator of profiles.
- **Hard.** Handlers make file calls of their own, which pass through them again; libc hands closed
  `FILE`s and descriptors out again, to another thread too; one position serves two handles.
- **Correct if** a game finds its files under its own names, a faked file is never taken for another, its
  reads stay inside, and a generator ends.

### USB stack (`capnhook/hooklib/usb-emu.c`, `usb-init-fix.c`, `hook/patch/piuio*.c`, `piubtn.c`, `io/`)
- **State.** Virtual devices with `enumerated` and `real_dev_avail`; libusb's bus and device lists, into
  which fake entries are linked; a saturating counter of `usb_init` calls; latched handles in the kernel
  hack and the exit handler; the driver's own device handle; the handle the game holds.
- **Operations.** init, find_busses, find_devices, open, reset, close, control message.
- **Hard.** Each layer keeps its own idea of what is open, across re-detection, failed resets and real
  boards behind emulated ones; boards are plugged in and pulled while the flag that says that one was seen is
  never reset; libusb may keep or drop what was injected; opening a real board takes five
  calls, any of which may fail while the board is pulled.
- **Correct if** each scan finds an emulated device exactly once and a native one that is plugged in, a
  handle that the game holds and that works is open in every layer below, latches hold only such handles,
  an emulated board never opens the real one, and a failed open gives back what it took.

### Frames and layouts of the boards (`hook/patch/piuio.c`, `piuio-khack.c`, `piuio-exit.c`, `piubtn.c`, `ptapi/io/*/real`, `ptapi/io/*/lxio`)
- **State.** Light and input blocks per sensor group, the selected group, the implementation's own
  buffers (keyboard: written by the X11 thread; LXIO: shared by two threads that poll).
- **Hard.** A frame is eight messages (four groups, out and in), the implementation is polled on one of
  them only, under the kernel hack one message of the game stands for all eight, and any transfer may fail
  or be short; every button and light has its bit in three layouts.
- **Correct if** a completed frame holds inputs sampled within this frame, each from its group, the lights
  reach the board, every bit means the same on both sides, and the game exits when test and service are
  held, and only then.

### Inputs of the player (`ptapi/io/*/joystick`, `ptapi/io/*/keyboard`, `io/util/joystick*.c`, `hook/patch/x11-event-loop.c`, `main-loop.c`)
- **State.** Sticks in the kernel with their queues, open sticks with button states, the array of active
  sticks; the map from keys to inputs; the X queue, the thread that reads it, the windows it serves; the
  configuration files of both, written by tools.
- **Hard.** Overflow of the kernel's queue, sticks pulled and put back, key repeats that look like
  releases, a thread that must end when its window is destroyed.
- **Correct if** what is held down reads as held, repeats and overflows included, the array never
  overflows, and destroying a window returns.

### Exceed (`hook/exc/`)
- **State.** Input words with edges that the game clears itself, light words; the eeprom and its file,
  rewritten in place with every write.
- **Correct if** each press is told once, and the eeprom survives restarts and power cuts as far as the
  write went.

### Profiles over the network (`pumpnet/lib/`, `hook/patch/net-profile.c`)
- **State.** Per player and file type a slot (dummy `FILE`, buffer, position, written flag, reference from
  the player's token) under one mutex; the server's files; a retry counter per transfer.
- **Operations.** get and put with up to ten attempts; open (read token, download), read, write, seek,
  close (upload), and local files for whoever has no token.
- **Hard.** Lost answers make the client repeat what the server already did; delayed puts overtake later
  ones; downloads and uploads fail half way; slots are found by a `FILE` address that libc
  reuses, to another thread too, and by a lookup that takes no mutex.
- **Correct if** a reported success is one the server agrees with, an edit ends up in the file of its
  player, a save is stored or the game is told otherwise, and slots and mutex are free afterwards.

### Start-up and options (`hook/<game>/main.c`, `options.c`, `util/options.c`, `capnhook/hook/lib-main.h`)
- **State.** The stages of `trap_before_main` left to do, the chains, loaded libraries, virtual devices;
  per game a table of options, a file of them and a struct of fields.
- **Hard.** Thirteen games each spell out an order of handlers that must fit, a table and a struct; any
  stage may end the process; child processes inherit the library.
- **Correct if** handlers are in the order their work needs and an option has the value the command line,
  else the file, else the table gives it.

### Dongles (`sec/microdog34/`, `sec/microdog40/`, `sec/hasp/`)
- **State.** A memory, a password, a table of learned keys, masks; a daemon thread with a socket at
  `/var/run/microdog/u.daemon`, a path that outlives the process; tagged objects of HASP messages.
- **Correct if** a dongle answers as it was taught and only to its password, a game that wants its
  dongle gets it whatever the last process left, and a message is read back as it was written.

### Tools and formats (`asset/{nx2,nxa,fex,nx}/`, `hook/propatch/usb-fix.c`)
- **State.** The two files of a profile, plain and encrypted, with checksums; the settings; the links of
  block devices in `/sys/block`.
- **Correct if** a whole profile that went through the tools unedited is the one the game saved, and a drive is found at the port of its player.

### Not modelled
- `crypt/`: AES and MD5, published algorithms out of reach of TLC at their widths. `Dogs` takes an AES
  block to be readable under its own key only.
- Sound, system and crash patches, `gfx.c`, `block-keyboard-grab.c`, `usb-mnt.c`, `usbfs.c`, `usb-unlock.c`,
  the blacklist: each answers or rewrites one call with fixed data and keeps no state.
- The HASP server and its handler (the handler is a stub that logs), `sec/hasp/old/`, `hasp.c` and `hasp2.c`
  (tables of constants), the lockchip (arithmetic on a key), `login-req.c` (not compiled).
- The overrides of MK3 (`config.c` answers from its options, `fmodex.c` forwards, `1st-2nd-fs-fix.c` replaces one
  directory name) and `ogl-fix.c`.
- Memory patches (tables of addresses), symbols overridden at load time, signal handlers (they log), the log,
  sockets and sound libraries.
- The command line client of pumpnet (one call of the library) and the text of its token file; the fields of
  profiles and their printing; the format of f2, for which there is no tool.
- Vendored code (cmocka, the fmodex headers) and the tests, which are read as documentation.

## 2. Modules

| Module | Models | Variables and actions |
|---|---|---|
| `HookInit` | lazy initialisation of a hook module and the mutex in `invoke_next` and `push_handler` (`iohook.c`) | the atomics, the mutex, one action per atomic access of a thread |
| `HookChain` | push, dispatch and reset-advance (`usbhook.c`) | table, length, lock; per thread its irp with the cursor and the frames of active handlers |
| `HandlerChain` | what `HookChain` promises: a list that only grows and calls that descend it in order | abstract |
| `HookResults` | the two tables between error numbers and results (`result.c`) | operators |
| `FileCalls` | the hooked calls of `filehook.c`, `iohook.c` and `fshook.c` with their irps, results and `errno` | streams, descriptors, the disk, per thread a stack of calls |
| `GameFiles` | the handlers of file calls, for the chains that games build of them | the handlers' latches, position and flags |
| `FileTree` | what `GameFiles` promises: files under the names that the game uses | abstract |
| `UsbStack` | enumeration, open, reset and close through the stacked handlers | one action per libusb call of the game; boards that come and go |
| `PiuioFrame` | a frame message by message; native board, real board behind the emulation, keyboard | player, blocks, board, handlers |
| `IoBoards` | the blocks of PIUIO, PIUBTN and LXIO bit by bit, through patch and library | blocks, library buffers, the polling threads |
| `IoUsb` | a driver that opens and closes its board over libusb-1.0, call by call | board, contexts, handles, claimed interfaces |
| `Joysticks` | the joystick libraries, the kernel's queues, and the tools | sticks, queues, states, active sticks, files |
| `Keyboard` | the keyboard libraries, the X11 queue and event loop thread, and the tools | keys, queue, buffers, thread, windows |
| `Exceed` | inputs, edges, lights and eeprom of Exceed | words, eeprom, its file |
| `Pumpnet` | one thread's get/put with retries over a network that loses, delays and duplicates | attempts, requests and answers on the wire |
| `ProfileServer` | what `Pumpnet` promises: each call takes effect at one moment, a failed put now, later or never | abstract |
| `NetProfile` | slots, mutex and transfers of profile files, used by threads of the game | slots, `FILE`s, server store |
| `VirtualFile` | position, lengths and copies of one profile buffer in 32-bit arithmetic | position, buffer, flag |
| `FixedFile` | what `VirtualFile` promises: a file of a fixed size | abstract |
| `Options` | the tables of all games, the options file, the command line, the fields | operators |
| `GameStart` | the stages of all thirteen games | options, stages left, chains, devices |
| `Microdog40d` | the dongle daemon of each process and the socket path | daemon phase, owner of the path |
| `GameProcess` | composition of these three: starts, ends, restarts, children with the hooks | all, plus whether a child took over |
| `Dogs` | requests and answers of microdog 3.4 and 4.0 | memory, password, table; next to them what was taught |
| `HaspAsn1` | encoding and decoding of HASP messages | store, buffer, offset |
| `UsbFix` | the links of block devices as Pump Pro is shown them | options, names, drives |
| `ProfileTool` | the tools on profiles and settings | files, and what they are copies of |
| `MC*` | instances for TLC; `MCUsb` has `HookInit`, `HookChain` and what is on the usb ports, `MCGameFiles` also `PiuioFrame`, `MCParts` the rest that shares nothing | |
| `*Proofs` | theorems: `UsbProofs` of `UsbStack`, `IoUsb`, `UsbFix`, `IoBoards` and `Dogs`, `PartsProofs` of `VirtualFile`, `Exceed`, `Keyboard`, `Joysticks`, `ProfileTool` and `HaspAsn1`, the others of the module of that name | |

Correspondences that a reader should know:

- In `HookInit` and `HookChain` a step is one access to shared memory or one call on the mutex. In
  `UsbStack` a step is a whole call, because the game makes these one after the other; the descent through
  the chain is `HookChain`'s business, whose mutex excludes where `LockExclusion` of `HookInit` says so. In `PiuioFrame` a step is one message or one transfer. In `FileCalls`
  a step is one handler's work up to the next call it makes, so that two threads interleave between handlers.
- In `HookInit` a thread calls a hooked function or pushes a handler. The first asserts that the module is
  initialised before it locks, the second does not: it can lock the zeroed mutex, which the winner of the
  compare-exchange then initialises in its hands. `early` remembers that this can have happened; `LockExclusion`
  is claimed up to there. At start-up no thread of the game is there yet, and every push of the repository is made then.
- `FileCalls` leaves contents out: bytes are counted, and a written file is `partial` until its close and
  `complete` after it. Real calls fail at any time with the suite's error numbers. Calls that have no defined
  behaviour are not made: `fread` and `fwrite` with size 0 (the code divides by it), `fwrite` with no stream,
  `opendir` and `xstat` without a path. Files are renamed or removed while they are closed, only the
  descriptor of `/dev/hdd` is given a stream, and seeks end outside the boot area or at its ends.
- `GameFiles` takes six games' chains as the code builds them, with every handler of a file call. The latch
  of the usb dog is cleared after its descriptor is free, so that another thread may get the number in
  between; two threads are not run against that one (its hazard has the note).
- `UsbStack` assumes of the game: it calls `usb_find_busses` before each `usb_find_devices`, repeats
  `usb_init` only after a first scan, closes a handle whose reset failed, opens an already open device
  only if the kernel hack has latched it. What libusb does with entries it did not create is chosen in the
  initial state. A board may be plugged in or pulled between any two calls (`MoveBoard`); libusb shows at its next scan
  what is there then, a handle of a pulled board stays open, and its reset fails. `moved` remembers whose board came or went
  after the first scan, for what `DevicesAreFound` leaves out: an emulated device that was seen real and is pulled is not
  found any more (section 4), and one that is plugged in next to a fake that libusb kept is found twice.
- `PiuioFrame` abstracts a block to who wrote it: the light value and sensor group that a block of outputs
  carries, the pressed buttons that a block of inputs shows. `IoBoards` holds the bits and the short transfers.
- In `Pumpnet` every attempt has its own connection. `Answered(complete = FALSE)` stands for truncated
  replies and for replies of the wrong size. A put that the client has given up on may stay on the wire
  and be applied later; the abstract server shows that openly as `ApplyLate`.
- In `NetProfile` libc hands out any closed `FILE`, also one that `destroy_virtual_file` has closed and whose slot it is
  about to clear. From then on (`overtaken`) two threads' calls may meet in one slot: they wait for the mutex there, find
  the slot cleared and crash (`SlotIsGone`), as the code does. The promises of the module are made up to that moment; the
  run `net_profile_race` shows what comes after it. No file of a player is opened by two threads at the same time.
- `VirtualFile` assumes that the game seeks within the file (`MaxOffset = 0` beyond its end); beyond it the
  code's unsigned difference wraps.
- `GameStart` leaves out stages that push nothing, load nothing and cannot end the process. A process that
  has called `exit` or crashed still exists for a step: its daemon may run until the process is gone.
- `Options` has each game's table as its `options.c` has it. A value is a string whatever its type.
- `Joysticks` and `Keyboard` include the tools that write their configuration, run while the game is not.
  A button state that the code allocates and does not set is any state. A button has
  what the last of the events taken says of it (`Applied`).
- `Dogs` keeps beside the emulator a dongle that knows no masks and no tables; the property compares the two.
  `ProfileTool` notes in `taken` which plain file is an unedited copy of which of the game's files, and in `padded` which was
  made from one that was shorter, as only the tool of FEX does: the end of such a file is what memory held.
- Bitwise exclusive or is a constant (`XorWord`, `XorByte`) of which `Dogs` and `ProfileTool` assume only that it
  undoes itself and stays in range; the instances of TLC give the real one. The halves of a checksum are
  one byte, so that the prime of `util_adler32_calc` is 251 (`MOD_ADLER`) where the code's is 65521.
- `HaspAsn1` writes no message that is longer than the buffer that the code assembles it in (`BUFFER_TMP`), and
  its stores have a place for each object (`AsnAssumption`), as those of the server have.

## 3. Runs

| Run | Question | Instance and why it is enough |
|---|---|---|
| `hook_init_assert` | **violation:** the assertion after the wait | 3 threads |
| `files` | Do unclaimed calls pass through, are faked files kept apart, do generators end, are files under the game's names? Are the frames of the PIUIO fresh, do lights arrive, does the exit work? | 15 suites over six hooks, one thread with any of its calls or two that share files; 2 streams and 2 descriptors, so that numbers come back at once; calls nest to 4; a disk of 5,120 bytes has all three areas. Frames with 4 sensor groups as in the code, 2 moves of the player, 3 sources (687,883 states) |
| `pumpnet` | Is the client, with retries over a bad network, an implementation of `ProfileServer`? | 2 threads on one file, two values, 2 and 1 calls, 2 attempts: a lost answer followed by an overtaking put occurs |
| `net_profile` | Do edits reach the right file, and are slots and mutex left free? | 2 players and 2 types, 2 threads, two opens each, `FILE`s reused, early too; after that one more open is followed (`LateOpens`) (2,269,150 states) |
| `net_profile_reopen` | **violation:** a closed profile can be opened again | 1 thread |
| `net_profile_race` | **violation:** who destroys a profile file finds it set up | 2 threads |
| `usb` | Is what the hook publishes ready, does its mutex exclude, does dispatch follow the registered order while handlers are pushed? Are devices found, open where held, real ones suppressed; and what else is on the usb ports, each on its own | PIUIO and PIUBTN, every set of handlers, a PIUIO that is plugged in and pulled, 4 scans (the counter saturates at 2), and the suites below (383,342 states) |
| `usb_reset_driver` | **violation:** held handles are open, with the real driver below | PIUIO and PIUBTN as above |
| `piuio_frame_exit` | **violation:** the game exits only on its buttons | native path |
| `game_process` | Are options as meant, handlers ordered, and does the dongle come up after any end? | all 13 games with their tables, 5 command lines, 7 options files (one missing, some with empty values), restarts without bound, old children (501,139 states) |
| `parts` | The other parts that share nothing, each on its own | the suites below (300,665 states) |
| `fex_profile_padded` | **violation:** a whole profile that the tool of FEX encrypts is the game's | the suite `tool`, FEX |

The suites of `usb` and of `parts`:

| Run | Suite | Instance |
|---|---|---|
| `usb` | `lazy_init` | `HookInit`: 3 threads (winner, loser in the wait, late comer), each of which calls a hooked function or pushes |
| `usb` | `dispatch` | `HookChain`: 2 threads, 2 handlers and the real function, each call with reset-advance, `SIZE_MAX` reached |
| `usb` | `stack` | the handlers of the PIUIO and the PIUBTN, as in `usb_reset_driver` without the real driver |
| `usb` | `boards`, `lights` | every input and light bit on in one block and off in another, inputs and lights varied one at a time; two threads on the LXIO without unplugging and with group 0 |
| `usb` | `driver` | a board plugged in up to 3 times |
| `usb` | `dogs` | words of 4 bits, memory of 2, 5 keys, opcodes by their low 4 bits, two mask keys |
| `usb` | `usb_fix` | 2 names, 7 sockets with and without bridge and hub, 24 sets of options |
| `parts` | `joysticks` | 2 sticks of one model with a button each, 2 places, 2 inputs, a kernel queue of 2: overflow and exchange of places occur, and a file has an entry for a stick of that model at each place; the tool and the game one at a time, and only the last input is skipped |
| `parts` | `keyboard`, `key_tool` | 2 keys, one of them known to the game, 2 events in the queue, two windows if the thread reads and one if the game does |
| `parts` | `exceed`, `eeprom` | 4 sets of held inputs; an eeprom of 3 bytes, writes of 0 to 4, files from elsewhere shorter and longer |
| `parts` | `file` | a file of 3, words modulo 16, transfers to 4: crosses the end and wraps |
| `parts` | `asn1` | the server's two messages and one with strings; the numbers and lengths at which a byte is added, a sign changes or a length changes its form, but for those that the code is known to misread (section 4) |
| `parts` | `tool`, `settings` | NX2 and FEX with bytes that cross the checksum's modulus, one failing save at a time, edits and putting back the unedited file for NX2 |

Deadlock is checked in `usb`, `usb_reset_driver`, `game_process` and `files` (but for the hook, whose calls are
bounded, and for frames once the game has exited). The others may stop: a thread has made its calls (`MaxCalls`, `MaxOpens`), the game has exited, or a part has ended. Each bound
(`MaxTries`, `MaxCalls`, `MaxOpens`, `MaxEdits`, `MaxMoves`, `MaxScans`, `RETRY_COUNT_ON_ERROR`, `MaxDepth`, `MaxHandles`,
`MaxQueue`, `MaxPlugs`, `MaxDogKeys`) is a constant that appears in guards only; `LateOpens` is the one constraint, on states in
which `NetProfile` promises nothing any more. In `files` the suites with two threads
that generate profiles have no other errors of real calls.

Every property of a passing run has a mutant: an operator in the module, marked `Mutation`, that changes
one definition in the way a plausible slip in the code would, under which TLC finds the property violated.
Type invariants, and some invariants of the hook core and of the virtual file that are proved for all sizes, are not
repeated by a run.

### Fairness
`game_process` assumes that the daemon thread of a process is scheduled until it receives;
nothing is assumed of the game. `parts` assumes that the event loop thread of X11 is scheduled, and that a thread waiting to join a finished one
is; nothing is assumed of the player or of the server. The other runs check safety and refinement without fairness.

## 4. Findings

| Run | What the code does |
|---|---|
| `hook_init_assert` | The loser of the compare-exchange waits while the flag is `> 1`, a value it never takes, so it goes on before the winner is done; the assertion of `invoke_next` fails (`capnhook/hook/iohook.c:412`). `push_handler` (line 98) has none, and locks a mutex that the winner initialises later. |
| `net_profile_reopen` | `get_virtual_mnt_point` looks a handle up in `_patch_net_profile_virtual_mnt_points->files[j]` and ignores the index of the player. A handle of the second player is not found: its close goes to the real `fclose`, the slot stays occupied, and the next open of the file dies in `log_assert(!virtual_file->handle)` (`hook/patch/net-profile.c:329`). |
| `net_profile_race` | `destroy_virtual_file` closes the `FILE` of a slot before it forgets it. `fopen` and the lookup of a handle take no mutex, so another thread can be given that `FILE`; its close is taken for the one of the slot and finds it cleared (`hook/patch/net-profile.c:413`). |
| `usb_reset_driver` | The driver frees its handle on close without forgetting it; the open of the following reset reports success (`io/piuio/device.c:95`). |
| `piuio_frame_exit` | The exit handler reads the buttons of a read that failed; under the kernel hack the buffer still holds outputs, which read as both buttons pressed (`hook/patch/piuio-exit.c:54`). |
| `fex_profile_padded` | `util_file_save` drops the result of its last `fclose`; the FEX loaders check no size (the check is a comment), so that a decrypted file that was cut off is padded from memory and encrypted whole (`asset/fex/lib/util.c:40`). |

Met while reading, and not shown by a run. The models follow the code in each of these, or leave the input out where it has
no defined outcome:

- Start and options: the options file is created with the two log options only, since the log settings read it first
  (`util/options.c:521`); a child is logged as "Not attaching" and attached (`hook/core/piu-utils.c`); three games accept
  the options of the profile server and ignore them; an emulated board is added although its library was not loaded
  (`hook/patch/piubtn.c:94`).
- Messages of HASP: the length of a number is counted before its padding (`sec/hasp/lib/asn1.c:66`); lengths of 129 and 130 are
  read as forms of a length; times after 2038 are negative. The server closes one descriptor twice and leaks another.
- Boards: `real_dev_avail` is set when a scan comes across the real board of an emulated device, and never reset; after the
  board is pulled nothing is injected for it, and the game finds no device (`capnhook/hooklib/usb-emu.c:218`);
  `patch/piubtn.c` numbers two lights the other way round than the comment of its `real` library; one light and the second coin are lost
  on the LXIO and the real board; two threads on the LXIO can see a press that was none, or success after it was unplugged
  (`ptapi/io/piuio/lxio/lxio.c:242`); `transferred` is read unset after some errors (`io/util/usb.c:188`); closing a device that was not opened
  uses a null or freed handle.
- Inputs: the Delete key is beyond the key map that `doc/api/io/piuio.md` describes; a joystick library reports the last stick's
  result for all; the tool's menu is off by one; NumLock or AltGr changed while a key is held leaves it held; success of
  `XInitThreads` is logged as failure (`hook/patch/x11-event-loop.c:177`); Exceed does not clear inputs per group.
- Files: a read of size 0 divides by zero; short writes of the eeprom drop its tail, and it is rewritten in place.
- Tools: the one of NX unlocks after a failed load; unset fields of a new FEX file are saved.
- Dongles: unmasked response keys of microdog 4.0 are unset memory; an incomplete key file leaves no table.
- Pump Pro's usb fix refuses paths behind two hubs.

## 5. Proofs

All theorems hold for every value of the constants under the named assumptions of the module.

- **`HookProofs`** (`HookInit`, `HookChain`):
  - `HookInit`, any set of threads: types, `InitOnce`, `PublishedIsReady`, `LockExclusion`,
    `MutexInitialisedOnce`. None is inductive: the invariant adds that `init_in_progress` is a lock on the region
    between the compare-exchange and the release (`Owner`), what the owner has done at each step (`Progress`), and
    that, unless a push went on `early`, a mutex was only taken after publication (`Holder`). The last one needs the assertion
    in `invoke_next`: in a build without assertions the mutex may be initialised while a hooked call holds it too.
  - `HookChain`, any threads, handlers, bounds: types, `TableIsFilled`, `CursorIsInTable`,
    `VisitsInOrder`, `PushedStays`, and that `HookChain` implements `HandlerChain`. The key of the invariant is that the
    cursor of a call equals the number of its active handlers whenever the innermost one may pass it on; each frame remembers
    the depth to restore.
- **`UsbProofs`** (`UsbStack`, `IoUsb`, `UsbFix`, `IoBoards`, `Dogs`):
  - `UsbStack`, any devices and handlers: types; latches hold held handles; an emulated device is never the real one; held
    handles are open, under the hypothesis that implementations open afresh (which is what `usb_reset_driver` refutes for the
    real driver); `DevicesAreFound`, of each scan, whatever boards were plugged in or pulled. The invariant adds that a handle belongs to its device, that a finished scan has enumerated
    every virtual device, and of the lists (`ListInv`) that an entry is on the bus of the handler that injected it and that a
    count of initialisations below its limit means that libusb still lists what was injected, all of it but for the devices
    whose board has `moved`.
  - `IoUsb`: `OpenIsAllOrNothing`. The invariant says for each step of an open what has been taken so far.
  - `UsbFix`, any sockets, drives and order of plugging: `DrivesAreTheirPlayers`. It assumes that two sockets are two places
    (`SocketsArePlaces`), and rests on lemmas of what the code cuts out of the path of a link.
  - `IoBoards`, any blocks of lights and presses: `BoardsAgree`. The layout lemmas say that each conversion and its counterpart
    are the same relation of bits; the invariant follows the bits through blocks, library buffers and the inversion in place, and
    says which of them may be wrong once two calls have overlapped.
  - `Dogs`, any size of the memory, keys, tables and requests: `DogAnswersAsTaught`. Assumed: exclusive or undoes itself on words
    (`XorAssumption`), and requests stay within the memory and send what they announce (`DogAssumption`). The invariant says
    that the two have the same memory and password, and that the table answers a request exactly when an answer was taught, with the
    first one; a lemma says that a mask applied twice is gone.
- **`PiuioFrameProofs`** (any number of sensor groups, lights and moves): types, `FrameIsFresh`,
  `LightsReachBoard`, `HoldingExits`, `EmulatedExitIsAsked`. The invariant says what each buffer between board and game
  holds up to the group of the current message.
- **`GameFilesProofs`** (any threads, suites of calls, paths, handles, depth of calls and size of the faked disk): types, `PassThrough`,
  `LatchesHoldOpenHandles`, `HddReadsInside`, `GenerationEnds`. One invariant carries all of them, since handlers call the file
  functions again and libc gives numbers out again. It says what each frame of a thread's stack can hold at its place in the
  chain (`IsRedirected`, `IsUntouched`, `IsReal`), that a handle belongs to the thread that opened it and to the generator that
  holds it over a write (`HoldsAt`), and of the latches (`LatchOpen`, `LatchAt`) that what they name is open, or being closed by
  a call that has yet to come to the handler that will forget it. Assumed of the calls of a game (`SuitesAreCalls`): seeks end
  inside the boot area, `NULL` is only given where it is checked; and that a thread that opens the usb dog makes all of the
  calls (`DogsAreAlone`: the hazard of its latch is real otherwise).
  The module also proves that `GameFiles` implements `FileTree` (`TreeAsRedirected`): each step of a handler or of a real function
  is a change that the game asked for by its own name of the file, or none. `NamesInv` adds to the invariant that every call on the
  way down, also one that a generator makes, knows what it may change by a name (`NamedFrames`), and so does every stream opened to
  write (`NamedStreams`). Assumed (`NamesAreOfFiles`): no two names that a game writes, renames or removes are redirected to one
  file, and no redirection leads away from where profiles are opened. The second keeps what a generator writes under the name that
  the game used: profiles are on the sticks, under `/mnt/0` and `/mnt/1` (`patch/net-profile.c:86`), from which nothing is redirected.
- **`PartsProofs`** (`VirtualFile`, `Exceed`, `Keyboard`, `Joysticks`, `ProfileTool`, `HaspAsn1`):
  - `VirtualFile`, any file size and word width, seeks within the file: copies stay within the
    buffer, and the stream implements `FixedFile`. The invariant says that the position never leaves the file, without which
    the modular difference is not the rest of the file.
  - `Exceed`, any inputs and any size of the eeprom: `PressesAreCounted` and `EepromSurvives`. The first adds what the edges of a frame
    say of the inputs before it, the second that the file is a prefix of memory except between its truncation and the write's end.
  - `Keyboard`, any libraries, keys, windows and length of the queue: `InputsFollowKeys`. The invariant is about the events still
    queued: those of a key alternate but for repeats, whose two halves stand next to each other (`Leads`, `DropsARepeat`), so that
    taking them in order leads from what the buffer shows to what is down (`Followed`). Assumed: each key has a symbol, and none has that of an unset key.
  - `Joysticks`, any sticks, buttons, places, files and size of the kernel's queue: `PressedIsHeld` and `ActiveFits`. The invariant
    says that the events still queued lead from the states that the library has of a stick, once the kernel has announced it, to what is
    held, and that every configuration, in a file, in use or in the tool, has one entry for a stick. Assumed
    (`JoystickAssumption`): so do the files that were there before.
  - `ProfileTool`, any bytes: `ProfilesSurvive`. The invariant (`ToolInv`) says that an encrypted copy comes from a decrypted one,
    which is the game's file decrypted for as long as nobody edits it, or was padded, and that only FEX pads. It rests on a lemma that encrypting undoes
    decrypting, byte after byte. Assumed (`ToolAssumption`): exclusive or undoes itself on bytes.
  - `HaspAsn1`, any messages, values and bytes behind the message: `MessagesSurvive`. Lemmas say that each tag, length and content
    is read back where it was written, and that a flattened sequence has its parts one behind the other
    (`FlattenPlaced`). The invariant (`AsnInv`) says that the store holds what was given, the buffer what the
    store holds, and that the reader stands at the start of an object, with all before it as given and
    all behind it still empty (`ReadSoFar`).
- **`PumpnetProofs`** (any threads, files, values, number of retries): `PumpInvariant`, and that the client over its network implements
  `ProfileServer`. The invariant says of each attempt and of each answer on the wire what it can still do to the server and what the
  caller will be told of it; a put that was given up is one the server may still apply.
- **`NetProfileProofs`** (any players, files, threads, handles): `SavedOrReported`, `EditsReachTheirFile`, `HandleLeadsToItsFile`,
  `NothingIsLeftHeld`. The invariant ties a slot to the one open `FILE` it was set up for, and the mutex to the phase of its owner; it is kept by
  every step but one that makes `overtaken` true, and `NetInvariant` is `[](overtaken \/ NetInv)`.
- **`GameProcessProofs`** (any set of options, arguments, devices): `HandlersInOrder`, `OwnDongle`, `RestartBinds`, `OptionsAsMeant`. The first goes through the stages of
  each game with what has been pushed at each of them (`OrderInv`); the others rest on who owns the socket path in which phase of the
  daemon (`DaemonInv`), over restarts and as long as no child has taken it over. Assumed: games with a table of options are those with stages.
  The last holds for any command lines and options files, words and lines of any number: `FieldsInv` says that filled fields have the value
  that was meant, over the stages that `OrderInv` keeps count of. Its lemmas are about the loops over words and lines;
  the tables of the games have each name once and no empty letter.

Loops over data (words, bytes, objects, sticks) are recursive functions or folds. The library's induction theorems take an
operator, which the provers cannot instantiate; the lemmas instead take the set of the numbers at which the claim fails and
its least element (`LeastOf`, from the well-foundedness of `<`), and show that there is none.

Properties were checked by TLC before they were proved; of the invariants, those that TLC can evaluate. Every safety
invariant and refinement of the passing runs has its theorem. What stays with TLC is liveness: `DongleComesUp` and
`DestroyReturns`. Fairness and `ENABLED` are out of the prover's reach. TLC also evaluates that the
constants of the instances (the bitwise exclusive or, the tables of the games) satisfy the assumptions.

## 6. Hazards
`PROJECT.json` lists what is hard to test, each at its line, with the properties that cover it. Three have none, for
the reason in their notes: a server that never answers while curl has no timeout, the latch of the usb dog that outlives its descriptor, and two threads of Pump Pro that
enumerate devices at once.

## 7. Plan

Done: hook core, USB stack, frames and layouts, network profiles, start-up with options and dongle, file calls, inputs,
Exceed, formats. What is left:

1. **Proofs.** The composition of `HookInit` with `HookChain`, where every dispatch happens after the initialisation.
2. **Extensions.** Short transfers within `PiuioFrame`; the two threads of Pump Pro on one list of devices.
