# libdvdcss in TLA+

Models of libdvdcss, the TLC runs that check them on small instances, and
proofs that TLAPS checks for every value of the constants. Paths such as
`css.c` are files of `src/` in the repository.

## 1. The system

libdvdcss gives a player access to a DVD as if it were a block device: open,
seek, read, close. To descramble blocks it needs a *title key*, which the drive
hands over only after a mutual authentication, encrypted with the *disc key*,
which is itself on the disc. Where that fails the library guesses the key from
the blocks ("cracking"). There are no threads inside the library; what is
concurrent are the processes (or handles of one process) that share a drive and a
key cache directory, and everything the library calls may fail.

| Component | State | Operations | Talks to |
|---|---|---|---|
| Authentication and key exchange (`css.c`: `dvdcss_test`, `GetBusKey`, `GetASF`, `dvdcss_disckey`, `dvdcss_titlekey`) | `css.i_agid`, `p_bus_key`, `p_disc_key`, `p_title_key`, `i_method`, `b_scrambled`, `b_ioctls` | open, title key request with its fallbacks | the drive, one ioctl at a time; the crack engine; the device (read and reset after a failure) |
| ioctl layer (`ioctl.c`) and the drive | in the drive: AGIDs, the stage of the authentication of each, its challenge, the authentication success flag (ASF) | the ten commands | answers, refuses or fails |
| Title key list and key cache (`css.c`: `dvdcss_title`) | `p_titles` (a sorted list), `css.p_title_key` (the key in force), one file per title | a key for a block | the key exchange; files shared by all handles of the disc |
| Block devices (`device.c`, and its callers in `libdvdcss.c`) | `i_pos`, `i_fd`, the device's offset | seek, read, readv, close and reopen | the descriptor, or the application's stream callbacks |
| Title key cracking (`css.c`: `CrackTitleKey`, `AttackPattern`) | loop variables, the file-scope counters `i_tries`, `i_success` | crack | the device; every other crack in the process, by the counters |
| Ciphers (`css.c`: `CryptKey`, `DecryptKey`, `dvdcss_unscramble`, `RecoverTitleKey`) | none | | |
| Library interface (`libdvdcss.c`) | the handle: method, keys, flags | `dvdcss_open`, `_seek`, `_read`, `_readv`, `_close` | all of the above |
| Cache directory set-up (`libdvdcss.c`: `set_cache_directory`, `init_cache_dir`, `create_cache_subdir`) | `psz_cachefile`, `psz_block`, the directories | at open | the file system, which all processes share |
| Error output (`error.c`) | `psz_error` | | |

What is hard, and which property speaks of it:

- **A drive shared by processes that do not know of each other.** `GetBusKey`
  takes an AGID; when none is granted it invalidates AGIDs one after the other, and
  any of them may be one that another process is using, at any stage. `OwnSession`,
  `OnlyHolderEndsSession`, `DiscKeyVerified`, `StoredKeyValid`.
- **A command that fails, with or without effect, in the middle of a protocol**,
  and the way back. `AgidReleased`, `HungAgidsRecovered`,
  `WrongKeyOnlyWithoutDiscKey`; that the retries and fallbacks end, `CallReturns`,
  `CallDescends`.
- **A process killed in the middle.** The drive and the cache directory remember.
  `OwnSession`, `ListedKeysGenuine`, `FilesKept`.
- **Two handles that miss the same cache file**, get keys of their own and write it,
  one over the other, perhaps half. `ListedKeysGenuine`, `FilesKept`, `TableSpec`.
- **A sorted list walked by two loops with different stop conditions.** `ListSorted`,
  `KeyInForce`.
- **A cached position.** A seek to `i_pos` makes no system call, so `i_pos` must be
  right after each failure, partial read and reset. `PosAgrees`, `FileCursor`.
- **A search whose result is judged by a counter of the whole process**, over a drive
  that fails to seek and to read. `SuccessIsOwn`, `KeyOfTitle`, `UnencryptedSeen`,
  `NothingMissed`, `CrackReturns`, `CrackDescends`.
- **The key in force.** It is one field of the handle, set by some seeks and used by
  reads; seeks fail, and a failure in the middle of one may change the method that
  later seeks go by. `KeyInPlace`, `KeyedNotGarbled`.
- **A cache directory named after the disc key**, or after no key; discs of the same
  name meet in it. `KeyedDirsGenuine`, `NothingGarbled`.
- **A path built in place in a fixed buffer, on directories that others make at the
  same time.** `FitsBuffer`, `CacheUsable`, `CacheKept`.
- **Buffers of a vectored read**, empty ones and such as are not of whole blocks.
  `ReadvInPlace`.

`PROJECT.json` lists every hazard with its line and the properties that cover it.

## 2. The modules

| Module | Models |
|---|---|
| `Ioctl` | the drive, and each `ioctl_X` function as a relation between the drive before and after the command, its arguments and whether it succeeded |
| `CssAuth` (extends `Ioctl`) | the hosts: `dvdcss_open_common` from `dvdcss_test` on, `GetBusKey`, `dvdcss_disckey`, `dvdcss_titlekey`, `dvdcss_close` |
| `MCCssAuth` | its instances |
| `CssAuthProofs` | `TypeOK` and `DiscKeyVerified`, any number of hosts |
| `CssAuthSoleHost` | `OwnSession`, `KeysUnhidden`, `WrongKeyOnlyWithoutDiscKey`, `HungAgidsRecovered` for a host that has the drive to itself |
| `CssAuthManyHosts` | `AgidReleased` and `CallDescends` for any number of hosts; `OwnSession`, `OnlyHolderEndsSession`, `ClassicWaySuffices`, `KeysUnhidden`, `StoredKeyValid` where the drive has an AGID for each |
| `KeyTable` | abstract: what a handle's title keys are to its user |
| `TitleKeys` | `dvdcss_title`, line by line: the list, the cache file; implements `KeyTable` |
| `MCTitleKeys` | its instances |
| `TitleKeysProofs` | all six properties of `TitleKeys`, `TableSpec` among them, any handles, blocks and keys |
| `BlockCursor` | abstract: what a handle's position is to its user |
| `BlockDevice` | the libc and stream functions of `device.c` and the reset in `CrackTitleKey`; on a descriptor it implements `BlockCursor` |
| `BlockDeviceProofs` | `PosAgrees` and `FileCursor`, any device, any block size |
| `CrackTitle` (instantiates `BlockDevice`) | `CrackTitleKey` block by block, threads of one process |
| `MCCrackTitle` | its instance |
| `CrackTitleProofs` | `TypeOK`, four invariants and `CrackDescends`, any threads, disc, limits and faults |
| `CacheDir` | `init_cache`, one system call a step, processes on one file system |
| `CacheDirProofs` | its invariants, step by step, any `PATH_MAX`, names and handles; used by `DvdcssProofs` |
| `Dvdcss` (extends `CacheDir`) | the calls of the library over the outcomes of all parts |
| `MCDvdcss` | its instances |
| `DvdcssProofs` | all eight of its invariants, any handles, discs, blocks, titles and buffers |

### CssAuth and Ioctl

`pc[h]` is the drive command that host `h` issues next. One action is that command
and the code from its answer to the next command, so hosts interleave at every
command and nowhere else: between two commands `css.c` touches only its own handle.
Variables have the names of the handle's fields; `caller` is the return address of
`GetBusKey`, `i_try` its loop counter, `p_challenge` its local.

Keys are reduced to what the code can tell apart: a disc key is zero, right or
wrong, a key block good, zero or garbled. The host's challenge is a constant in
`css.c`, so a session is identified by the drive's challenge alone; that challenge,
the key2 that answers it and the bus key derived from both are one *nonce*.
`Unhide` is the XOR with the bus key: it yields the key block exactly if the nonce
of the drive's session and the host's are the same.

The drive is not in the repository. `Ioctl` models it as `css.c` uses it: an AGID is
free, or at one of five stages; a command out of turn is refused; reading a key ends
the session; a wrong key2 ends it too. `Answer` states the four outcomes of a
command: carried out, refused, failed without effect, failed although carried out.
Two failures have names of their own: `LostAgid`, an AGID granted in an answer that
never arrives, and `Region`, a title key refused with the ASF cleared.
`holder` is a history variable for the properties.

`dvdcss_test` is modelled as built without `_WIN32`. `CrackTitleKey` is one
step (`Crack`) with its three results, which `CrackTitle` takes apart. Reading the first title's block and
resetting the device before a fallback change nothing in this module.

### TitleKeys

One action is one system call, or the call of `dvdcss_titlekey`, and the code after
it. A key is a sequence of `KeyLen` cells, its text in a file the same cells and a
line end. Cells make a torn or overwritten file visible: `Overwrite` puts the first
`n` cells of a text over what the file holds, because the file is opened with
`O_CREAT` and without `O_TRUNC`. What `dvdcss_titlekey` yields is any key of
`Learnable[b]`: one key if it is deterministic, two if one handle decrypts what
another takes for an unencrypted title. `WalkEnd` and `Spot` are the two walks along
the list, with their different stop conditions.

### BlockDevice

A function of `device.c` is the set of its outcomes (`i_pos`, offset, return value)
for the state it is called in; a call picks one. `backend` is a descriptor
(`"file"`), a stream, or a stream that delivers less than it holds (`"slow"`);
`size` is its length in bytes, which need not be a multiple of the block size. A
read that fails may have moved the offset by any number of bytes. `Reopen` is the
reset in `CrackTitleKey`: the offset is 0 again, `i_pos` is not touched.

### CrackTitle

A thread runs `CrackTitleKey` with a handle of its own: one step per seek, per read
with what is made of the block, and per access to `i_success`. The handle's position
is `BlockDevice` with blocks of one byte (`Careless`: the loop reads on after a failed
seek). `Disc` says what each block is to the loop: of no stream, not scrambled,
scrambled without a pattern, with a pattern that yields no key, or with its key;
`AttackPattern` and `RecoverTitleKey` are functions of the block alone. `i_success +=`
in C is a read and a write (`Load`, `Store`). `overlapped` and `astray` are history
variables: whether another call has run during the thread's, and whether a seek of the
handle has failed.

### CacheDir and Dvdcss

`CacheDir` represents a path by its components and a name by its length, which is all
that `set_cache_directory` looks at; `fill` is how much of `psz_cachefile` has been
written to, and `stat` and `mkdir` are two steps. An empty path is an empty
`psz_cachefile`, so that it stands for "no cache" exactly as in the code. The name of a
subdirectory is a disc's title and date together with the disc key it shows.

`Dvdcss` puts the parts together. Handles meet in the files only, and each call reads
and writes at most one, so a call is one step, except for the way to the cache.
`dvdcss_disckey`, `dvdcss_titlekey`, `CrackTitleKey`, `dvdcss_title` and
`dvdcss_test` are operators that yield the set of outcomes the other modules found,
faults chosen by `KeyFaults`. Of a title key's life `Dvdcss` keeps the whole: drive,
crack, list (`p_titles`), file, key in force, and use by a read (`Form`: what becomes of
a block under that key). `client` is an application that keeps to `dvdcss.h`: it enters a
title with `DVDCSS_SEEK_KEY`, seeks in it with `DVDCSS_SEEK_MPEG`, and reads on only
after a success. `SeekWild` is the write through an unset `psz_block`, after which
the handle can do anything and is only killed. Lengths of buffers are in
half blocks, so that one can fail to be of whole blocks.

## 3. The runs

Every passing run has deadlock checking on: a host or handle can always be opened
or closed, a device always be sought.

| Run | Question | Instance |
|---|---|---|
| `auth_single` | Is a lone host's session its own, whatever fails? | 1 host, 2 AGIDs, any of them hung, every fault, kills at every command, two titles, one encrypted |
| `auth_shared` | Do two hosts that both find an AGID leave each other alone, and get no wrong key? | 2 hosts, 2 AGIDs, no faults, all methods |
| `auth_contended` | Can a host with method KEY end up with a wrong disc key, if its session may be taken at any moment? Can one host keep another in its loops? | 2 hosts, 1 AGID, faults that lose AGIDs or answers, kills |
| `auth_release` | Does a host find an AGID among hung ones, return from each call, and give the AGID back? | 1 host, 4 AGIDs (the number `GetBusKey` counts on), any hung, the faults after which `css.c` cleans up |
| `keys_disagree` | Is a handle a table that learns each key once? | 2 handles, 2 blocks with two possible keys each, each call may fail, kills |
| `keys_torn` | Can half a key be believed, or a whole one be lost? Is the list sorted? | 2 handles, 3 blocks, short writes of every length, kills |
| `device_pos` | Is `i_pos` right, and a descriptor a cursor? | 3 backends, 11 and 12 bytes in blocks of 3, seeks inside, to the end and past it, reads of 0 to 3 blocks, every fault |
| `auth_stolen` | `css.c:277` says a stored key is valid | violated: an AGID taken between authentication and read, no fault at all |
| `device_stream_short` | A stream is a cursor too | violated: `stream_read` seeks to the *count* of blocks read |
| `crack` | Does a crack judge by its own success, on blocks of its title, and end? | 2 threads, titles of 2 and 3 blocks, one encrypted, limits of 2 clean blocks and 4 blocks; seeks, reads and the reset of one thread's drive fail at any time |
| `dvdcss` | Is the key in force always one of the title entered? Do keyed handles spoil nothing, and does the cache stay in order? | 2 discs of one title and date, 3 blocks in two titles; one handle plays them from drives and images with every fault, the other makes the same directories; names that just fit, do not, and are cut off; buffers that are empty, or end inside a block |
| `dvdcss_collision` | `libdvdcss.c:441` promises that discs of one name do not mix | violated: two handles with method TITLE, no fault |

### What the properties exclude, and why

`OwnSession`, `KeysUnhidden` and `WrongKeyOnlyWithoutDiscKey` are checked for one
host, or for hosts with an AGID each: with fewer AGIDs than hosts they do not hold,
by the design of the retry loop, and `auth_stolen` shows the consequence. The one
thing that does survive contention is `DiscKeyVerified`, because `DecryptDiscKey`
checks its result against the block; methods DISC and the title key have no such
check.

`auth_release` leaves out the faults after which an AGID stays with the
host, which the code does not claim to handle: an answer lost after the grant, a
failed invalidation, a failed read of the disc key (`css.c:358` returns without an
invalidation), and the region error (`css.c:473` invalidates the AGID only if the
ASF is still set). The next `GetBusKey` that finds no AGID recovers them, which is
what `HungAgidsRecovered` is about.

`FileCursor` and `PosAgrees` are about a caller that seeks again after a failure
(`Careless = FALSE`) and uses `dvdcss_readv` only where no read ends inside a block
(`Torn = FALSE`); section 5 says what happens otherwise. `FileCursor` says
nothing of streams because of `device_stream_short`.

The properties of `CrackTitle` are about calls that no other has overlapped: two cracks
at the same time reset and raise one counter, and a call that has found nothing may
return 1 with whatever its uninitialised key holds. `KeyOfTitle`, `UnencryptedSeen` and
`NothingMissed` also leave out a handle one of whose seeks has failed, since the loop
then goes on at another block (`astray`).

`KeyedNotGarbled` leaves out `dvdcss_readv` with an all-zero key, and handles that had no
disc key when they were opened: without it, method KEY yields wrong keys, and cracked keys
come from a directory that discs share (`dvdcss_collision`). `CacheUsable` leaves out names
that are too long.

### Bounds

Nothing but `i_success` is bounded by a counter: the state spaces are finite as they
are, and calls, failures and retries repeat without limit. The constants are small for these
reasons.

- *Hosts, handles.* Two actors suffice for one to interfere between any two steps of
  the other; no code distinguishes a second interferer from the first doing it again.
- *Nonces.* The drive draws one that no host and no session remembers. With 3 nonces
  for one host, 4 for two hosts on one AGID and 5 for two on two, `FreshNonces` is not
  empty in any reachable state in which a host is at `ReportChallenge` (checked with
  TLC for each instance), so the bound never takes a step away.
- *AGIDs.* Two in most runs: `i_try` then counts through a free, a hung and one's own.
  Four in `auth_release`, where the loop bound itself matters.
- *Titles.* One with a key and one without. *Blocks of TitleKeys:* three reach an
  insertion at the head, in the middle and at the end, and each kind of walk.
- *Keys of two cells* have every kind of prefix: none, part, whole, whole with line end.
- *Device.* 11 of 12 bytes in blocks of 3: reads end at, inside and beyond the last
  block; seeks to block 5 are behind the end, as `lseek` allows.

- *CrackTitle.* Titles of two and three blocks with limits of two and four reach each
  exit of the loop before, at and behind the limits. `MaxSuccess`: threads that never
  stop overlapping could raise `i_success` for ever, so a call that would overlap is not
  begun above it; each call by itself raises it by at most one.
- *Dvdcss.* One handle that plays is enough for what handles do to each other through
  the cache, because a call is one step, and the handle is opened again and again on
  either disc with the files left there; the second one is needed for the races of
  `CacheDir`. `PathMax` is 100: 25 is the longest name that leaves room for the rest, 28
  would fit but for the last part, 200 is cut off. The fault "test", after which a
  handle does without ioctls, is left out of the run: a handle on an image is the same.
  The device has three blocks and reads ask for two, so that reads end at the end of it.

Symmetry is used for hosts, handles and nonces, which are only compared for
equality, and in no run with a liveness property.

### Fairness

`CssAuth!Spec` assumes weak fairness of `Step(h)`: a call that has begun runs on.
Every command of the drive returns, with success or failure, and no code in `css.c`
waits for another process, so this is the operating system scheduling the process.
Opening, asking for a title, closing and being killed are not fair: the application
may stop at any time. No outcome of a command is fair either: `CallReturns` holds
although every command may fail for ever. `CrackTitle!FairSpec` assumes the same of
each thread that cracks, `Proceeds(t)`: no step of the loop waits for another thread,
and each system call returns. `CrackReturns` holds although every seek and read may
fail; what ends the loop then is `b_read_error`. The other modules state safety only.

## 4. The proofs

`tlapm` checks every step; there are no unproved statements. The assumptions are those
of the modules (`ASSUME`), which TLC evaluates in each run, and those each theorem
names.

- **`CssAuthProofs`.** `TypeCorrect`: `Spec => []TypeOK`, for any number of hosts,
  AGIDs, nonces and titles. `TypeOK` is not inductive: `InvalidateHung` writes
  `i_try` to `i_agid` and adds one to it. The strengthening is `LoopInv`: a
  host at `InvalidateHung` has `i_try < NAgids`, which the guard of the loop
  provides. `DiscKeyAlwaysVerified`: an invariant of its own, since only `DiscASF`
  writes `p_disc_key` and `DecryptDiscKey` has no outcome that is a wrong key.
- **`CssAuthSoleHost`**, under `Hosts = {h}`. `SoleHostOwnsSession`,
  `SoleHostUnhidesKeys` and `SoleHostWrongKey`, with every fault, hung AGIDs and
  kills. `OwnSession` is inductive relative to `TypeOK` once the host is alone: a
  session starts at the grant of a free AGID, and each command then moves the
  drive's stage and the host's label together or leads to a label outside the
  session. `KeysUnhidden` is inductive relative to both: at the two reads of a key,
  `OwnSession` gives the nonce that makes `Unhide` the identity, and the right or no disc
  key is all that a good block decrypts to. `SoleHostWrongKey` then follows for each
  single step: only `TitleASF` writes a wrong key, and only from a good block.
  `SoleHostRecoversAgids` adds the loop's own claim: every request for an AGID but the
  loop's starts the count at 0, and the loop asks again only behind an invalidation, so
  one AGID is free by then, if invalidations do not fail.
- **`CssAuthManyHosts`**, the hosts as they share a drive. `ManyHostsReleaseAgids`, for any
  number of hosts and AGIDs: `Spec => []AgidReleased` under `CleanedUp`, which leaves out
  the failures of section 3 after which an AGID stays, and nothing else; hosts take
  AGIDs from one another at any moment. `HeldInv` says where the holder of an AGID can be:
  at a label from which the key is read or the AGID invalidated. What makes it
  inductive is the way out through the ASF: `TitleASF` invalidates only while the flag
  is set, so a host behind a failed read must find it set, although other hosts clear
  nothing but by the region error. `Gentle` is what a command of one host does to the
  sessions of the others: it ends them or leaves them as they are.
  `UncontendedOwnSession`, `UncontendedSessionsEndByHolder` and `UncontendedClassicWay`
  are about hosts that are no more than the drive has AGIDs (`Uncontended`: no AGID hung,
  no kill, no command fails but that for the copyright information). Each host then has
  an AGID left by a counting argument: a host that asks holds none, so if none were free
  the others, one fewer than the AGIDs, would hold them all, and one of them two
  (`AgidLeft`). Hence `InvalidateHung` is never reached and no session is taken.
  `UncontendedInv` ties each AGID to one host and each host in a session to its AGID.
  `UncontendedStoredKeyValid` and `UncontendedKeysUnhidden` follow the keys of those
  hosts. `KeyInv` adds what the session does not say: between `Unhide` and its use the
  block is a good one (or zero, for a title without a key), and a handle with ioctls, a
  scrambled disc and a disc key method that has come back from `dvdcss_open` has
  the right disc key, and keeps or renews it in the fallback. So the wrong keys of
  `auth_stolen` are the work of contention alone.
  The condition on failures cannot be relaxed much: after a failed `GetBusKey`,
  `dvdcss_titlekey` reads the key with the AGID of the session before (`css.c:449`
  does not return) and, when that is refused, invalidates it, though it may be
  another host's by then.
  `CallsDescend` has no condition at all: for any number of hosts, however they contend
  and whatever fails, each step of a call lowers `StepsLeft`, which is never negative and
  at most `20 + 4 * NAgids` (`StepsBounded`). `Moves` sums up where a step can lead: on
  (`Below`), round the retry loop, or once into the fallback; `CallerInv` is why the
  fallback is entered once only, as title keys are read for `dvdcss_titlekey` alone.
- **`BlockDeviceProofs`**, under `~Careless` and `~Torn`, for every block size, set of
  devices and set of faults. `PositionAgrees`: `Spec => []PosAgrees`, over descriptors and
  streams. `ImplementsCursor`: `Spec => FileCursor`, the refinement of `BlockCursor` by
  a descriptor. The invariant `Inv` needs two facts beside `PosAgrees`: a call that
  succeeded leaves a known position, so the next read starts at one; and where the
  drive may be reset, `i_pos` is -1, which is why `Reopen` may ignore it. Each
  function of `device.c` has a lemma on its outcomes; `WholeBlocks` and
  `WholeAvailable` are the arithmetic.

- **`CacheDirProofs`** and **`DvdcssProofs`**, all eight invariants of the run, for any number of handles, discs, blocks and
  titles, any lengths of names and any faults. `CacheInv` says at each label of `CacheDir`
  how long the path in `psz_cachefile` is, that the check for room was passed, and
  that the directories behind it exist, which no step removes: that gives `FitsBuffer`
  and `CacheUsable`. `Inv` of `DvdcssProofs` adds, for each handle, that its disc
  key is the disc's own or zero; that one which was keyed at open has it still or has
  gone over to method TITLE (`KeyedMode`) and has learned genuine keys only
  (`KeysGenuine`); that the path leads to the directory that shows its key
  (`Place`), which with `KeyedDirsGenuine` makes what is read from the cache genuine;
  and that a title is entered only with its key (`Entered`). `KeyedDirsGenuine` by itself
  is not inductive: a handle could come to the directory with another key. Each
  function has a lemma on its outcomes (`DiscKeyOutcomes`, `CrackOutcomes`,
  `TitleKeyOutcomes`); `GarbledOnlyByZeroKey` is the step from keys to blocks. Used
  are the assumptions that no disc key is zero, that a vector has a buffer, that different discs have different
  disc keys, and that only encrypted titles have scrambled blocks.
  `TypesKept`, `CacheAlwaysKept` and `ReadvAlwaysInPlace` come from a second invariant,
  `Rest`, inductive relative to `Inv`: cursors stay on their disc (`CursorsInside`), and
  a handle none of whose own calls fails has a path at every label behind the first
  (`Lasting`): a `mkdir` that fails because another process was faster finds the
  directory made, as good as its own.
  `ReadvInPlace` is about the loop of `dvdcss_readv`, a recursive function over any
  number of blocks, and over the lengths of the buffers (`Total`), another one. No
  induction theorem can be used here, so induction is a lemma about a set: if 0 is in
  it, and with a number below `L` the next one, then `0 .. L` is, by cardinality
  (`UpTo`). That gives the two recursive functions their equations (`TotalRecursion`,
  `TurnsExist`). `LoopInv` is the invariant of the loop: after `k` turns that were not
  refused, the places descrambled are those of the first `k` blocks, and `i` and `left`
  say where the next one lies, empty buffers passed over; a refusal is final and names
  the buffer. `TheIovecs` of the run has a case of each way through it.

- **`CrackTitleProofs`**, for any number of threads, any disc, start and limits, and any
  faults of the drives. `Inv` is one predicate per thread: the counters belong together
  (`Counted`); a call that no other has overlapped is alone, and finds `i_success` 0
  until its own attack succeeds (`Own`); while no seek has failed the device is at the
  block the loop takes it to be at (`Placed`); what holds of the blocks behind the
  loop and why it has ended (`Knows`); and the properties of a returned call
  (`Told`). `Own` and `Placed` are what makes `Knows` inductive: without them the block
  that is read is any block, and the count anyone's. `OthersKept` reduces a step to its
  own thread; `BlockDone` and `LeavesLoop` stand for the ways out of the body of the
  loop, and `RestEnds` and `KeyFound` relate `i_pos` to the title. `CracksDescend` bounds a
  crack by `5 * MaxLen + 10` steps, as `CallsDescend` does a call: `LoopMoves` has the two
  ways round the loop, one that uses up a block and one that uses up the read error.

- **`TitleKeysProofs`**, for any number of handles, any blocks, any length of a key and
  any faults. That `WalkEnd` and `Spot` exist needs no induction: the positions whose
  entries, and all before them, start before the block are `1 .. m` for their
  number `m` (`LeadingPositions`). `Inv` holds whatever the files contain: the lists
  are sorted, a call that is past the list is about a block the list does not have
  (`Missed`), and a call that returned 0 has its key in force. `ListAlwaysSorted` and
  `KeyAlwaysInForce` follow. `Genuine` says where keys come from: each file holds a
  leading part of the text of one key of its block, and so each call that has a key
  and each entry of a list has one of that block. It is inductive if no write is short or
  if a title yields one key (`Untorn`). The two runs are one of each, and with both,
  a half-written key over another one is a mixture, which no one wrote. Under it
  `ListedAlwaysGenuine`, and `ImplementsTable`: an insertion is `Learn`, the end of a handle
  `Forget`, and everything else a stutter. `FilesAlwaysKept` needs that a title
  yields one key: the longer text that is written is then the same text.

Only model-checked: `CallReturns` and `CrackReturns`, since liveness under fairness is
out of the prover's reach. What they add to `CallDescends` and `CrackDescends` is that a
call in progress can always take its next step, which is about `ENABLED`, and that fairness
makes it take it. Every other property of a passing run is stated by a theorem. The runs show
that the conditions of the theorems can be met: `auth_single`, `auth_shared` and
`auth_release` are instances of a sole host, of
`Uncontended` and of `CleanedUp`.

## 5. Where code and text disagree

The three violation runs, `auth_stolen`, `device_stream_short` and `dvdcss_collision`, and
these observations made on the way, which have no run:

- `css.c:340` says `dvdcss_disckey` sets method TITLE if it finds no valid disc key. If
  the authentication or the read fails it returns at once, the method stays, and
  the handle decrypts title keys with an all-zero disc key (`css.c:438`); the result is a
  wrong key, returned and cached as valid. This is the exception in
  `WrongKeyOnlyWithoutDiscKey`, and why `KeyedNotGarbled` is about handles with a key.
- After a region error an AGID stays with the host (`css.c:473`), in spite of "Other
  code assumes that we will not" (`css.c:482`).
- `libc_readv` and `stream_readv` round what they got down to blocks for `i_pos` and leave
  the device behind the rest of the bytes (`device.c:868`): a seek to `i_pos` then does
  nothing, and the next read is not aligned to a block.
- A complete read adds to `i_pos` even when it is -1 because a seek has failed
  (`device.c:738`); `dvdcss_titlekey` (`css.c:524`) and `CrackTitleKey` (`css.c:1532`)
  read after a failed seek. A later seek to the block `i_pos` then names does nothing.
- Two threads that crack at the same time take each other's `i_success` for their own
  (`css.c:1619`, where the comment names the variable of the call, `b_stop_scanning`).
- After a cache directory name that is too long `psz_cachefile` is not empty and
  `psz_block` is not set; `dvdcss_title` writes through it (`css.c:225`).
- `dvdcss_readv` descrambles with an all-zero key, and so spoils blocks that
  `dvdcss_read` hands over as they are (`libdvdcss.c:726`).
- `dvdcss_readv` looks at the length of a buffer only when its first block is
  done (`libdvdcss.c:810`), so a buffer that ends inside a block is found too late for
  the blocks before it, or not at all if it is the last one.
- Both reads clear bit 6 of byte 0x14 too (`& 0x8f`), of unscrambled sectors as well,
  which the flag is said to have no effect on (`libdvdcss.c:704`).

## 6. Not modelled

- `_WIN32` and `__OS2__` code: other encodings of the same commands and other calls for
  the same seeks and reads; `dvdcss_test` differs there in what it does after an error.
- The ciphers: arithmetic without state. The models assume only that the right key
  decrypts and another does not. CSS is weak; no claim is made about secrecy.
- Contents of ioctl packets, error texts, `dvdcss_check_device`, `ioctl_ReportRPC`
  (it only adds a debug message), the test programs.
- What `AttackPattern` and `RecoverTitleKey` compute: a block gives its key away or not.
- The `CACHEDIR.TAG` file, and the Windows, Android and OS/2 ways to find a directory.

## 7. What is left

1. `OwnSession` for many hosts that contend: a history variable for sessions that
   another host has ended would separate the thefts from everything else.
2. The ciphers as functions: that `dvdcss_unscramble` inverts a scrambler and that
   `RecoverTitleKey` finds the key of a block, over sample keys.
