# FIDe in TLA+

FIDe detects anomalies in traffic from per-source packet counts kept in eBPF
maps. This directory models both of its versions: the fully in-kernel one
(`fully_in-kernel/`), where the XDP program itself closes each interval and
analyses it, and the user-space one (`user+ebpf/`), where the XDP program only
counts and a process analyses once a second. All source paths below are
relative to `src/`.

## The system and its parts

| Part | Code | Modules |
|---|---|---|
| In-kernel XDP program | `fully_in-kernel/main/xdp_prog_kern.c` | `InKernel`, `Accounting`, `FlowLog`, `SingleCpu`, `Analysis`; `InKernelProofs`, `FlowLogProofs`, `SingleCpuProofs`, `BasicTheorems` |
| Fixed-point arithmetic | `fixed-point.h` (and its identical copy) | `FixedPoint`, `Powers`; `HelperProofs` |
| XDP program of the user-space version | `user+ebpf/main/xdp_prog_kern.c` | `UserSpace`; `UserSpaceProofs` |
| Analysis loop in user space | `user+ebpf/main/xdp_loader.c`: `main`, `calculate_ent` | `UserSpace`; `UserSpaceProofs` |
| Loading, attaching, pinning, unloading | `common_user_bpf_xdp.c`, `common_libbpf.c`, `xdp_loader.c` | `Loader`, `BpfObject`; `LoaderProofs`, `ObjectProofs` |
| libbpf, as far as the loader uses it | `libbpf/src/libbpf.c`, `libbpf/src/netlink.c` | `BpfObject`, `Loader`; `ObjectProofs` |
| Command line | `common_params.c` (two versions) | `Params`; `HelperProofs` |
| Parsing and rewriting helpers | `parsing_helpers.h`, `rewrite_helpers.h` | `Packets`; `HelperProofs` |
| Per-action statistics | `xdp_stats_kern.h` | not modelled |
| Prototype of the arithmetic | `dynamic-fix.c` | not modelled; states what the arithmetic is meant to compute |
| System call wrappers | `bpf_util.h`, `perf-sys.h` | not modelled, pure I/O |

How they interact: every CPU of the machine runs the XDP program at once, one
invocation per packet. Invocations share the maps `logger` (counts per source),
`data` (interval totals, `int_bits`), `loc_ts` (time stamp and spin lock,
in-kernel version only), `blacklist` and `tx_port`. In the user-space version
the process reads and writes the same maps through system calls. Atomic
additions and the spin lock are the only synchronisation. Before that, the
loader opens the object file, creates the maps, loads the program, attaches it
to the interface and pins the maps in a directory; several loaders, and a
loader and its predecessors, meet in the interface and in that directory.

## Modules

**InKernel.** One action per access to memory that CPUs share. `pc[c]` is the
next access of CPU `c`, or the verdict of its last invocation; `key`, `ts`,
`value`, `seen`, `todo` are the locals of `xdp_filter_func` and of the two
`bpf_for_each_map_elem` callbacks. The logger is a preallocated hash map, so
`elem` (memory cells) and `logger` (which cell is linked under a key) are
separate: a pointer may outlive the link, and a deleted cell may be handed out
again. `prev = cur` is a load and a store; `cur = 0` a third step. The lock
protects only `loc_ts`. Abstractions:

- An entropy is 0 or not 0, all that control depends on. Without packets in the
  previous interval it is 0; `Analysis` checks that on the exact arithmetic.
- A walk visits keys in any order (bucket order) and reads `prev` once.
- `count`, `entropy_all` and `avg` feed only a test that has no effect, as the
  update of the blacklist is commented out.
- While `int_bits` is 0 the program shifts by -1, which is undefined; the test
  may then go either way.

**Accounting** adds the properties that sum counts over flows. **FlowLog** is
the abstract specification: a log of per-source counts which each packet
updates in one step. **SingleCpu** adds a history variable, the contents of the
maps after the last counted packet, and states that one CPU implements
`FlowLog`.

**FixedPoint** has the operators of `fixed-point.h` with 32-bit wrap-around, by
what the compiled code computes; it agreed with the compiled header on over
three thousand samples. `Powers` has the powers of 2 that it shifts by. It holds
for `0 <= q <= 31`: from 25 on `calc_log` shifts by the negative distance
`24 - q`, of which the machine takes the low 6 bits. **MCFixedPoint** states what
each operator should return, for scales up to 24.

**Analysis** is `calc_entropy` and `detection` with that arithmetic, on one CPU,
for any order of the two walks. A close is one step, and so are packets of one
source that arrive in a row (`Bursts`): the conversions shift by the packet
counts, and bursts bring counts to where the shifted numbers wrap. Counts above
`MaxShift`, 31, by which C does not define a shift, are not converted.

**UserSpace** is the user-space version: the CPUs as in InKernel but without
stamp, lock and close, and the process as a second kind of actor with `upc` as
its next map access. `order` is the bucket order of the keys (a random seed
fixes it when the map is created; collisions are left out). `calculate_ent`
reads the total (`ReadData`), walks the keys (`FirstKey`, `Walk`), writes the
total back (`WriteData`), then per key looks up and writes or deletes
(`ReadFlow`, `WriteFlow`). The walk's lookups feed only the entropies, which are
left out with their average and `beta`. Memory from `malloc` that is read
without being written is modelled by what it can hold: `entpy` is large enough
to be mapped afresh and is zero, `logger_value` holds anything (`Garbage`). The
counts of an element that is not linked are never read, so giving it back sets
them to 0.
`told`, `present` and `done` are history variables.

**Loader** has processes that go through one of two front ends: `main` of
`xdp_loader.c` up to its loop, or a caller of the library's
`load_bpf_and_xdp_attach` and `xdp_link_detach` (`"common"`). A step is one
system call on state that processes share: the interface's two XDP slots
(`link`) and the pin directory (`pinned`). `pc[p]` is the next call, `run[p]`
the number of the start, which also names the program and the maps it creates,
`i[p]` the position in the loops over the maps. `main` parses and begins;
`load_bpf_object_file`, or `open_bpf_object`, `reuse_maps` and
`load_bpf_object_file_reuse_maps`, load; `attach_first`, `unload_opposite`,
`attach_again` are the three requests of `xdp_link_attach`; `detach_get_id` and
`detach_set` those of `xdp_link_detach`; `pin_prepare`, `bpf_object__pin_maps`,
`err_unpin_maps` and `fill_tx_port` are the rest of `main`. Faults: any call may
fail (`GoFault`, at most `MaxFaults` times), a netlink request also after the
kernel has acted on it, and `Crash` kills a process at any step; slots and pins
outlive it. `Verdict` is the kernel's side of a request, taken from the errors
the code distinguishes. `clean`, `stuck` and `removed` are history variables.

**BpfObject** is what libbpf makes of an object file, as functions: the maps of
the maps section and of `.bss` by the index of their symbol (`Added`), sorted by
section and offset (`init_maps`; `qsort` is any order that its comparison
allows),
relocations by symbol (`collect_reloc`), `create_maps`, `relocate`,
`load_progs`, `bpf_object__unload` after a failure at any of them. `Loader` uses
these functions. `bpf_prog_load_xattr_maps` of `common_libbpf.c` opens the pins of
wanted maps (`bpf_obj_get`), presets the maps (`preset`), loads, and pins the
maps that it opened no pin of (`bpf_map__pin`, `pin_created`). Its calls of
`bpf_obj_get`, `bpf_map__reuse_fd` and `bpf_map__pin` may fail without ending the
load; `faults` says which do. `map_fd` has the descriptors it reports, which are
beside those of the object.

**Params** is `parse_cmdline_args` of both versions, as a recursive
function of the options.

**Packets** are the tutorial's packet helpers as a small program would call
them: a cursor moved by parsers, and tags pushed and popped. A packet is a
sequence of units of two bytes, each the number that a little-endian host loads;
`bpf_htons` and `bpf_ntohs` exchange the bytes and drop what exceeds 16 bits.

**MCHelpers** enumerates input for the sequential parts: two operands, command
lines, object files, packets. `MCLoader` gives `Loader` the maps of
`xdp_prog_kern.c`, `MCInKernel`, `MCSingleCpu`, `MCAnalysis` and `MCUserSpace`
add symmetry sets. Definitions introduced by a comment "Mutation" or "Mutant"
are plausible errors; no specification uses them. They show which property
catches which error.

## Runs

Passing:

| Run | Bounds | Shows |
|---|---|---|
| `kernel_smp` | 2 CPUs, 2 sources, 1 entry, 4 packets, clock to 6 | `TypeOK`, `LockHeld`, `SeparatedCloses`, `StampAdvances`, `NoDoubleCount`, `BitsBounded` under every interleaving |
| `kernel_seq` | 1 CPU, 3 sources (one may be blocked), 2 entries, 5 packets, clock to 6 | `ImplementsFlowLog`, `NothingDropped`, `FlowsWithinTotal`, `BitsCoverTotal` |
| `kernel_progress` | 2 CPUs, 1 source, 3 packets, clock to 4 | `PacketsFinish` (liveness) |
| `analysis` | 3 sources, 2 entries, 5 bursts of 2, 27 or 43 packets | `NewFlowsStay`, `CountsShift`, `EntropyNotNegative` |
| `user_round` | 1 CPU, 2 sources, 2 entries, 3 packets, all bucket orders | `TypeOK`, `WalkFits`, `TotalsOnce`, `FlowsOnce`, `RoundComplete` |
| `user_expire` | 1 CPU, a source that may be blocked and 0.0.0.0, 2 entries, 2 packets | `FlowsExpire` (liveness), `RoundComplete` |
| `loader` | 2 processes, 3 starts, 7 command lines, 4 maps, 2 failing calls, kills | `TypeOK`, `PinsOfOneRun`, `UnpinsOwn`, `ReusedTogether`, `OnlyForceReplaces`, `ForceSucceeds`, `RunsAttached` |
| `helpers` | numbers to 30 and around each power of 2 at 5 scales; command lines of up to 4 options; 3 maps in every symbol order, with `.bss` before, behind or absent, a failure at every call of load and one that goes unnoticed; packets with up to 3 tags cut off anywhere | `SumsTruncate`, `QuotientsTruncate`, `LogOrdered`; `CopyModesExclusive`; `MapsInPlace`, `InsnsPatched`, `FailedLoadCloses`; `CursorWithin`, `TagsSkipped`, `PopUndoesPush`, `RewriteKeeps` |

Violated, each a disagreement of the code with its own words (quoted in
`PROJECT.json`):

| Run | Property | Shows |
|---|---|---|
| `kernel_lost_count` | `NothingDropped` | with two CPUs, a packet counted between copy and reset of a counter is in no interval |
| `kernel_wrong_source` | `CountedUnderSource` | a packet is counted in a cell deleted and reused for another source |
| `fixed_conversion` | `ConversionExact` | `to_fixed_point` takes its arguments in the other order than its callers give them |
| `loader_pins` | `PrevMapsUnpinned` | after a second start with `--force` the pins are still those of the first run, and `main` does not notice |

Disagreements that the models have but no run is spent on. The first three are
stated in the modules and can be checked by naming them in a configuration:

- `MCFixedPoint!MixedSums`: `check_bit` overwrites `q` before it computes the
  shift from it, so operands of different scales are added unscaled.
- `Analysis!SilentForgotten`: `detection` returns early for a flow whose entropy
  computes to 0, and so keeps it though it has no packets.
- `Loader!RemovedIsGone`: `xdp_link_detach` reads the id of the program attached
  in any mode, removes in the mode of its flags, and reports the id as removed
  while the program is still attached.
- `parse_cmdline_args` of the user-space version masks with `XDP_ZEROCOPY` and
  `XDP_COPY` where the in-kernel version masks with their complements, so both
  may be set (`Params!option_user`).
- A count `n` is converted to `int_bits << n`, which wraps from about 28 packets
  on. The previous total may wrap while a flow's count does not, so that its
  share exceeds 1 and its entropy is negative: after a total of 28 with
  `int_bits` 17, or of 29, 27 of them of the flow, with `int_bits` 9.
  `EntropyNotNegative` is about counts that do not wrap.
- `parsing_helpers.h:12` says "All return values are in host byte order";
  `parse_ethhdr_vlan` returns the protocol in network byte order, as the comment
  at its return says (`:121`). `TagsSkipped` has the latter.
- `vlan_tag_pop` is said to return the popped VLAN ID (`rewrite_helpers.h:19`) and
  returns the whole tag control information, priority included;
  `vlan_tag_push` does not refuse a number that is no VLAN ID, and stores its low
  16 bits. `PopUndoesPush` compares what is returned with what was pushed for
  VLAN IDs only.
- `reuse_maps` never closes `pinned_map_fd`, which `bpf_map__reuse_fd` copies, and
  `bpf_prog_load_xattr_maps` that fails leaves the pins it has opened open.
- `bpf_prog_load_xattr_maps` ignores a failure of `bpf_map__reuse_fd` and reports
  the pinned map while the program uses a new one. A pin that it could not open
  though it exists stays, and no map is reported for it.
- Frames too short for their headers are passed (`InKernel!ReceiveMalformed`);
  the comments say they are dropped.
- `calc_log` shifts only the table entry by `24 - q`, the prototype the sum of
  integer part and entry.
- Both versions compute which sources exceed the threshold and then do nothing,
  the update of the blacklist being commented out.
- In the user-space version too, packets counted between reading and writing
  back a counter are lost (`ReadData` .. `WriteData`, `ReadFlow` ..
  `WriteFlow`), and a packet can be counted in an element replaced meanwhile.
- The round-up of the "past 10 seconds" sums up 11 rounds.

### Why the bounds are enough

The hazards are races between two actors on one counter, one key or one
element, so two CPUs (or one and the process) and two sources reach them. The
logger has fewer entries than there are keys in `kernel_smp`, `kernel_seq`,
`analysis` and `user_round`, so a full map occurs, and one element more than
entries, so a deleted element is soon reused. `MaxNow` and `MaxPkts` of
`kernel_smp` allow a first stamp and two closes, overlapping ones included.
`InitBits` and `MinBits` are 2 there: with four packets two CPUs can both find 3
bits too few and make them 5, one more than `BitsBounded` allows without a total
of 4. `analysis` reaches totals and flows on both sides of the wrap of
`int_bits << n`, with `int_bits` grown by sources that the full logger does not
hold. In `user_round` flows arrive
before, during and after the walk, and the logger is empty in the first rounds.
`RoundUp` is 11 in the code and 1 in the runs; only `holder` and `count` depend
on it.

In `loader` two processes are enough for every race on a slot or a pin, three
starts for a race against the remains of an earlier run, and two failing calls
for a pinning that fails and a rollback that fails. The command lines are those
that differ in what `Loader` does: native mode (the default) with and without
`--force`, generic and automatic mode with it, `--unload` in native mode and,
with an expected id, in generic mode, and reused maps. The object file lists its symbols in another
order than the maps are declared in; `helpers` has all orders. Processes are
interchangeable, which `SYMMETRY` uses; no liveness is checked there.

`analysis`, `loader`, `loader_pins` and `helpers` switch off the deadlock
check: traffic may stop, the starts are used up, and a command line, an object
or a packet has nothing more to do.

### Fairness

`InKernel!FairSpec`: an invocation that has started takes its next step (bounded
code in softirq context), and a CPU waiting for the spin lock gets it if it is
free again and again (the kernel's queued lock serves waiters in order). No
packet is assumed to arrive, no clock to tick. `UserSpace!FairSpec`: the same
for CPUs, and the process is scheduled; it waits for nothing but `sleep`.
`FlowsExpire` is about traffic that ends, which the packet bound provides.

## Proofs

The theorems hold for every value of the constants that the assumptions named
below allow: any number of CPUs, sources, elements, processes, maps and starts.
Where a theorem is about one CPU it says so as its hypothesis.

| Theorem | States | Inductive invariant |
|---|---|---|
| `InKernelProofs!Typing` | `TypeOK` | `TypeOK` and the key of every linked element |
| `InKernelProofs!Exclusion`, `Separation`, `Advance` | `LockHeld`, `SeparatedCloses`, `StampAdvances` | `StampInv` |
| `InKernelProofs!CountedOnce` | `NoDoubleCount` | `TotalInv`, `FlowInv` |
| `InKernelProofs!Overshoot` | `BitsBounded` | `OvershootInv`, with `TotalInv` |
| `InKernelProofs!NothingLost` (one CPU) | `NothingDropped` | `CopyInv` |
| `InKernelProofs!WideEnough` (one CPU) | `BitsCoverTotal` | `WidthInv` |
| `FlowLogProofs!LogWithinTotals` | `Within`, of the abstract log | `Within` |
| `SingleCpuProofs!Refinement` (one CPU) | `ImplementsFlowLog` | `SeqInv` |
| `SingleCpuProofs!FrequenciesBounded` (one CPU) | `FlowsWithinTotal` | none: refinement and `LogWithinTotals` |
| `UserSpaceProofs!Typing` | `TypeOK` | with `EntriesOK`, `KeysMatch` |
| `UserSpaceProofs!WalkBounded`, `RoundsComplete` | `WalkFits`, `RoundComplete` | `WalkInv` |
| `UserSpaceProofs!TotalsBounded` | `TotalsOnce` | `TotalInv` |
| `UserSpaceProofs!FlowsBounded` | `FlowsOnce` | `FlowInv` |
| `LoaderProofs!Typing` | `TypeOK` | `TypeInv` |
| `LoaderProofs!PinsStayTogether`, `RollbackUnpinsOwn` | `PinsOfOneRun`, `UnpinsOwn` | `PinInv` |
| `LoaderProofs!NoForceKeeps` | `OnlyForceReplaces` | `LinkInv` |
| `LoaderProofs!ReuseStaysTogether` | `ReusedTogether` | `ReuseInv` |
| `LoaderProofs!ForceWorks`, `LoopIsAttached` | `ForceSucceeds`, `RunsAttached` | `AttachInv` |
| `HelperProofs!CursorStaysWithin`, `PopAlwaysUndoesPush` | `CursorWithin`, `PopUndoesPush` | `PacketInv` |
| `HelperProofs!RewritesKeep`, `TagsAreSkipped` | `RewriteKeeps`, `TagsSkipped` | `PacketInv` |
| `HelperProofs!AnyCommandLine`, `CopyModesExclude` | `CopyModesExclusive`, of any options | `Configs`, along the options |
| `HelperProofs!AnySum`, `SumsAlwaysTruncate` | `SumsTruncate`, of any operands | none |
| `HelperProofs!AnyQuotient`, `QuotientsAlwaysTruncate` | `QuotientsTruncate`, of any operands that fit | `Divided`, along the bits |
| `ObjectProofs!AnyOrder`, `AnyFile`, `MapsAlwaysInPlace` | `MapsInPlace`, of any file | `ObjectInv` |
| `ObjectProofs!AnyFailedLoad`, `FailedLoadAlwaysCloses` | `FailedLoadCloses`, of any object | `ObjectInv` |
| `ObjectProofs!AnySymbol`, `AnyLoad`, `AnyInstruction`, `InsnsAlwaysPatched` | `InsnsPatched`, of any file and pins | `ObjectInv` |

### In-kernel version

`TypeOK` alone is inductive: a CPU between receipt and count knows its key, one
about to access an element has a pointer to an element with a key.
The accounting also uses that no two keys share an element and that the map
stays within `max_entries` (`MapConsistent`), facts about the kernel's hash map
that the model has from its description and that are lemmas here.

`SeparatedCloses` is not inductive: it says nothing of a CPU that is about to
store the stamp. `StampInv` adds that the stored stamp is not older than the
packet of any closing CPU, and that a CPU about to store its own time under the
lock has found it more than `Interval` later than the stored one.

`NoDoubleCount` is about the moments when no packet is on its way. In between,
a total may be in `prev`, in `cur` and in the local of one or several closing
CPUs at once. `TotalInv` bounds each of these values, plus the packets that have
arrived and are not counted, by the packets that arrived, and the sum of `prev`
and `cur` as long as nobody is about to zero a total. For the flows such a bound
per element does not add up, since an element changes its key, is deleted with
its counts and is written to by CPUs that still point to it. `FlowInv` therefore
says that there is a number `n[e]` per element, the packets ever counted in it,
which covers all that is or was copied from the element (`Covers`), and that
these numbers add up to at most the packets that arrived.

`BitsBounded` is not inductive: CPUs that have found `int_bits` too small have
still to grow it. `OvershootInv` counts them in (`Growers`). The CPU that joins
them has just read a total that `int_bits` does not hold, and there are never
more of them than CPUs, so what `int_bits` may still become exceeds the width
that this total needed by at most one bit per CPU.

With one CPU nothing comes between the load, the store and the reset of a
counter (`CopyInv`; `kernel_lost_count` shows the contrary for two). `WidthInv`
says of each point of the handler how far `int_bits` may lag behind the total:
one bit between the addition and the comparison, none elsewhere.

The refinement maps the maps' contents after the last counted packet to the log.
`SeqInv` says, for each label of the handler, how far the maps are between that
log and the next: counted in the total only, counted, entropies stored for the
flows walked so far (`EntropyWalk`), flows walked shifted or deleted and the
others untouched (`DetectionWalk`), total copied, total zeroed.
The step on which the handler returns maps to one step of `FlowLog`, every other
one to a stutter. That flows stay within the totals then is a fact about the
log, where a packet is one step, and is carried over by `INSTANCE`.

### User-space version

`EntriesOK` says that a walk that is over has left an entry, which the last loop
reads. `WalkInv`: the entries of a walk ascend in bucket order, so there is none
twice, and all flows that the walk had to reach and that lie before its key are
entered, whatever CPUs insert meanwhile. `TotalInv` is the bound of
`TotalsOnce`, plus the packets on their way, and that the snapshot is at most
the total it was taken from. `FlowInv` has the same form for the sum over flows;
while the process holds the count of a flow it has looked up, that count may
replace the flow's in the sum. The entry that is made up for an empty walk is
dealt with twice, the first time with a count that is no packet's; the sum
leaves that count out until it is overwritten (`MadeUp`, `Packets`).

### Loader

`PinsOfOneRun` does not say why a path that is free may be taken. `PinInv` adds
that what is pinned is an initial part of the list of maps, of one run
(`PinnedPrefix`); that a process about to pin its `i`-th map, `i > 1`, owns
exactly the `i - 1` before it, and one about to unpin its `i`-th owns exactly
`i` (`Pinning`); and that runs differ. If the first path is free, so are all,
and no other process owns any (`Alone`); if a later one is, the process owns all
there is. A path that is taken thus only stops a process at its first map, and a
failing call leads to a rollback of what it owns. `LinkInv` says that only
`--force` leads to `unload_opposite` and `attach_again`, and only `--unload` to
a detach.

`TypeInv` adds to `TypeOK` what objects look like: the shape of an opened one,
its maps under the declared names, and files of runs that have started.
`ReuseInv`: as long as no call failed, nothing that is pinned is unpinned, so
the maps a process has taken are still the ones at their pins (`Kept`) and
`PinsOfOneRun` applies to them. `AttachInv`: what the requests of a process that
nothing disturbs have made of the two slots at each label (`Undisturbed`), and
that a driver without native mode has no program in its slot.

### Helpers

`PacketInv` says that the cursor is within the packet, and at its start or
behind an Ethernet header. A step of a parser then only needs that the header it
skips was compared with `data_end`. For the rewriters the proofs say of each
unit of the new packet which unit of the old one it is (`PushedUnits`,
`PopUnits`, `SwapUnits`), for a packet of any length. `NtohsBack` shows that a
VLAN ID survives two exchanges of its bytes. The four theorems are
about `PacketSpec`, which is what `helpers` does when its topic is a packet.

`parse_kernel` and the loop of `divide` are recursive functions. `Recursion`
shows that a function defined by such a recursion exists, so that it may be
unfolded; a statement about all lengths then follows from a shortest
counterexample. `Configs` is what the options may have
made of the configuration: the bind flags never hold both modes. `Divided`
says of each bit of the long division that quotient and remainder are those of
the bits taken in so far, and that nothing has overflowed.

`AnySum` holds for all pairs of numbers up to `2^29` at any of the 25 scales, and
needs no invariant.

### Object files

`AnyOrder` is the heart: if no two maps compare equal, the order that
`Ordered` allows is the only one, so `CHOOSE` in `qsort` stands for whatever
the C library does. `AnyFile` applies it to a file whose map symbols have
different offsets (`FileWith`), in any order and number. `AnySymbol` then shows
that `collect_reloc` finds exactly one map for a symbol, `AnyLoad` and
`AnyFailedLoad` what loading any object does with descriptors and pins, whatever
of the unnoticed calls fails, and
`AnyInstruction` joins them from the file to the patched instruction, for files
whose maps have different names and whose relocations refer to maps
(`RelsTo`). The three theorems about the run follow by showing that each of its
files is such a file (`Known`).

### Assumptions

- `InKernel`, `UserSpace`: finitely many CPUs, sources and elements, more
  elements than entries, bounds that are numbers; `MinBits` is positive, as the
  code's constant is, and in `UserSpace` there is room for one entry.
- `Loader!NamesAssumption`: the maps have different names, the fourth is
  `tx_port`, none is called `map_name`. With a map of that name another
  process's pins could be removed under it; see `PrevMapsUnpinned`.
- `Loader!FilesAssumption`: the object files yield the declared maps in their
  order, closed, and the program. `ObjectProofs!AnyFile` shows this of the
  order for every order of the symbols.
- `Loader!CommandsAssumption`: no command line asks for hardware offload.
- `Loader!BoundsAssumption`: bounds are numbers.
- `Packets!PacketsAssumption`: frames are sequences of numbers, tags are integers.
- `MCFixedPoint!OperandsAssumption`: scales are from 0 to 24, where `calc_log`
  shifts by no negative distance.

TLC evaluates all of them on the instances of the runs.

### How the proofs are laid out

There is one step or lemma per action, or per group of actions that leave the
invariant's variables alone. `BasicTheorems` has the facts about sums over finite
sets that the accounting rests on, that recursive functions
exist (`Recursion`), and what that says of `Pow2`: it doubles and grows.
The library's induction theorems cannot be applied here, so these few facts are
proved by a least counterexample (`LeastNatural`), each for the one predicate
it is about. Most modules begin with `USE Zenon`; a leaf that needs arithmetic,
or the size of which is beyond Zenon, names `SMT`.

### Only model-checked

- Liveness (`PacketsFinish`, `FlowsExpire`): out of the prover's reach.
- `LogOrdered`, `NewFlowsStay`, `EntropyNotNegative`: they rest on the 256
  entries of the table of logarithms, one by one, and the last two also on
  sums of logarithms of quotients. This is beyond the provers' arithmetic.
- `CountsShift`: the walks of `Analysis` are folds of the library over the flows
  in any order, whose step is an operator parameter. What such a fold computes
  needs induction over data with that parameter. `SingleCpuProofs` proves the
  corresponding fact of `InKernel`, where a walk is a sequence of steps
  (`DetectionWalk`).

## Not modelled

- Most of `libbpf/` and of the kernel headers that the repository carries. They
  are third-party code and nearly all of the repository's lines; FIDe reaches
  only opening, loading, pinning and the netlink requests. BTF and CO-RE,
  program pinning, perf buffers, feature probes, the hash map and AF_XDP sockets
  are not on its path, so the models cover a small share of all lines and most
  of FIDe's own.
- `calculate_entropy`, `calculate_entropy_csv` and `check_trie` of
  `xdp_loader.c`, `multiply`, `low32` and `high32` of `fixed-point.h`,
  `check_map_fd_info` and `open_bpf_map_file`: nothing calls them.
- `do_unload` of the in-kernel version: it calls a library that the repository
  does not contain.
- Hardware offload and a second interface in `Loader`, memory, printing.
- `dynamic-fix.c` (a test program), `xdp_stats_kern.h` (two additions to a
  per-CPU element, included by no program), `bpf_util.h`, `perf-sys.h`.
- The composition of `Loader` with `UserSpace`: a process whose program was
  replaced keeps analysing its own maps, which no packet reaches any more.
  `UserSpace` has a successful attach that nobody undoes.

## Plan

1. An abstract specification of the user-space version, and `UserSpace` without
   traffic during a round shown to implement it.
2. The two older calculators of `xdp_loader.c`.
