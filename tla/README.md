# Verification of the simulator and its graph suites

The repository is ChampSim, a trace-driven simulator of an out-of-order core with its caches, TLBs, page table walker and DRAM, extended with the graph-aware replacement policy P-OPT, together with the graph suites (GAP and Ligra under `src/data/`) whose runs are traced.
This directory holds TLA+ models of the parts whose state is hard to keep consistent, the TLC runs that check them, and proofs for the parts that everything else rests on.

The simulator is modelled for the configuration in its headers (`src/inc/champsim.h`, `src/inc/cache.h`): `NUM_CPUS` 1, `SANITY_CHECK`, `LLC_BYPASS`, `P_OPT_INTER_INTRA`, `INS_PAGE_TABLE_WALKER`, `PTW_DRAM`, `GRAPH_RUN`.

## The system

**The simulator.** `main()` (`src/src/main.cc:1346`) runs one loop: in every cycle it calls the stages of the core and `operate()` of every cache, TLB, walker and of the DRAM controller. There are no threads. Concurrency is between components: a request is a packet that waits in a queue of one component, is merged there with others, leaves a note (MSHR, LQ slot, index set) in the one above, and comes back by a direct call of `return_data`, often within the same cycle and sometimes within the very call that sent it.

| Part | Code | State | Operations | Talks to |
|---|---|---|---|---|
| Packet queue | `src/src/block.cc`, `src/inc/block.h` | ring `entry`, `head`, `tail`, `occupancy` | `add_queue`, `remove_queue`, `check_queue` | owned by every component below |
| DRAM controller | `src/src/dram_controller.cc` | RQ, WQ, bank state machines, write mode, data bus, cached next pointers | `add_rq`, `add_wq`, `operate` (mode, `schedule`, `process`) | LLC, page table walker |
| Caches L1I, L1D, L2C, LLC | `src/src/cache.cc` | RQ, WQ, PQ, MSHR, blocks | `add_rq`, `add_wq`, `add_pq`, `handle_fill`, `handle_writeback`, `handle_read`, `handle_prefetch`, `return_data`, `invalidate_entry` | the level above and below, the TLBs (L1) |
| TLBs ITLB, DTLB, STLB | `src/src/cache.cc` | as caches, and PROCESSED | the same, and `handle_processed` in the L1 caches | L1 caches by slot index, walker |
| Page table walker | `src/src/page_table_walker.cc` | RQ, PQ, MSHR, PSCL2..5, radix tree, page maps | `operate`, `handle_page_fault`, `va_to_pa_ptw`, `return_data` | STLB, DRAM, every cache when a page is swapped |
| Front end | `src/src/ooo_cpu.cc:30-860` | IFETCH_BUFFER, DECODE_BUFFER, BTB, `fetch_stall`, `fetch_resume_cycle` | `read_from_trace`, `fetch_instruction`, `decode_and_dispatch`, `fill_btb` | trace, L1I, ITLB, ROB |
| Core | `src/src/ooo_cpu.cc` | ROB, LQ, SQ, STA, RTL0/1, RTS0/1 | dispatch, `schedule_instruction`, `schedule_memory_instruction`, `check_and_add_lsq`, `execute_store`, `execute_load`, `update_rob`, `retire_rob` | L1D, DTLB, LLC (graph calls) |
| Main loop | `src/src/main.cc` | per-core flags of warm-up and completion, statistics windows, deadlock clocks | one turn of each core, `finish_warmup`, end of simulation, heartbeat | every part |
| P-OPT | `src/replacement/p-opt-intra.llc_repl`, `src/src/cache.cc:30-134` | rereference matrix, array bounds, current vertex | `registerGraphs`, `updateRegBaseBound`, `updateCurrDst`, `next_access`, `llc_find_victim` | LLC, trace reader |
| Signature path prefetcher | `src/prefetcher/kpcp.h`, `kpcp.l2c_pref` | signature table, pattern table, page bitmaps, feedback counters | `l2c_prefetcher_operate`, `PF_check`, cache fill | L2C |
| `fastset` | `src/inc/set.h` | sorted array or bit set in one union | `insert`, `join`, `search`, `expand` | packets, instructions |

**The graph suites** are programs of their own; they are multi-threaded, and share arrays between the threads of a parallel loop, partly with compare-and-swap, partly with plain loads and stores that are argued to be harmless.

| Part | Code | State | Operations |
|---|---|---|---|
| GAP builder | `src/data/gapbs/src/builder.h`, `tc.cc` | edge list, cursors, CSR rows in new memory or over the edge list | count, fill, squish, in-place inverses, relabelling, counting triangles |
| GAP kernels | `src/data/gapbs/src/cc.cc`, `cc_sv.cc`, `bfs.cc`, `bc.cc`, `sssp.cc` | `comp`; parents, sliding queue, bitmaps; distances, shared and private bins | hook, link, compress; top-down and bottom-up steps; relax, vote, copy bins |
| Ligra engine | `src/data/ligra/ligra/ligra.h`, `vertexSubset.h`, `src/data/ligra/apps/` | vertex subsets sparse and dense, program arrays | `edgeMap` in its directions, `vertexMap`, `vertexFilter`, sparse output and `remDuplicates` |
| Ligra+ | `byte.h`, `nibble.h`, `byteRLE.h`, their `-pd` forms, `encoder.C`, `compressedVertex.h` | one array of codes, offsets, degrees | encode, decode in both directions, `packOutNgh` |
| Julienne | `src/data/ligra/ligra/bucket.h` | open buckets, overflow, `d` of the client | `make_buckets`, `next_bucket`, `update_buckets`, `get_bucket` |
| Primitives | `utils.h`, `sequence.h`, `blockRadixSort.h`, `transpose.h`, `quickSort.h`, `sparseSet.h`, `histogram.h`, `counting_sort.h`, `sequentialHT.h` | arrays cut into blocks, counters of each block, tables with linear probing | reduce, scan, pack, filter, sorts, insert, histogram |

What is hard, and what makes each part correct:

* **Packet queue.** `head = tail` means full and empty. Correct: it is a bounded first-in first-out queue, and a search finds the oldest match in every position of the ring.
* **DRAM controller.** A change of mode takes banks away from requests in flight; four cached pointers, two counters and one record per bank are updated by hand in five places. Correct: they agree at every step, no request is lost, and the controller never stops serving, whatever it is asked.
* **Cache.** Requests for one block meet in RQ, in PQ and in an MSHR, each time under other merge rules, and the answer is worked out from the flags that survive. A dirty victim and a full queue below stop a handler halfway. Correct: one answer for each waiting requester, no dirty data lost, no two copies except in one known way, reads do not wait for ever.
* **Translation path.** Requests wait by index in a queue whose slots are reused; indices are merged, taken over and dropped in two TLBs. Correct: each waiting request is named by a packet in flight, and gets the translation of its own page.
* **Walker.** Warm-up and normal operation call in different orders; a demand miss takes over a prefetch that is then dropped; a swap must reach every copy. Correct: page table, tree, PSCLs and STLB tell the same, each miss has exactly one walk, demand misses are answered.
* **Front end.** Reading stops at a branch that will have been mispredicted, and decode or execution resumes it; BTB is read and written cycles apart. Correct: exactly one branch explains a stall, BTB knows the last target, the trace comes to its end.
* **Core.** Loads and stores enter LQ and SQ out of order, a load may be completed by four different paths, and slots are named by indices that outlive them. Correct: data of program order, one completion for each operation, sanity checks unreachable but for one, one deadlock only.
* **Main loop.** Cores reach the end of the warm-up and of their simulation in the middle of a round. Correct: figures cover the cycles they claim, alarms are raised for cores that are stuck and for no others.
* **P-OPT.** Bytes that mean two things, an index one epoch ahead, a bypass that is allowed for one kind of request only. Correct: the matrix gives the next read of each line, lookups stay inside, the victim is the block that is needed last.
* **Prefetcher.** Counters that are halved and replaced while shares of them are multiplied along a path. Correct: the shares never exceed the whole, so the walk ends, and the bitmaps follow L2C as far as tags of pages and page swaps let them.
* **Kernels and engine.** Plain reads and writes race by design; improvements are re-examined in later rounds. Correct: the results are exact for every interleaving of accesses.
* **Builder, codes, buckets, primitives.** In-place rewriting, blocks that end within a row, old copies left behind. Correct: the result is that of the sequential definition.

## Modules

| Module | Models | Checked by |
|---|---|---|
| `PacketQueue` | `PACKET_QUEUE` as a ring of addresses; implements `Fifo`, the abstract bounded queue | `parts` |
| `EarliestEvent` | the four `update_*_cycle` loops of the DRAM controller: first slot with the least event cycle | `dram` |
| `DramController` | one channel of `MEMORY_CONTROLLER` | `dram` |
| `L2Cache` | `CACHE` as L2C, with L1I, L1D and LLC as environment | `l2_answers`, `l2_blocks` |
| `TranslationPath` | waiting requests of L1D, `CACHE` as DTLB and STLB, PROCESSED; the walker answers or drops | `translation` |
| `PageTableWalker` | the walker with its PSCLs, tree, page maps and swaps, and STLB's side of a walk; DRAM answers and merges | `page_walker` |
| `FrontEnd` | trace, branch kinds, BTB, fetch, decode and dispatch; ROB as far as it resolves branches | `front_end` |
| `O3Cpu` | the core from dispatch to retirement, with L1D as environment | `o3_core`, `o3_live`, `o3_forward_check` |
| `POpt` | rereference matrix, lookup, victim, the calls of the trace | `popt`, `popt_victim` |
| `FastSet` | `fastset`; implements `GrowingSets`, what the core expects of it | `parts` |
| `SimulationLoop` | the main loop over several cores, its windows and its alarms | `parts` |
| `SignaturePath` | the signature path prefetcher | `parts` |
| `EdgeCodes` | Ligra+'s codes, encoder, decoders and `packOutNgh` | `parts` |
| `ThreadedGraphs` | graphs, and reference definitions (components, levels, distances) for the kernels | `parts` |
| `ComponentKernels`, `LevelSearch`, `DeltaStepping` | GAP's `cc`, `cc_sv`; `bfs`, `bc`; `sssp` | `parts` |
| `GraphBuilder` | GAP's builder both ways, relabelling, triangle counting | `parts` |
| `EdgeMap`, `SparseOutput` | Ligra's `edgeMap` under five programs; the blocked sparse output and `remDuplicates` | `parts` |
| `Buckets` | Julienne's buckets and its three clients | `parts` |
| `BlockedSequences`, `ParallelSorts`, `HashTables` | Ligra's primitives | `parts` |
| `MCParts` | the parts that do not interact, in one state space: `moving` says which of them takes steps, the others stay in an initial state | |
| `DramControllerProofs`, `L2CacheProofs`, `TranslationPathProofs`, `PageTableWalkerProofs`, `FrontEndProofs`, `O3CpuProofs`, `POptProofs` | theorems about the module of that name and their proofs | `tlapm` |
| `PartsProofs` | the same for `PacketQueue`, `FastSet`, `SimulationLoop` and `ComponentKernels` | `tlapm` |

An operator whose name ends in `Fault` is the operator after it with one plausible mistake. Faults are used by no specification. Each shows that a property would notice the mistake.

**State and actions.** In the models of the simulator a queue keeps the fields the properties tell apart: the address, the scheduled bit and the event cycle in DRAM, type, fill level and recipients in L2C, index sets in the TLBs. The DRAM queues and the MSHRs are used without `head` and `tail`, so they are slots and sets there. `operate()` is split at its handlers (`pc`, or an action each) in the order of the code; calls of other components fall between two `operate()`, as in the loop. `DramController`, `FrontEnd` and `SimulationLoop` count cycles, because decisions depend on them; the other models leave the time a packet needs open. An instruction in `O3Cpu` is its registers and addresses; its slot in ROB is its number modulo `RobSize`. An index of a waiting request in `TranslationPath` is the slot of L1D's queue, which may be freed and taken again. A virtual page in `PageTableWalker` is a number whose digits index the levels of the tree, as the bits of `full_virtual_address` do; frames are numbers handed out in order until they run out, then taken from the first page of the map, because the code never records which pages were used recently.
Asynchronous effects that would happen in a call (DRAM answering at once during the warm-up, or forwarding from its WQ) are part of the action that makes the call.

In the graph suites a step is one access of one thread to memory that threads share, or one iteration of a parallel loop where iterations share nothing; a compare-and-swap or an atomic addition is one step. Threads take the next piece of a loop when they are free, whatever the scheduler would do. Barriers of OpenMP and the end of a `parallel_for` are guards. Local computation is a helper operator. Variables under "History" are read by no action.

**Environment.** `L2Cache`: an upper cache asks for a block if it is not waiting for it and has an MSHR free, and for a write back of data it may hold; LLC answers what is in flight in any order, and its WQ may or may not have room. `DramController`: any block may be sent to any queue that reports room, once per block until it is served, with an event cycle up to `MaxAge` in the past. `TranslationPath`: the walker may answer any miss at any time and may drop a prefetch, which is what `PageTableWalker` does; L1D takes a translated prefetch from its PQ, and frees the slot, only after the second packet for it in PROCESSED has been handled. `PageTableWalker`: STLB misses are demands or prefetches for any page; other traffic of DRAM may hold a block of a translation page. `FrontEnd`: the trace is a walk through `Code` chosen as it is read; the predictor may answer anything; L1I answers at any time. `O3Cpu`: programs are all sequences over a set of instructions; L1D accepts loads and answers any set of them together. `POpt`: graphs, the order of visits and the accesses to LLC are arbitrary, after the calls of `src/testcases/bfs.cc:50-53`; DRRIP, where the code falls back to it, may choose any way. `SimulationLoop`: a core retires up to `RetireWidth`, or waits, or has an empty ROB; a new head of ROB may have been due at any time before. `SignaturePath`: a given stream of accesses, any room in PQ, evictions at any time, of blocks that are on their way too, and a page swap at any time, which may leave out a block that is on its way. `GraphBuilder`: the word behind an array that the in-place builder reads past its end is any of `WordsAfter`.

## Runs

| Run | Question | Bounds |
|---|---|---|
| `dram` | Do banks, counters, pointers and queues agree, is every request kept, and is some request served at least every three row misses, although calls never end, modes change and the bus postpones? | 3 blocks: 2 rows of one bank, 1 of another; RQ 2, WQ 3; calls and cycles without end (`VIEW`) |
| `l2_answers` | Is each waiting cache owed exactly one answer, whatever is merged with what, and does every read get it? | 2 blocks, 1 way, RQ 2, WQ and PQ 1, 1 MSHR, one in each upper cache |
| `l2_blocks` | Is dirty data kept, and when does a set hold a block twice? | 3 blocks, 2 ways, RQ 2, WQ and PQ 1, 2 MSHRs |
| `translation` | Does every request of L1D that waits for a translation stay named, and get its own page? | 3 pages, a read, a write and a prefetch; DTLB with 1 slot and 1 MSHR, STLB with 2 and 1 |
| `page_walker` | Do tree, tables, PSCLs and STLB agree through faults and swaps, has each miss one walk, is each demand answered? | 3 levels of 2 entries, 3 pages, 6 frames, PSCLs of 2 and 1 ways, 2 STLB MSHRs |
| `front_end` | Is a stall explained by one branch, is BTB up to date, does the trace end? | 6 instructions of 4 kinds of branches, buffers of 2, ROB 1, BTB of 1 way |
| `o3_core` | Do loads read what program order says, and is each memory operation done once? | 4 instructions of 5 kinds, ROB 3, LQ 2, SQ 2 |
| `o3_live` | Does everything retire, but for one known deadlock? | 5 instructions of 4 kinds, ROB 4, window 4, LQ 1, SQ 2 |
| `o3_forward_check` | Can the sanity check of `execute_store` fail? It can (see below). | 3 instructions with 2 addresses each |
| `popt` | Is the matrix exact, the lookup safe and inside, a write back always placed? | 10 vertices, 5 epochs of 2, lines of 3, bytes with 2 instead of 7 bits, 2 ways |
| `popt_victim` | Is the victim the block read last? It is not. | the same |
| `parts` | Is each part that stands alone exact? | below |

`parts` has eleven properties. `RingConsistent`, `CheckQueueExact` and `ImplementsFifo` are about the packet queue (4 slots, 3 addresses); `ImplementsSets` about `fastset` (6 members, arrays of up to 5, words of 4 bits, two sets). `SearchExact` about its searches. `LoopExact` is about the main loop (1 and 2 cores, warm-up 1, simulation 2, alarm after 3 cycles). `SignaturePathSound` is about the prefetcher (tables of 2 or 3 entries, pages of 8 blocks, tags of two bits and two pages with one tag, one page swap and one block that leaves L2C, counters up to 4, so that halving and replacement occur). `ListsExact` decodes, in both directions, lists of a graph of 8 vertices in 12 forms of code with a base so small that codes are up to three units long, runs of two, and offsets of one byte. `ComponentsExact` has two threads on graphs of six nodes, one of them without edges, and so have the distances in `GapExact`; the searches there have one more graph, which takes them down, bottom up, down and bottom up again, the last time with the bits of an older level; the third part of `GapExact`, `GraphExact`, has two threads build a graph from lists of four and ten edges; `LigraExact` has five programs on four graphs, Julienne's three clients with two open buckets, frontiers cut into blocks of two edges, arrays of up to ten elements in blocks of two, sorts with a radix of one bit, and tables with colliding keys.

Why the bounds are enough. DRAM: with two rows in one bank there are row hits and misses, with a second bank two requests are in service together; WQ 3 gives `DRAM_WRITE_HIGH_WM` 2 and `DRAM_WRITE_LOW_WM` 2, so that both changes of mode occur with requests in flight. Calls never end, so write mode can be kept by a WQ that is never drained, and row hits overtake misses again and again. The controller only compares cycles with each other and with `current_core_cycle`; `View` in `MCDram` takes states for one whose cycles differ by a shift, which leaves finitely many, and no bound on the clock is reached. `Latency(FALSE)` is the time of a row miss; a request that is served may come after two that lost their banks to a change of mode, so three of them are the bound, and one cycle less is not. L2C: two blocks are one to be merged and one to compete for the MSHR or the way; RQ is as large as both upper MSHRs together, as in `inc/cache.h`. Three blocks in two ways make evictions of clean, dirty and doubled blocks. `SYMMETRY` interchanges blocks only, in a run without liveness. Translation: three pages compete for one slot or MSHR in each TLB, and the three kinds of request use the three index sets. Walker: three levels give the top PSCL, the lowest and a direct walk; pages 1 and 2 share the upper entries partly and 5 not at all; six frames hold the translation pages and fewer data pages than there are, so pages and translation pages are swapped. Front end: ROB 1 with buffers of 2 backs up into fetch; one BTB way is replaced by every other branch. Core: ROB 3 wraps around with four instructions; LQ 2 and SQ 2 are smaller than what two instructions ask for. `o3_live` has a window that holds more loads than LQ has slots, so LQ does get exhausted in it. P-OPT: five epochs with distances that saturate at 3 reach the saturation; ten vertices leave the last line and the last block incomplete, and `Offset` 1 puts the array off a block boundary. In `parts` each constant is small enough that its limit is crossed: arrays of one, several and an incomplete block, sums that are themselves summed in blocks, both directions of search, private bins that overflow into shared ones, buckets beyond the open range.

`CHECK_DEADLOCK FALSE` stands where the bounded clock, program, trace or computation ends, or where an idle component may have nothing to do. `dram`, `popt` and `popt_victim` never stop. The largest runs have 790 000 (`parts`), 740 000 (`l2_blocks`), 400 000 (`dram`) and 250 000 (`front_end`) distinct states, the others between 1 000 and 200 000; none uses a state constraint.

**Fairness.** `l2_answers` assumes weak fairness of `operate()`, and strong fairness of the turns a handler takes on a request and of the answers of LLC: a packet at the head waits a fixed latency and is ready in a later cycle, and LLC answers and drains however busy it is. `translation` assumes weak fairness of each handler, which runs in every cycle, and of the walker's answers; what L1D does with a translated read or write is not assumed. `page_walker` assumes that `operate()` runs while something is pending, that DRAM answers, and that STLB handles what returned. `front_end` assumes weak fairness of the cycle, and strong fairness of execution, of the acceptance of a read by L1I (sent again in every cycle) and of its answers. `dram` assumes none: `SomeoneServed` is a bound in cycles. `o3_live` assumes weak fairness of each stage for each instruction, as each stage runs every cycle, and that L1D accepts and answers.

### What the runs found

Violations:

* `o3_forward_check`. `execute_store` goes through all loads of every dependent instruction. If instruction 0 stores x and y, 1 stores x, and 2 loads x and y, then 2 depends on 0 for y, and the store of 0 to x meets the load of x in 2, which belongs to 1. The sanity check aborts. Instructions that touch two addresses one of which another store overwrites are needed; the programs of `o3_core` have none.
* `popt_victim`. `next_reference` is reset in the loop before the one that needs it, so it is a minimum over all ways up to the current one. Only way 0 or a bypass can be chosen. `t-opt` and `p-opt-inter` contain the same loop.

Behaviour that a property has to except; each exception is named in the property and reached by its run:

* `popt`: `next_access` measures the position in the epoch from `epoch * numCacheLines`; the matrix is built with `epoch * vertices_per_epoch`. From the second epoch on the intra-epoch distance has no effect; `LookupSafe` leaves out lines whose last read of the epoch is over. There the distance of the next epoch also compares with 127 where the byte carries its MSB.
* `o3_live`: the core can stop for ever. `check_and_add_lsq` (`src/src/ooo_cpu.cc:1162`) gives slots of LQ to whichever load is ready, with no reserve for the oldest instruction. If all slots are held by loads that wait for a store, and the store waits, through a register, for an older load that has no slot, nothing retires any more, and the main loop ends in `print_deadlock`. For example, with one slot: instruction 0 computes a register, load 1 and through it store 2 need it, and load 3 reads what 2 stores; 3 takes the slot before 0 is executed. `RetiresUnlessExhausted` has this state (`LqExhausted`) as its one exception; without it (`EveryInstructionRetires`) the same run finds the counterexample, so the core stops in no other way. With the sizes of the code it takes 128 such loads in a window of 128 memory instructions, of which one may have several.
* `parts`, prefetcher: a tag is the low 16 bits of a page number and the table has one set, so two pages may share an entry, and the bits of one keep the blocks of the other from being prefetched; a block that leaves clears the bit of the other page, too. A page swap invalidates blocks of L2C without a word to the prefetcher; the bit stays until the way, which keeps the address, is filled. `SignaturePathSound` says for which blocks a bit may stand.
* `page_walker`: a swap does not change the radix tree; the page that lost its frame still walks to it (`Lost`). A prefetch that hits in the top PSCL reads entry 0 of the page instead of its own (`zero` in `WalkReadsEntry`). A translation page that gets a frame for which DRAM still works makes the walker's assertions fail (`FailsOnlyAfterSwap` shows that nothing else does).
* `translation`: `retire_rob` ignores that `add_wq` was refused for want of room in DTLB.RQ; the store is gone. `WaitersNamed` is about requests that were added.
* `front_end`: BTB is not filled during the warm-up, and the first record of a trace is executed twice.
* `parts`, codes: a missing `break` misreads runs of three-byte differences with four-byte weights (`Misread`); filtered lists coded in runs or chunks may outgrow the list they overwrite.
* `parts`, main loop: with several cores one that works hides all whose ROB stays empty, and the heartbeat between a core's own warm-up and the common end of the warm-up divides figures of different windows (`HeartbeatExact`).
* `parts`, builder: in place, the loop over the missing inverses reads one word past its array and shifts the rows by it (`Stray`).

Further limits of the positive results:

* `SomeoneServed` is about the controller, not about one request. A single request may wait for ever: write mode is kept while WQ holds `DRAM_WRITE_LOW_WM` requests or more (`src/src/dram_controller.cc:84-87`), and requests that find their row open overtake older ones (`src/src/dram_controller.cc:137-200`).
* `ReadAnswered` is about reads. Prefetches have no turn in a cycle in which a read was taken (`src/src/cache.cc:2921`), so reads in every cycle keep them waiting. For the same reason `DemandAnswered` does not speak of a demand that took over a prefetch in the walker's PQ while RQ is never empty for good.
* P-OPT is checked relative to `curr_dst_vertex`. The trace reader sets it when the call is read, a ROB ahead of the accesses to LLC.
* The kernels are checked for sequentially consistent memory and for schedulers that hand out pieces of loops in any order; weaker memory is not modelled.

## Proofs

The eight proof modules hold for every value of the constants that satisfies the named assumption of the module. These are: sizes are positive, addresses have a bank and a row, times are natural numbers; RQ of L2C has a slot for each MSHR of L1I and L1D (`inc/cache.h`); RQ of the STLB one for each entry of L1D's PQ and each MSHR of the DTLB, PROCESSED one for each entry of L1D's RQ and WQ; RQ of the walker one for each MSHR of the STLB, and the machine has more frames than the tree has levels, so that the first walk swaps nothing; a `fastset` is an array for more than one member; the deadlock check waits for more than one cycle; an instruction reads and writes finitely many addresses; nodes of a graph are natural numbers, `net.in` holds the edges of `net.out` by destination, which in an undirected graph are the same ones (`Built`, which is what the builder makes), and Afforest samples at least one neighbour; and for P-OPT `MAX_REREF` is at least 1, a byte can hold the number of every sub-epoch, and a line has no more vertices than there are epochs (at most 16 of 4 bytes, and 256). In the sections below a named conjunct is a definition of the proof module.

Every safety theorem has the same form: `Init => IInv`, `IInv /\ [Next]_vars => IInv'` with a lemma for each action, and `IInv` implies the property. What differs, and is told here, is what has to be added to the property to make it inductive.

**PacketQueue.** `IInv` is the type invariant, the equation between `head`, `tail` and `occupancy`, and "a slot is not empty iff it lies in the window of `occupancy` slots from `head`". `RingConsistent` states the last part by positions (`SlotOf`), which the proof derives from the window. `CheckQueueCorrect` shows that the order in which the two loops visit the slots is the order of arrival, and `RingImplementsFifo` is the refinement with `Items` as the abstract queue: each operation of the ring maps to one of `Fifo`.

**FastSet.** `SetInv` says that the array of a small set is in increasing order and that `card` is its length (`Reps`); it is needed for everything else. One lemma for each operation says that it adds to what the set holds (`Holds`) exactly what it is given and keeps the form: `InsertSmallAdds`, where the order is what keeps a value from being there twice, `InsertedAdds` with the change to a bit set, `JoinedAdds`; `WordsReach` shows that the words that are joined reach the last member. The values that `join` inserts one by one are a recursion over the array, whose function is shown to exist (`InsertsExist`) and then followed up to the first step at which it would go wrong. From these lemmas `FastSetsAreSets`, the refinement of `GrowingSets`, is immediate. `SearchesFind` follows a binary search in the same way: after each round x is nowhere outside the interval, which has lost at least one value (`NextRangeNarrows`).

**SimulationLoop.** `LoopInv` in `PartsProofs` adds to `LoopExact` what ties the counters to the cycles. Cores take their turns in order, so they are at most one cycle apart (`InStep`). A counter of warm or done cores is the number of those cores (`Counted`), so that when it reaches `NUM_CPUS` all are. `WindowOpen` gives, from the end of the warm-up on, the cycles of the window as the cycles counted plus those stalled, and for LLC one less or one more while the turns of core and LLC differ (`SharedCount`); a core between its cycle and the check of its completion may be up to `RetireWidth` instructions further (`Unchecked`). `ClockShared` is about the one clock for all empty ROBs: while it runs, each core that has been looked at since was empty, and at most one cycle later than the clock says. This proof corrected two statements that the small instance did not refute: an alarm is compared with the cycle of the core that raises it (with three cores another one may be a cycle behind), and the heartbeat between the two warm-ups is right if there are no instructions to warm up.

**ComponentKernels.** The hard part is to say what a racing thread knows. `ComponentInv` does not describe the trees of labels; it calls two nodes the same (`Same`) if no set that contains a node exactly when it contains its label tells them apart, and together (`Together`) if no set closed under edges does. Both are equivalences whatever the labels are, so no path has to be followed and no induction over one is needed. The proof has two laws of change: a root that is hooked to any node (`RootHung`), and a node that is hung under a node that is the same as its label by lower nodes alone (`LabelRaised`), keep all that is the same. This makes `Link` correct although its loop climbs through values that are out of date: all of them are the same as one of the ends of the edge (`Climbing`), so the compare-and-swap that succeeds joins the ends. `Compress` is correct because only one thread writes the label of a node there, lower labels only, and a node that is settled stays so (`Compressed`). An edge of Afforest is joined, or in the hands of a thread, or left for a later loop (`Sampled`, `Linked`, `AllLinked`); one whose node was skipped is joined from its other end, where an undirected graph has it too and the incoming edges of a directed one are gone through as well, unless that is skipped, and then both ends are the same as the component left out (`EdgesAgree`). In Shiloach-Vishkin a plain store may undo another one, so nothing is joined for good; what counts is a round without a store (`Hooked`): until its first store all labels are roots, and a thread that finds different labels at an edge would find a root to hook. When the loops are through, the ends of every edge have one label, so the nodes with that label are a closed set, and contain the component; `Descending` makes the label its least node.
The proof corrected the model, which let `Compress` read and store in one step, and stored the label three levels up where the code stores the one two levels up; now `GrandParent` reads and `Shorten` stores.

**DramController.** `IInv` in `DramControllerProofs` joins types, bank ownership, fresh pointers, exact counters and "a scheduled slot is occupied". None of these is inductive alone: `process` acts on the slot a cached pointer names, so freshness is needed to know it is scheduled, ownership to know its bank works for it, and exactness to know the counter is positive; a change of mode preserves ownership only because the other queue has nothing in service, which is the last conjunct of `BankOwnership`. There is one lemma for each operation (`AddIInv`, `SwitchIInv`, `ChooseModeIInv`, `StartIInv`, `ScheduleIInv`, `FinishIInv`, `PostponeIInv`, `ProcessIInv`) with one step for each conjunct. Its first part is about `EarliestEvent`: the search returns a least element and depends only on the slots it searches (`PointerCongruence` builds on that to see when a pointer stays fresh).
The last part derives from `IInv` that requests are kept (`RequestsKept`) and, with the invariant `BankTiming` on when banks become available, that open rows are active (`OpenRowHolds`) and that the turn-around is respected (`TurnAroundHolds`). The last one needs `TurnAround <= tCAS`, which the constants of `dram_controller.h` satisfy (7.5 ns and 12.5 ns): the addition to `dbus_cycle_available` in the code does not ensure it.

**L2Cache.** `IInv` in `L2CacheProofs` joins types, `FillsInFlight`, `DirtyKept` and `Copies`. `Copies` is what makes `CopiesOnlyByOverlap` inductive: a block that is in flight and was not written back in the meantime is in no way of the set, one that was is in a single way, and there are never three; without the first part nothing keeps a fill from making a second copy. `FillsInFlight` is needed with it, because only a single miss per address ensures that after a fill no other fill of that block follows. `OthersKept` and `DirtyElsewhere` say what filling a way does to all other blocks, `BlocksAlone` reduces every step that fills nothing to "a miss begins only for a block that is not there".
The second part of the module proves `OneAnswerOwed` (`AnswersOwed`). Its invariant `Answers` has four parts that need one another. `Forms` gives the flags a packet can have in RQ, in PQ and in an MSHR: a read packet names exactly one of L1I and L1D unless `send_both_cache` is set, a prefetch is for L1 exactly when a fill flag is set. The three merge rules are correct for packets of these forms only (`RqMergeAnswers`, `PqMergeAnswers`, `MshrMergeAnswers`), and the rule of the MSHRs only when the packets answer different caches, which is the second part, `Owed`: each wait has an asker in exactly one of RQ, PQ and the MSHRs. The addresses in a queue differ (`Distinct`), so the head takes all askers of its address with it. `Bounded` counts the waits: every entry of RQ is waited for, so an upper cache with a free MSHR finds RQ not full (`RoomInRq`), which is why the refusal of a packet, which no caller of `add_rq` looks at, never happens.

**TranslationPath.** `WaitersNamed` says that whoever waits is named. `IInv` in `TranslationPathProofs` adds the converse: whoever a packet names waits, for the page of that packet (`DtlbNames`, `StlbNames`), and is named by one packet only (`DtlbOnce`, `StlbOnce`). Without it an old packet could complete a slot that was taken again, and the packets in a queue could not be counted. They have to be counted because `add_rq` of a full queue would lose a request: a packet for a prefetch stands for a slot of L1D's PQ, one for the DTLB for an MSHR there (`Asked`: an MSHR without an answer is asked for by exactly one packet of level 1 in the STLB), so RQ of the STLB has room (`StlbHasRoom`), and PROCESSED has in the same way (`DoneHasRoom`). In PROCESSED of the STLB there may be two copies of one packet (`Times`); the second one names requests that wait no longer but whose slots are still taken (`Pending`). This is where the first attempt failed, and the model was wrong: it let L1D take a prefetch between the two copies and reuse its slot, which the code excludes, because L1D takes a request `L1D_LATENCY` cycles after its completion at the earliest and PROCESSED hands on a packet in every cycle. `HandlePrefetch` has that guard now. `NamesAreCurrent` states the converse as a theorem of its own, and `AnswersFindMshr` that the answers of the walker find the MSHR that `return_data` asserts. The run has one slot in PQ; the theorem covers any number, and `IInv` was also checked by TLC with two, where two prefetches merge (the liveness property makes that instance too long for the run).

**PageTableWalker.** For `OneWalkPerMiss` what is mapped where plays no part: `NamedOnce` says that the pages that wait in the STLB are the pages named in RQ, in PQ and by the walk in progress, and that these three sets have no page in common. RQ has room for every request because each of its entries stands for an MSHR of the STLB, and the page that asks is not among them (`MissesFit`, `RequestFits`); `RequestsAlwaysFit` states it as a theorem, and shows that the assertion in `add_rq` and its silent refusal are never reached. After an assertion of the walker failed, which only a swap leads to, nothing is claimed (`IInv` is `~failed => Sound`), because the program ended.
`PagingStaysConsistent` and `WalksAreSound` are the second half of the module. The invariant `Paging` describes the tree by what it holds, not by how it was filled: an entry has the entries above it, and a page that has a frame has an entry that names it (`TreeOk`); frames are handed out in order, page_table and its inverse are injective (`FramesOk`); the PSCLs and the STLB hold what the tree holds (`Cached`, `StlbOk`), answers under way too (`Answered`); and the PSCLs that a walk will fill do not hold its page (`Walking`), without which it would enter an index twice. A page fault fills the levels of the tree in a recursion; each level keeps the description, and the proof looks at the first one that would not. Swaps are the difficulty: a swap may take the frame of a translation page. Either all translation pages still have their frames (`Intact`), or a frame went from a page of the program to a translation page (`Taken`), because a swap takes the first page of the map, which is one of the program (`Populated`) until the last one is gone. Only in the second case can DRAM hold a block of a frame with a new owner (`InDram`), so only then can an assertion fail: this is `FailsOnlyAfterSwap`. The assumption that there are more frames than levels is needed for the first walk, when no page of the program has a frame yet.

**FrontEnd.** `StallExplained` counts the branches that wait. `IInv` in `FrontEndProofs` says where the one that waits is: it is the last instruction in IFETCH_BUFFER, DECODE_BUFFER and ROB together (`Youngest`), because nothing is read behind it. `Stalled` ties it to `fetch_stall` and `fetch_resume_cycle`. For `BtbUpToDate` two more parts are needed: a taken branch that waits carries the target it was last taken to, and only a taken branch can miss (`Knowing`), so that filling BTB stores the right target however late it happens; and BTB has one way for a branch and is wrong only about a branch that waits (`BtbInv`). `BuffersBounded` has the types and the limits of the buffers.

**O3Cpu.** `IInv` in `O3CpuProofs` gives for each entry of ROB, LQ and SQ what the other arrays hold about it. `LoadInv`: a load in LQ is the one its instruction knows by that slot; without a producer no older instruction in ROB stores to its address, with one the producer is the youngest that does, has not executed that store, and lists the load's instruction among its dependents. `ClaimInv`: a load without a producer is in exactly one of the list of ready loads and L1D. From these follow `LoadsServed`, which counts the claims on a slot, and `ReadsYoungestStore`. `EntryInv` says that an executed instruction has nothing left in LQ or SQ to execute; this is why a slot that is freed is not claimed by anybody. `MemOpsExact` is inductive with them; its proof counts the sets from which an operation is moved. `Window` describes SQ backwards from `SQ.tail`, and `StaInv` that STA is sorted, which gives `StoresInOrder`: a store enters SQ only when it is at the head of STA. `RawInv` says of a scheduled instruction that it waits for the youngest writer of each source until that one is executed, and gives `RawRespected`.

**POpt.** The matrix is computed by a recursion from the last epoch backwards (`ReRefMatrix`). What a recursion computes is in general out of the prover's reach, as it needs induction over data. Here it can be avoided: the closed form of a row is known, since `MatrixExact` is the definition of it (`ByteOf`). `RowSolves` shows that it satisfies the equation of the recursion, and `OneSolution` that two solutions agree, by looking at the last epoch where they would differ; with both, `MatrixIsExact` follows. `IInv` in `POptProofs` only says in addition that the matrix is that of the registered graph and that no block is twice in the set. `LookupIsSafe` rests on vertices of an epoch being no more than lines: only then does the position in the epoch, measured from the wrong origin, err to the safe side; and on the last column being `MAX_REREF`, behind any position, so that `next_access` does not look at the epoch after the last one. `WriteBackGetsWay` needs that distances are numbers, which is the same fact, so that a largest one exists for every set of blocks.

**Only model-checked.** All liveness properties: fairness and ENABLED are beyond the prover. Everything else in `parts` but the packet queue, `fastset`, the main loop and the component kernels. Of codes, sorts and primitives, what they compute is given by recursive operators or folds over lists, and is proved by induction over data, which the installed provers cannot do; levels, distances and numbers of paths are in the same way defined by recursion. The prefetcher's signatures need `Bitwise`, which cannot be reached from a theorem. `ForwardingConsistent` and `FarthestEvicted` are false.

## Not modelled, and the plan

Abstracted in the modelled parts: printing and counters without effect, replacement order (any victim), latencies outside of DRAM, several cores except in `SimulationLoop`, several DRAM channels, floating point.

Not modelled:

* **L1 caches and LLC.** They run the handlers of `L2Cache` with virtual addresses, other fill levels and bypass; `TranslationPath` has the part of L1D that only L1 has. `invalidate_entry` leaves the dirty bit of a block it invalidates (`src/src/cache.cc:3102`); it is called by the page swap only, and belongs to a composition of the walker with the caches.
* **ITLB**, which mirrors DTLB, and the STLB prefetcher. **Other replacement policies and prefetchers**: heuristics on which no other part relies; `t-opt` and `p-opt-inter` share the loop of `p-opt-intra`.
* **Options, trace files, wiring and printing** of `main.cc`; the tracers, converters and scripts; the readers and writers of graph files: input and output.
* **PageRank, the second phase of Brandes' algorithm, the local algorithms**: floating point. **Hypergraphs** (`hygra.h`): `edgeMap` over two kinds of vertices repeats `ligra.h`.

What would come next:

1. L1 and LLC variants of `L2Cache` (fill levels, bypass), and L2C composed with LLC, to replace the assumption that LLC answers; with it, `invalidate_entry` and the composition with `PageTableWalker`: the blocks of a page that was given away are not written back.
2. Abstract specifications: a memory that answers each request once, implemented by `L2Cache`; program order for loads, implemented by `O3Cpu`.
3. Theorems: the action properties of the runs that follow from the invariants proved.
