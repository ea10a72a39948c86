# Verification of the FlashAttention IP (flash-attn-rtl)

TLA+ models of the RTL under `src/rtl`, of the C++ reference model (`src/cmodel`),
of the C inference programs (`src/inference/native`) and of the Verilator
testbench (`src/dv/verilator_cpp`), TLC configurations that check them on small
instances, and TLAPS proofs for every value of the constants. The RTL that is
modelled is the one `fa_attention_ip_top` instantiates; the other tests under
`src/dv` and the documents were read for how the host and the memory behave and
for what the IP is supposed to do.

## 1. The system

The repository has three programs around one algorithm, and they meet in the
algorithm only: the IP, a reference model that computes the same numbers, and a
language model that uses the algorithm in software.

### The IP

It computes scaled dot-product attention on matrices in memory, tile by
tile, without storing the score matrix. Everything runs on one clock.

    host <--AXI4-Lite--> fa_axi_lite_regs --start, reset, bases--> fa_attention_core
                           |        ^  ^                             |      |   |
                         start      |  +------- busy, done ----------+      |   |
                           v        |                                |      |   |
                    fa_perf_counters <--------- events --------------+      |   |
                                                                            |   |
    memory <--AXI4 AR/R----> fa_dma_reader <------ command, words ----------+   |
    memory <--AXI4 AW/W/B--> fa_dma_writer <------ command, words --------------+

| component | state | operations | interacts by |
|---|---|---|---|
| read engine `bus/fa_dma_reader.sv` | FSM, burst address and length, words left in command and in burst, sticky error, byte count | accept a command, send a burst address, pass a word on | `cmd_valid/ready` and `out_valid/ready/last` with the core, AR/R with the memory |
| write engine `bus/fa_dma_writer.sv` | FSM, address, length, beat count, sticky error, byte count | accept a command, send the address, take a word, take the response | the same with AW/W/B |
| core, master FSM `core/fa_attention_core.sv:640-975` | state, tile indices, fill counters, Q/K/V/O buffers, two K/V banks, output counters, `busy`, `done` | one per state, and the soft reset | pulses `comp_start`/`comp_done` with the compute FSM, commands to the engines |
| core, prefetch FSM (inside `S_COMPUTE`, `:757-869`) | state, fill counter, target bank | command and fill of the next K and V tile | shares the buffers with the compute FSM and the read engine with the master FSM |
| core, compute FSM (`:449-610`) | state, batch, issue and return counters, row contexts `row_m/row_l/row_acc` | issue of key chunks, return of scores, write-back of a batch | reads `q_buf`, `k_buf[active_bank]`, `v_buf[active_bank]` |
| softmax context, dot product, reciprocal, output rounding | pipelines | one operand per cycle | the compute FSM and `S_NORMALIZE` |
| register file `bus/fa_axi_lite_regs.sv` | latched halves of a write, `bvalid`, `rvalid`, registers, sticky DONE, START pulse | write, read, set and clear DONE | AXI4-Lite with the host; `i_busy`, `i_done`, `o_start_pulse`, `o_soft_reset` |
| performance counters `top/fa_perf_counters.sv` | `run_count` and 20 counters per run | count, clear | event wires, read through the register file |

### Reference model and testbench

| component | state | operations | interacts by |
|---|---|---|---|
| arithmetic `cmodel/csrc/attention_math.cpp` | none | Q8.8 products, three forms of exp, reciprocal, rounding | called by the two below |
| online softmax `attention_kernels.cpp` | per row of a query tile: maximum, denominator, accumulators | clear a tile's rows, fold one key, write a tile's rows | called once per mode and seed |
| driver `attention_lib.cpp`, `attention_experiment.cpp` | seed, results per mode, aggregates, exit code | refuse arguments, run a seed, aggregate, stage decomposition, cycle models | command line; the generated matrices |
| Verilator program `dv/verilator_cpp/fa_attention_core_tb.cpp` | one read and one write transaction, memory, cycle count, exit code | reset, start, one clock with both engines played by the program, time out, compare | the core's pins; its own copy of the reference loop |

### Inference

| component | state | operations | interacts by |
|---|---|---|---|
| model file (`read_checkpoint`, `memory_map_weights`, the exporter) | where each tensor starts | map | pointers into the file |
| `forward()` | K and V cache, activation, logits | embed, one layer, classify | called by the chat loop, once per token |
| attention heads (`flash_attn.c`, `runperf.c`) | per head: running maximum, denominator, numerator, or a slice of one shared buffer | one key, softmax, weighted sum, join | an OpenMP team in one layer of `forward()` |
| tokenizer | the tokens of a text | spell, merge, decode | called by `chat` |
| sampler | random state | argmax, multinomial, nucleus | called once per token of the answer |
| chat loop and entry points (`run_fa.c`, `run.c`) | position, limit, clock readings, the answer | set up, feed the prompt, sample, stop, report | Python through two of the three entry points |

Legacy RTL, pipeline experiments, host API, scripts and documents are listed in
`PROJECT.json` with the reason they are left out.

### What is hard in it, and what makes each part correct

* **Read engine.** Commands of any length are cut into bursts. Correct: the
  core gets every word once, in order, `last` with the final one only, and
  `cmd_ready` comes back.
* **Write engine.** Its counters are as wide as AXI's length field, so the
  largest burst wraps them. Correct: every word reaches memory once, in order,
  and `cmd_ready` comes back with the response, not before.
* **Core.** Three FSMs, the two engines and a memory of unknown speed run side by
  side. `comp_done` is a pulse and the end of the prefetch a level; either may
  come first. The compute FSM reads one bank while the prefetch fills the other.
  A soft reset returns the master FSM to idle and leaves the compute FSM
  and both engines where they are. Correct: the core computes on exactly the tiles
  its indices name, folds every tile once and in order, stores the output in
  order, ends, and says so only then; a reset ends a run and harms no later one.
* **Register file.** Address and data of a write arrive in either order and
  overlap the response to the write before; DONE is set by the core and cleared
  by two kinds of write. Correct: halves are paired, writes take effect in
  order, each is answered once, and DONE speaks of the run started last.
* **Counters.** They are cleared by START whether or not the core takes it.
  Correct: after DONE they are those of the run that ended.
* **Reference model.** The loop over keys exists three times: in the kernel, in the
  stage decomposition and in the testbench, with different masks, exponentials and
  reciprocals. Correct: tiling does not change a result, the copies agree to the
  bit or to a stated slack, and the verdict printed for a mode is that of its errors.
* **Testbench.** The program reads handshakes after the clock edge, when the core
  has moved on. Correct: it misses no handshake that the core waits for, stores what
  was written, and always stops.
* **Cache.** Rows are addressed by `loff + pos` with no bound. Correct: logits are
  computed from exactly the tokens fed so far, in order.
* **Heads.** They run in parallel, on slices of one buffer in one of the programs,
  and rescale a running sum whenever a larger score comes. Correct: each head's result
  is the softmax over its own scores, under every interleaving.
* **Chat loop.** Forced prompt, sampled answer, end token, limit and two clock
  readings share one loop, in two variants. Correct: the answer continues the prompt, ends only for
  a reason, and the report is about the tokens it names.
* **Compute pipelines.** Nothing in them can wait: operands go in at the counters' pace,
  tags travel beside the dot product, its two halves are paired by arrival, and the
  context of a row is forwarded from two of the five softmax stages. The next batch begins
  while the pipelines of the last one run on. Correct: every key of a tile is folded
  once into every row, in order, with both halves of its own product, its own value
  and its own mask, on a context that has all earlier keys.
* **Normalizer.** `S_NORMALIZE` runs two pipelines from one FSM, row by row, and matches
  what comes back by arrival. Correct: every element of the output tile is divided by the
  denominator of its own row, and the state is left.

The hazards, each at its line and with the properties that cover it, are in
`PROJECT.json`.

## 2. The modules

| module | models | its state in the code |
|---|---|---|
| `ReadStream` | what the read engine promises the core | the command in progress (`req`), words delivered (`sent`), the last word (`beat`) |
| `WriteStream` | what the write engine promises | `wreq`, `wsent`, response outstanding (`wresp`), last word stored |
| `TiledAttention` | what a run promises the host | `busy`, `done`, the output words |
| `DmaReader` | `fa_dma_reader.sv` | the RTL's register names; `slave_*` is the memory (external) |
| `DmaWriter` | `fa_dma_writer.sv` | likewise |
| `AttentionCore` | `fa_attention_core.sv`, over `ReadStream` and `WriteStream` | the RTL's register names; `cs`, `batch`, `comp_t` are the compute FSM |
| `SoftmaxCtx` | `fa_online_softmax_ctx.sv` | `stage` (s0 to s4), `ctx_state`, `sm_out` (the outputs) |
| `Normalizer` | `S_NORMALIZE` (`:879-937`), `fa_recip_nr_q16_16.sv`, `fa_o_normalize_block.sv` | the RTL's register names; `norm_row` is the RTL's `norm_qi`, `o_row` its `o_buf` by rows and chunks |
| `AttentionCorePipe` | `AttentionCore` with the inside of a batch (`:246-327`, `:449-610`, `fa_qk_dotprod_slice.sv`) over `SoftmaxCtx` and `Normalizer` | the RTL's register names; `dot_pipe` is the dot product's pipeline, `pair_ctx` the row contexts |
| `MCAttentionCoreReset` | `AttentionCore` with a bounded number of reset cycles, for TLC | |
| `AxiLiteRegs` | `fa_axi_lite_regs.sv` and an AXI4-Lite master | RTL names; `aw_q`, `w_q`, `araddr`, `unanswered`, `issued` are the master's |
| `PerfCounters` | `fa_perf_counters.sv` | `o_run_count`, and `o_busy_cycles` standing for the 20 counters cleared with it |
| `ControlPlane` | registers, counters, the life cycle of a run, and polling software, wired as in `fa_attention_ip_top.sv` | the instances' state and `sw`, the software's |
| `Checkpoint` | `read_checkpoint`, `memory_map_weights`, and the order in which the exporter writes | offset and length of each tensor |
| `Transformer` | `forward()` of `run_fa.c` | `layer`, `at`, `x`, `kv_cache`, `logits`; `fed` is history |
| `Tokenizer` | `encode`, `decode` and the substitution of blanks | operators on token sequences |
| `Sampler` | `argmax`, `sample_mult`, `sample_topp`, `random_f32` | operators: the set of tokens a coin may choose |
| `Generation` | what a chat promises its user | `prompt`, `room`, `answer`, `over` |
| `RunFa`, `MCRunFa` | the three entry points of `run_fa.c`, `chat`, `chat_without_encode_decode` | the C names; `pc` is the place in the program |
| `Attention` | `flash_attention_forward` with `fa_core_q8_8`, and the attention loop of `runperf.c` | the C names, one value per head |
| `FixedPoint` | `attention_math.cpp` | operators |
| `OnlineSoftmax` | `online_rtl_like`, its copy in `run_stage_decomposition`, and the testbench's `reference_fixed_like` | loop variables, `row`, `O` |
| `CModel`, `MCCModel` | `run_cmodel` and what it calls | `k` (seed), `results`, `aggs`, `exit` |
| `VerilatorTb` | `run_sim` of the Verilator program, over `AttentionCore` | `rd`, `wr` (transactions), `mem`, `cycles`, `exit` |
| `*Proofs` | theorems and proofs | |

How they fit: `DmaReader` implements `ReadStream` and `DmaWriter` implements
`WriteStream` (checked and proved), so `AttentionCore` is built on the two
abstract streams and never sees a burst. `AttentionCore` implements
`TiledAttention` when the memory is fast enough. `AttentionCorePipe` replaces the counted
batch of `AttentionCore` by the counters and pipelines of the code, and its batches implement
the counted ones (`ImplementsBatch`). In the same way it replaces the one step per row group of
`S_NORMALIZE` by `Normalizer`; all of it together implements `TiledAttention` as well. The other states of the master FSM, the prefetch and the
streams are the same definitions in both. `ControlPlane` takes from the
core only what the host can see of it: idle, running, done, soft reset.
`VerilatorTb` takes the ticks of `AttentionCore` and puts the testbench's two
transactions in the place of the streams, since it has no DMA engine between
core and memory.

`CModel` drives `OnlineSoftmax`, which is built on `FixedPoint`. `RunFa` extends
`Transformer`, `Checkpoint`, `Tokenizer` and `Sampler`, and implements
`Generation`. `Transformer!Next` states what `forward()` relies on and does not
check (positions in order, no more of them than the cache has rows); that the programs
call it so is the property `CallsInOrder`, so what is proved of `Transformer`
holds in them. The attention inside one layer is one step there, `Attend`;
`Attention` opens it up.

**A step.** In the two engines a step is a clock edge with a handshake of that
engine; the other edges are stutters. In `AttentionCore`, `AxiLiteRegs` and
`ControlPlane` a step is every clock edge, and all registers change together:
`Clock` is the conjunction of one `...Tick` per block, as the RTL is one
`always_ff` per block. Non-blocking assignments read the old state, so a pulse is
seen one cycle after it is driven, here as there: `rd_cmd` is the
registered command of the core, taken by the engine an edge later, while
`cmd_ready` was sampled when it was driven.

**Data.** A bus word is its address: a buffer then shows exactly which word of
which tile it holds. `QAddr`, `KAddr`, ... count in words, at the default
stride. A row context is the sequence of tile pairs folded into it;
the value `Torn` marks a fold over operands that were not one whole tile. The rows
one compute batch handles (`QPAIR_BATCH_ROWS`) are one row group. A batch takes
`BatchCycles` clock edges (in the RTL a constant of the parameters), reads
the contexts in the first, the operands in every one, and writes back in the last.

In `AttentionCorePipe` a bus word stands for a row of a K or V tile, and for a pair of
rows of a Q tile: the two rows of a pair (`ROW_PAR`) share every counter and differ in the
mask only. Row m, l and acc of a pair are the sequence of terms folded
into them; a term is the dot product, chunk by chunk (which pair, which key, which chunk),
the V row it weighs and the two mask bits. What a softmax stage adds to its numbers
depends only on the context it entered with and its own score and value, so a stage keeps these two.
`row_ctx` is what these contexts amount to in the terms of `AttentionCore`: a
sequence of tiles if every term of every pair is right and in place, `Torn` otherwise.
`comp_t`, `ctx0` and `operand` of `AttentionCore` are history there and steer nothing.
`DP_CHUNKS`, a parameter of the build, is chosen at the start (`dp_chunks`).
In `Normalizer` a row of the output is D / 8 chunks, each of which is the context whose accumulator was
divided by its own row's denominator, or `Misplaced`; a word of `o_buf` has a
context when all chunks of its two rows have it.

In `VerilatorTb` a word of O carries the address the core wrote it for and the
context it was made of, so a word stored elsewhere shows. In `Transformer`
an activation is the sequence of tokens it was computed from, and `Torn`
marks attention over rows that are not one history. In `Attention` a sum of terms
exp(e)·v is the function from v to e: rescaling adds to every e, and a term that
missed a rescaling is visible. In `RunFa` a text is a sequence of bytes (each of
which stands for a class of bytes), time is counted in calls of `forward()` from 1
(0 is the code's "not set"), probabilities are `TOTAL`-ths and the
temperature is part of them. `FixedPoint`, `OnlineSoftmax` and `CModel` have the real
integers at their real widths.

**What the abstraction drops.** In the pipelines: the numbers. In the register file: `i_error` (driven low by the
core), the number of plain registers (`REG_CFG` stands for all), byte strobes
(the RTL ignores them). `cycle_counter` of the core appears in `ControlPlane`.

## 3. What is checked

| run | instance | shows |
|---|---|---|
| `dma_reader` | commands of 1 to 7 words, bursts of at most 3 | `ReadStream` is implemented and every command ends, with error responses too; `Accounting`: FSM, memory and core always agree on what is outstanding |
| `dma_writer` | commands of 1 to 4 words, length field modulo 4 | the same for `WriteStream`, with the burst that wraps `beat_cnt` |
| `core_fast` | the core with its pipelines: 2 Q tiles of 16 rows, 4 K tiles of 8 keys, 2 row groups of 4 pairs, dot products of 1 and of 2 chunks, 1 stall per command | the core implements `TiledAttention`, from single keys up: batches are those of `AttentionCore` and of constant length, masks belong to their row and key, scores of one row are far enough apart for the forwarding, the compute FSM reads whole tiles only, and every run ends |
| `core_slow` | 2 Q tiles, 3 K tiles of 2 words, 2 row groups of 3 cycles, 8 stalls per read | at any memory speed no tile is skipped or taken out of order, and every run ends |
| `core_reset` | the tiles of `core_slow`, batches of 7 cycles, 1 stall, with soft resets, 2 cycles of them, at any time | registers in range, and the buffers hold the tiles the indices name: what an abandoned read still delivers goes nowhere |
| `axil_regs` | 2 writes in flight, address and data in either order | writes take effect in order, once, are answered once, and never block |
| `control_plane` | runs of 1 to 9 cycles; software starts, polls, gives up | DONE means the run started last is over, its counters are its own, and software always sees DONE or gives up |
| `core_tile_twice` | the instance of `core_slow` with 1 Q tile | a finding, section 5 |
| `inference` | 2 layers, a cache of 22 rows, 3 entry points, 9 limits, greedy, nucleus and full sampling, 5 user texts | the answer continues prompt and answer and ends for a reason, logits are computed from the history, texts survive merging, tensors are where the exporter put them, reported times are those of the reported tokens |
| `attention` | 3 heads in 2 groups, up to 3 positions, scores 0 and 2 | both programs compute softmax attention for each head, slices of the shared buffer stay apart, and the layer goes on |
| `reference_model` | 4 or 6 rows of 2 columns, tiles 1 to 4, both masks, the matrices of seeds 20260303 to 20260305 | results do not depend on the tiles, the copies of the loop agree, the modes reported as accurate are |
| `testbench` | the tiles of `core_slow`, limits 60 and 400 | no handshake the core waits for is missed; each word of O but the first reaches memory once; the program stops |

Each property of a passing run is shown to depend on the code by a mutant in
`PROJECT.json`: one definition changed as a plausible bug would change it, and TLC
then finds the property violated. Ranges of registers are an invariant of a run where no
theorem and no other run has them: `TypeOK` of the engines is proved, that of the register file is
a conjunct of `ControlPlane`'s. `of`/`as` name the definition and the mutated form,
which stands before it in the module.

### Bounds, and why they are enough

* Tiles: 3 K/V tiles are a first, a middle and a last one, so the prefetch goes
  through all three of its continuations (`PF_CMD_K` from `PF_IDLE`, `PF_CMD_K`
  from `PF_DONE`, `PF_IDLE` before the last) and each bank is used twice. 2 Q
  tiles exercise the restart of everything for the next one. The
  RTL's 8 Q tiles and 4 K tiles repeat these cases. `core_fast` has 4 K tiles
  as the RTL, so that each bank is used twice with the prefetch ahead.
* Words per tile, except in `core_fast`: 2, so that a tile has a first and a last word and can be torn
  between them. Row groups: 2, one per word of the output tile.
* `BatchCycles`, `MaxRdStall`: what matters is which of the compute FSM and the
  prefetch comes first. In `core_fast` a batch takes as long as the pipelines make
  it take (47 cycles with one chunk, 79 with two; `ImplementsBatch` checks that it is
  always the same), and with at most 1 stall per command the prefetch always wins. With
  2 x 3 compute cycles and 8 stalls either wins, by any margin up to a second pass over the tile.
* Pipelines: the four contexts, two rows per pair, and the eight, five, ten and three stages
  of dot product, softmax, reciprocal and rounding are the RTL's. 8 keys per tile (64 in the RTL) keep the issue going
  longer than the way from issue to write-back, so pipelines are full, and two batches
  show that one leaves nothing to the next. One chunk (`D = 32`) is the case in which
  scores of one row are closest and the forwarding is used; with two (`D = 64`, the RTL's
  default) the halves are paired and the stored context is used. A third chunk
  would be taken for the first of the next product: `PipeAssumption` excludes it, and
  the adder tree, written for 32 lanes, excludes any other split.
* `MaxWrStall`: bounds the idle cycles of the write side; the state space
  multiplies by it, and nothing but `core_done_early` and `core_hang` depends on it.
* `MaxResetCycles` = 2: two separate resets, or one of two cycles. The proofs of
  section 4 put no bound on the resets.
* DMA: `MaxBurst` 3 with 1 to 7 words gives one, two and three bursts, full and
  short last ones; `LenMod` 4 with up to 4 words gives the wrap. The
  addresses 0 and 8 do not overlap for these lengths. `ByteWrap` 5 wraps.
* `MaxOutstanding` 2: the halves of the second write overlap the response to the
  first. A third could only queue behind it: the slave holds one write and a response.
* `MaxRun` 9 is longer than a poll (a read takes 3 cycles), so software reads
  STATUS before, at and after the end. `CountWrap` 16 exceeds it, as 2^32
  exceeds the length of a run (85 928 cycles according to the repository's README).

* `inference`: system text, user text and template make prompts of 17 to 21 tokens, so
  with 22 rows a run ends at its limit, at an end token or at the end of the cache, and
  some limits fall before the end of the prompt. 2 layers are the least in
  which a row may belong to the wrong one. The texts take
  the tokenizer through pairs, triples, overlapping candidates, blanks, a code point
  the vocabulary has not, and the empty text; in the distributions two tokens tie at the edge
  of the nucleus and others have probability 0. The two headers differ in grouping of
  the heads and in whether the classifier is shared. Requests keep to the
  cache; `RunFaPastTheCache.cfg` has one that does not (section 5).
* `attention`: with 3 heads and `KV_MUL` 2, two heads share values and one does
  not; 2 scores over 3 positions make a new maximum come first, last, or never, and tie.
* `reference_model`: D = 2 gives a scale of 181/256, so scores are rounded. The matrices
  and the exact results are those the compiled program makes for these seeds, so
  `O` and the errors can be compared with its output number for number.
  S = 4 with tiles of 1, 2 and 4 gives one tile, several, and tiles cut by the causal
  mask; 6 rows do not divide by the 4 rows a cycle model takes at a time. `Slack` = 1 is one
  unit of the output format, and with `Slack` = 0 the property is violated.
* `testbench`: 400 cycles are more than the run takes, 60 fewer. `ResetCycles` 4 as
  in the program.

### Fairness, and why the code justifies it

* `AttentionCore`: weak fairness of `Clock(FALSE)`: the clock runs, and the host does
  not hold the soft reset for ever. The memory answers in time because the
  stall counters bound it; no fairness is assumed of it. That the
  bound is large is not used: `RunCompletes` holds for each value tried.
* `AttentionCorePipe`: weak fairness of `PipeClock`, for `RunCompletes`: the
  clock runs. No pipeline can wait, so nothing else is assumed of them.
* `DmaReader`, `DmaWriter`: the memory takes addresses and words and
  returns data and responses (an AXI slave must), and the core takes
  and offers words. The second is what `AttentionCore` does until a soft reset, and
  what it stops doing after one: `core_hang`.
* `AxiLiteRegs`, `ControlPlane`: weak fairness of `EagerClock`, a clock edge at which
  the master puts off no handshake. The drivers under `dv` raise their valids and
  readies at once and keep them up.
* `RunFa`: one thread that nothing blocks, so a statement that stays possible
  is executed.
* `Attention`: each iteration of the parallel loop is given to a thread of the team
  that runs it to its end; the join follows.
* `VerilatorTb`: weak fairness of its next step, a sequential program.
* `CModel` states no fairness; no liveness is claimed of it.

## 4. What is proved

TLAPS checks every proof below for all values of the constants that satisfy the
named assumptions (`CoreAssumption`, `DmaReaderAssumption`, `DmaWriterAssumption`,
`AxiLiteRegsAssumption`, `ControlPlaneAssumption`, `PipeAssumption`, `ArgsAssumption`, ...: positive sizes, natural addresses, a
batch of at least two cycles, a command no longer than the write engine's length field can say).
A hypothesis beyond these is named in the theorem: `~Retries`, `FastMemory`, `LimitsFit`, `AllSoftmax`, and
the absence of soft resets (`UninterruptedSpec`).

* `DmaReaderProofs!Invariance`, `DmaWriterProofs!Invariance`: `TypeOK /\
  Accounting` is inductive. `Accounting` is itself the strengthening: it says, per
  FSM state, how the engine's counters, the memory's position and the words
  the core has had add up, also over the modulo of `beat_cnt`.
* `DmaReaderProofs!Refinement`, `DmaWriterProofs!Refinement`: under that invariant
  every step of the engine is a step or a stutter of `ReadStream` or
  `WriteStream`.
* `AttentionCoreProofs!TypeInvariance`: `TypeOK` is inductive, with one
  lemma per state of the master FSM. It is not a triviality: that a fill counter
  stays within its buffer, and that the prefetch stays within the matrix, is part of it.
* `AttentionCoreProofs!TilesLoaded`: with soft resets at any time and any memory
  speed, the buffers hold the tiles the indices name (`LoadedTiles`). `LoadedTiles` is
  not inductive: it says nothing of a buffer half filled, or of a read that is
  still going on for a run given up. The invariant is `IInv == TypeOK /\ LoadInv`:
  `CmdInv` says that the command register holds no command but the one the state
  is waiting for; `FillQInv`, `FillKInv`, `FillVInv`, `PrefetchInv` say
  that, once a fill counter has left 0, either the command is about to be accepted
  or the engine is working on it with exactly the counted words delivered (`Owed`), and
  that those words are in the buffer (`Prefix`). A counter leaves 0 only when the engine
  is idle, so the rest of an abandoned read is drained before.
* `AttentionCoreProofs!WholeTilesOnly`: without soft resets the compute FSM never
  reads a buffer that is being filled (`ComputeOnWholeTiles`), at any memory
  speed. It follows from `TilesLoaded` and the inductive `CompInv`: the compute FSM
  works only in `S_COMPUTE`.
* `AttentionCoreProofs!EveryTileFolded`: without soft resets, at any memory speed, no row misses
  a tile or takes one out of order (`NoTileSkipped`). The property speaks of finished rows; the
  inductive `OrderInv` follows a tile on its way there. `ContextInv` says for every
  master state, and in `S_COMPUTE` for every row group, whether its batch is still to come,
  under way or written back, and whether its context ends before the current tile or with it;
  `OutputInv` says what is normalised already, `StoreInv` what the write engine
  still has to store, and `MemoryInv` what is in memory.
* `AttentionCoreProofs!FoldedOnce`: with a fast memory no tile is folded twice (`TilesFoldedOnce`), so
  the finding `core_tile_twice` of section 5 needs a slower one. "Fast" is
  `FastMemory`: `2 * (BEATS_PER_TILE_KV + MaxRdStall + 1) <= NUM_BATCHES * BatchCycles`. With the RTL's
  parameters (512 words, 4 batches of 527 cycles) that is at most 541 idle cycles per
  command. The bound is exact where TLC tried it: with 11 for the 12 it asks, TLC finds the tile
  folded twice. The invariant bounds time: `ComputeLeft` is the number of edges until `comp_done`,
  `PrefetchLeft` a bound on those until `PF_DONE`, and `PaceInv` says that the second never
  exceeds the first while there is a tile to prefetch.
* `AttentionCoreProofs!Refinement`: under the same hypothesis the core implements `TiledAttention`
  (its safety part). Each step is mapped: the start, a word stored, the end of the run, or a
  stutter. A `Store` of the abstract specification asks for a word that is complete
  and not stored before, so the proof needs `FoldedOnce` and `EveryTileFolded` together, and
  `UntouchedInv`, that words not yet due are unwritten.

* `AxiLiteRegsProofs!EffectsInOrder`, `AnsweredOnce`: for any number of writes under way and
  any order of the two channels, the effects of writes are those of the issued writes in their order, and
  no write is answered twice or before both its halves came (`WritesInOrder`,
  `OneResponsePerWrite`). The invariant `LatchInv` says that a latched half belongs
  to the oldest write without effect, and that its channel is ahead of the effects by exactly it.
* `ControlPlaneProofs!TypeInvariance`: the ranges, with and without retries.
* `ControlPlaneProofs!DoneIsOfLastStart`, `CountersAreOfLastRun`: for runs of any length, when
  the driver starts a run only after the last one is over or aborted (`~Retries`), DONE and the counters are those of the run it
  started last (`DoneMeansFinished`, `CountersOfLastRun`). `AccessInv` says which single
  access of the driver is under way; `RunInv` says, for each state of the software, where the
  run of the last START may be: not begun, in the START pulse, under way, over, or being
  reset. Both hypotheses are needed: with `Retries` TLC refutes both (section 5).

* `RunFaProofs`: the three entry points of `run_fa.c`, for every model, vocabulary, prompt, limit,
  distribution and coin. Assumed are `HeadersAssumption` (sizes of a well-formed model),
  `TokensAssumption` (tokens are numbered from 0), `TokenizerAssumption` (entries of the vocabulary differ,
  the blank stands for two bytes of one code point) and `RequestsAssumption` (`topp` is not below an even share, or the crop in front of the nucleus may leave
  nothing).
  * `ContextSafe`: whoever calls `forward()` in order and inside the cache gets logits
    computed from the tokens fed so far (`ContextIsHistory`), for any number of layers and
    any cache length. The inductive `TransformerInv` says what each row of the cache holds: in a layer already
    done for this token, the history up to every position; in one still to be done, the
    same without the newest. The steps rest on `RowsApart`: rows `loff(l) + t` of different
    layers or positions differ and lie in the allocation.
  * `WeightsSafe` (`WeightsInPlace`), `TextSafe` (`RoundTrip`), `ThroughputSafe`
    (`ThroughputOfItsPhase`) need no further hypothesis. For the second the invariant is that
    the tokens of a text the vocabulary can spell join to it before the merge loop, after each of its
    rounds and at its end.
  * `CallsSafe`, `ProgramContextSafe`, `NucleusSafe`, `GenerationImplemented`: the programs call
    `forward()` as it needs to be called (`CallsInOrder`), so what `ContextSafe` says holds in
    them; a token sampled with `topp` lies in the nucleus (`NucleusOnly`); and
    they implement `Generation` (its safety part). Two hypotheses: `LimitsFit`, limits given
    to `with_encode_decode` lie in the cache, since nothing clamps them
    (`RunFaPastTheCache.cfg` violates it, section 5); `AllSoftmax`, distributions add up to
    the whole, as those of `softmax()` do. The run satisfies both. The invariant is
    `ProgramInv == ProgramTypeOK /\ ClockInv /\ SayInv /\ TransformerInv`; `SayInv` says at every place of the
    program what has been fed, what is to be fed next and what was shown.

  The operators of `Tokenizer`, `Sampler` and `Checkpoint` are recursive functions and folds. What they compute for every
  input is shown by induction all the same: the library's induction theorems have an
  operator as parameter and cannot be cited, but `NatSetInduction`, the same for sets of naturals, follows from its
  pigeonhole lemma `Fun_NatInjLeq`, and `Iterated` and `BackwardRecursion` give a recursive function
  its equations.
* `CModelProofs!UntiledSafe`, `StageSafe`: for all matrices, sizes of the tiles, modes and
  masks, a row of the result of `online_rtl_like` is what folding the keys the row may see, first
  to last, makes of it (`ResultIsUntiled`), and the copy of the loop in
  `run_stage_decomposition` makes the same (`StageSameAsKernel`). `Keys(md, i)[n]` is the state of row `i`
  after `n` keys. The inductive `RowsInv` says that at every place of the three nested loops row `r`
  is in state `Keys(md, r)[Seen(r)]`, where `Seen(r)` counts, from the loop variables, the keys
  it has met. Arithmetic is left closed: the argument holds for any rounding. `ArgsAssumption`: the tile
  sizes are positive (`run_cmodel` divides by them).
* `AttentionProofs!AttentionSafe`: for any number of heads, grouping, cache length
  and set of scores, and for every interleaving, both programs compute softmax attention
  (`AttentionIsSoftmax`). The invariant says of each head, per place in its
  loop, which keys its sums contain and relative to which maximum, and that the cells
  of its slice hold its own scores or weights; other heads' steps leave them by
  the disjointness of the slices.

* `AttentionCoreProofs!PipelinesImplementBatch`: for every tile size, one or two chunks per dot
  product and every memory speed, the issue counters, tags, dot product, pairing of halves,
  softmax contexts and write-back do on every edge what the counted batch of `AttentionCore` does
  (`ImplementsBatch`). A batch takes `chunks * 4 * TK + 15` cycles, whatever `TK` is; then each of
  its rows has every key of the tile folded in once, in order, and the other rows are as they were. The
  argument has three storeys, each an inductive invariant on top of the one before (the next bullet
  adds a fourth):
  * `FeedInv`: the buffers hold the tiles in use whenever the compute FSM runs. It is the part of
    the invariant of `AttentionCore` that does not depend on how long a batch or a row takes, carried over to
    the long `S_NORMALIZE` of `Normalizer`. `WholeTilesInPipes` (`ComputeOnWholeTiles`) follows.
  * `FlowInv`: a batch runs like a clock. `comp_t`, the cycles since its start, tells for every
    register which issue of the batch it holds and what that carries: issue `n` is slot
    `(n / chunks) % 4`, key `n / (4 * chunks)`, chunk `n % chunks`, and `r` cycles later it is in stage
    `r` of the dot product, at the return side (9), in stage `r - 9` of the softmax contexts, put out (15).
    `StageInv` says what a score starts from: the context its pair had at the start
    of the batch with the earlier keys of the tile (`Prior`). So forwarding is shown to be right where it is
    used, from stage s3 or the stored state, and with one chunk the margin is one stage.
    `ScoresKeepApart` (`ScoresApart`) and `MasksAreOfTheirKeys` (`MaskOfItsKey`) follow. At `comp_t = 0` the
    invariant says that every pipeline is empty: nothing of one batch reaches the next, although
    nothing in the code empties them.
  * `HistInv`: which tiles the contexts amount to, while the rows of a batch are
    written back one by one and the row context says `Torn`.
* `AttentionCoreProofs!PipelinesRefine`: the core with all its pipelines implements `TiledAttention` (its safety
  part) when the memory is fast: `FastPipes` is `FastMemory` with the cycles a batch takes
  (`CyclesOf`), and it holds whenever the read side stalls at most `BEATS_PER_TILE_KV + 6`
  cycles per command (`ShortStalls`; a word is a row here, section 2). So between the start and
  `done` no score, reciprocal or quotient is lost, doubled or taken for another's, in a datapath
  without back pressure. `PipeRunInv` adds to `HistInv`:
  * `PipePace`: the prefetch is done before the tile in compute is, as in `FoldedOnce`, over the proved
    length of a batch.
  * `SettledInv`: each row context holds the tiles `0 .. k - 1` or `0 .. k` of its Q tile, each once;
    which of the two depends on the place of the compute FSM (`Counted`).
  * `DivideInv`: `S_NORMALIZE` cycle by cycle. A row is `Resting`, has its denominator in register
    `j` of the reciprocal (`Inverting(j)`), or is `u` cycles past taking it (`Dividing(u)`), and then
    chunk `u - i` is in register `i` of the rounding, chunk `u - 3` comes back and `norm_recv_d` counts
    it. Nothing checks in the code that a chunk that comes back belongs to the row and place it is
    stored in; the invariant shows that it does, and that both pipelines are empty when a row is done.
  * `RowsOutInv`, `WordsOutInv`: the finished rows, and of the row at work the chunks already back, hold the
    whole context; so does every word of `o_buf` in `S_WRITE_O`.
  * `StoreInv`, `MemoryInv`, `UntouchedInv` of `Refinement`; the steps outside `S_NORMALIZE` are mapped by the
    same lemma for both cores (`TickRefines`).

* `AttentionCoreProofs!ForwardingSuffices`: the softmax contexts on their own, for any environment. For
  any scores and any order of the four rows, if a score
  enters only while no score of its row is in the first three stages, it starts from
  all earlier ones of its row (`NothingMissed`), and a context put out after the last score of
  its row is complete (`CompleteAtOutput`). The hypothesis on the environment is `Apart`, which
  `ScoresKeepApart` proves of the core. The invariant locates the newest context
  of a row: the youngest stage that holds one, else the last stage, else the stored
  state; and it needs that two scores of a row are four stages apart (`FourApart`).

Only model-checked: `WithinLimits` and `GoldenModelsAgree` of `CModel` (concrete numbers);
`VerilatorTb`; and all liveness properties, which are out of the prover's reach, as is
`ENABLED`. The theorems on refinement are therefore about the safety part of the abstract
specifications.

## 5. Where the code and its documents disagree

* `core_tile_twice` (bug). `comp_done` is a pulse, and only acted on if the
  prefetch is in `PF_DONE` (`fa_attention_core.sv:850-863`). Otherwise it is lost,
  `comp_start` is raised again and the tile is folded a second time into
  the online softmax: wrong results whenever loading a tile pair takes longer than
  computing one. Under the memory the tests use, compute takes longer. TLC
  also shows (`core_slow`) that nothing worse happens: no tile is skipped. Section 4 has
  the limit up to which it cannot happen (`FoldedOnce`), and that no tile is ever skipped
  (`EveryTileFolded`).

Without a run of their own. The first six have a configuration with which TLC
prints the trace:

* `CoreDoneEarly.cfg`, `DoneAfterLastResponse`. `o_done` does not wait for the response to
  the last write; `docs/report/20260303_04_RTL实现与接口寄存器.md:32` says that it does.
* `CoreTornAfterReset.cfg`, `NothingTornStored` (bug). The soft reset does not reach the compute FSM. It goes on
  with its batch, writes row contexts back after `S_INIT_CONTEXT` of the next run has
  cleared them and raises a `comp_done` that the next run takes for its own. The RTL
  leaves the clash of the write-back with `S_INIT_CONTEXT` in one cycle to
  the simulator (two processes write one array), so either value is allowed.
* `CoreHangAfterReset.cfg`, `NextRunCompletes` (bug). The soft reset does not reach the write engine either. Given
  in `S_WRITE_O` it leaves the engine waiting for words, and the next run waits for
  the engine for ever.
* `ControlStaleDone.cfg`, `DoneMeansFinished` with `Retries = TRUE` (bug). `i_done` wins over the clearing of DONE by START in the same
  cycle, and the core, idle again in that cycle, takes the START: the new run
  begins with DONE set. It takes software that writes START before it has seen
  DONE; with software that does not, `control_plane` shows DONE to be right.
* `RunFaPastTheCache.cfg`, `ContextIsHistory` (bug). `run_with_encode_decode` overrides `steps` "to ~max length"
  (`run_fa.c:1456`) and then calls `chat` with `max_steps` (`:1467`): a request
  longer than `seq_len` writes past its layer's rows of the cache.
* `TestbenchShift.cfg`, `StoredInPlace`. The word the testbench calls "Write beat accepted"
  (`fa_attention_core_tb.cpp:540`) is read after the edge, when the core already offers
  the next one. Every word of O is stored one place early, across tiles too, and the first
  never; `testbench` shows that nothing else is lost.

Seen while modelling, by reading:

* `BUSY_CYCLES` is one less than the cycles `core_busy` is high, since `S_DONE` is
  excluded (`fa_perf_counters.sv:58`); `docs/20260309_ip_perf_counters_design.md:43`
  defines it as all of them.
* START while busy is ignored by the core but clears the counters
  (`fa_perf_counters.sv:124`): with `Retries = TRUE` TLC finds `CountersOfLastRun`
  violated.
* An error response sets a flag in the engine that nothing reads
  (`fa_attention_ip_top.sv:397`): STATUS bit 2 is always 0, where
  `docs/report/20260303_04_RTL实现与接口寄存器.md:94` and `problem.md` describe it as
  an error flag.
* A text with a byte the vocabulary has not is encoded as `byte + 3`
  (`run_fa.c:759`), the numbering of another vocabulary, and does not decode to itself.
* A limit shorter than the prompt leaves the prefill time at 0, and the reported
  throughput divides by it.
* `chat_without_encode_decode` computes the last token of its budget and drops it
  (`run_fa.c:1345`).
* `q8_8_mul_sat` rounds negative products one unit low (-1 · 1 gives -257/256), and
  `exp2_ctx_interp_q1_15` interpolates from its last entry to 0 rather than to the
  next power.
* With 0 seeds the reference model's aggregates divide by their count.

## 6. What is not modelled

* The numbers in the pipelines: `AttentionCorePipe` says which terms are folded into which row,
  in which order, and which denominator an element is divided by, not what comes out. The branch
  for a denominator of 0 is in `Normalizer` but never taken: the largest score of a row adds 1.
* Soft resets in `AttentionCorePipe`. That they leave the compute FSM running is
  found in `AttentionCore` (section 5), where the harm does not depend on the pipelines.
* The arithmetic of the SystemVerilog text. Its C++ mirror is modelled, and that the two
  agree is what the repository's own simulations compare.
* Address arithmetic in bytes: 32-bit truncation of the bases, the stride register,
  bursts that cross 4 KB.
* Registers rewritten while a run is under way (bases, scale, mask): they are read live, so a run
  with a write in between is split over two configurations.
* `qk_tag_valid` and `perf_cs_*`: only a performance counter reads them.
* `rid`, `rlast`, `bid` (ignored by the RTL), the tied-off AXI signals, waveforms,
  debug dumps.
* Of the reference model: the modes that compute in float, RMSE, tables and CSV; the
  random generator and the exact attention (`direct_sdpa_fp32`) are given as data.
* Of the inference programs: matrix products, normalisation and RoPE (a layer keeps
  the tokens a vector depends on), quantisation to Q8.8 in `fa_core_q8_8`, reading the
  vocabulary file (`build_tokenizer`; its result is `Vocab`), failing system
  calls (the programs exit), trace and profile output. `run_profiled.c` is `run.c` with
  counters and is not a model of its own.
* Of the Verilator program: profile counters, CSV, the float reference, and the
  numbers it compares (the verdict is open).
* cocotb and UVM testbenches, legacy RTL that the top level does not instantiate, the
  pipeline experiments, the host API (it drives no hardware), scripts.

## 7. Plan

Done, in this order: the streams and the two engines with their proofs; the core
over the streams, its abstract specification, its invariants and their proofs;
the register file; the control plane; the inference programs with the proof of the cache;
the heads with their proof; the reference model; the testbench over the core; the
compute pipelines with the proof of the forwarding; the normalizer; the proofs of the register
file, of the control plane, that the core implements `TiledAttention`, that the pipelines implement
a batch of it, and that the core with its pipelines implements `TiledAttention` too; of the inference
programs and of the reference model's loops. Next,
most important first:

1. Proofs: ranges of the results of `FixedPoint`.
2. Soft resets in `AttentionCorePipe`, for what they leave in the pipelines.
3. Byte addresses: stride, truncation and the 4 KB rule, with the top-level
   composition.

## 8. Running it

    tlc -config DmaReader.cfg DmaReader.tla
    tlc -config CoreSoftReset.cfg MCAttentionCoreReset.tla
    tlc -config CoreFastMemory.cfg AttentionCorePipe.tla
    tlc -config RunFa.cfg MCRunFa.tla
    tlc -config CoreTornAfterReset.cfg MCAttentionCoreReset.tla
    tlapm AttentionCoreProofs.tla

`PROJECT.json` names the module, the configuration and the expected outcome of
every run; the configurations of section 5 that are not in it end with the named property
violated. The longest passing run takes about a minute and a half.
