# proveno-core: a TLA+ model

proveno-core compiles a subset of Lua to bytecode, verifies the bytecode and
runs it on a metered virtual machine whose only contact with the outside world
is *tool calls*. A run is recorded as a transcript; the transcript becomes an
*oracle tape*; a second run over the tape must be the first one again, so that
it can be proved in a zkVM. These modules model the way from a source text to
the replay of its run, TLC checks them on small instances, and TLAPS proves the
central invariants of tool calls, replay, verifier, interpreter and tables, that
tables implement their specification, and that verified programs do not go wrong
in the interpreter, for every value of the constants.

## The system

| component | state | operations | what makes it correct |
|---|---|---|---|
| lexer, parser (parser/) | position, line, tokens | one step per token, comment or byte of a string; recursive descent | lines are right, blanks mean nothing, a tree is the one its text says, no token is lost |
| compiler (compiler/codegen.rs) | scopes, slots, upvalues, constants, jumps to patch | compile a block | what it emits balances the stack, and means what the source means |
| verifier (bytecode/verifier.rs) | depth table, worklist | `verify` | it ends, and code it accepts keeps to its stack |
| interpreter (vm/engine.rs) | operand stack, frames, cells, logs | one per instruction; `execute`, `run_inner` | a `pcall` leaves two values and nothing else; frames balance through errors and comparators; limits cut a run and never change it |
| tables, memory (types/table.rs, vm/memory.rs) | array part, hash part, capacity, entry count | get, set, remove, insert, move, sort, iterate | the layout follows from the contents; what is stored is paid for; loops over a changing table end |
| values (types/value.rs) | none | arithmetic, comparison, text | wrapping, floor division |
| builtins, JSON (vm/builtins.rs) | a decoder's position, depth, meters | `json.encode`, `json.decode`, ... | deterministic, metered |
| canonical JSON (host/canonicalize.rs) | none | encode, decode tables | decoding what was encoded gives the table back |
| `ToolRegistry` (host/tool_registry.rs) | three counters | `call`, `reset` | quotas are never passed; what reached the host is counted and recorded, whatever fails afterwards |
| `Transcript` (host/transcript.rs) | list of records | `record_ok_attested`, `record_error` | one record per host answer, in order |
| `GasMeter` (vm/gas.rs) | remaining gas | `charge` | every operation pays; exhaustion is final and no `pcall` catches it |
| `OracleTape`, `TapeHost` (host/tape.rs) | tape, cursor, strictness, divergence | `from_records`, `new`, `strict`, `call_tool` | a faithful replay gets what the run got; a strict one finds the first departure and stays there |
| hashes, ISA ids (compiler/program_hash.rs, isa/, host/poseidon2.rs) | none | encode, hash | pure |

A text goes through lexer, parser, compiler and verifier, each complete before
the next starts. An embedder builds a `Vm` around a `HostInterface`, calls
`execute`, reads the transcript, builds a tape with
`OracleTape::from_records`, and executes the program again on a new `Vm` around
a `TapeHost`. Inside a run, the interpreter reaches the host only through
`ToolRegistry::call`, which also writes the transcript and charges gas.
Everything is single-threaded; what is hard is partial failure (a call that was
answered, recorded and then refused; a table entry stored and then not paid
for), errors that a program catches and survives, loops over what their body
changes, facts that are written down more than once (the stack effect of an
instruction, the grammar of JSON), and two runs that have to agree.

## Modules

Text:

| module | models | how it corresponds |
|---|---|---|
| `Ast` | `parser/ast.rs` | a constructor per node, spans left out |
| `Lexer` | `Lexer` | position, line, tokens, and the string or long comment being read; an action per turn of each loop: `SkipBlank`, `SkipShortComment`, `ReadOperator`, ..., for short strings `OpenString`, `Plain`, `Escape`, `CloseString`, for long ones `OpenLong`, `LongChar`, `LongBracket`, `CloseLong`. `Advance` is `advance()` and counts lines; `Jump` is the code's plain additions to `pos`, and does not |
| `Parser` | `Parser` | an operator per `parse_*` function, from a position to the tree and the position after it, or the error. `ParseBinop`/`Climb` are `parse_binop` with its `next_min` |
| `Printing` | the grammar from the other side | tokens of a tree with as few parentheses as precedence needs; not code, the reference |
| `SourceText` | `parse` | lexes, lexes once more what was read with other separators between the tokens, parses |
| `Json` | `serialize_value`, `canonical_deserialize`, `JsonParser` | a text is a sequence of pieces (a bracket, a numeral, an escape), the three decoders differ where the code does: keys, numbers, depth, escapes, meters |
| `Interchange` | a value encoded and decoded by each of the three | `Send`, `Receive` |

Execution:

| module | models | how it corresponds |
|---|---|---|
| `LuaValues` | `LuaValue` | a value is a kind and a datum; integers of few bits wrap as `i64` does |
| `Tables` | `LuaTable` | `Rawset` is `rawset_tracked` with its early returns, consolidation, capacity and the late limit on entries; `AsUsize` is the cast of an integer key to `usize` |
| `Meters` | `do_rawset`, `charge_rawset_result`, `table_insert`, `table_remove` | gas and memory charged after the store, in the code's order |
| `MeteredTable` | one table, its body of operations and an iteration over it | `SetKey`, `InsertAtPos`, `RemovePos`, `MoveRange`, `Sort`, `IterInitSorted`, `IterInitArray`, `IterNext`, `Break` |
| `TableContents` | what a table promises | a function from keys to values whose keys 1..n are a list; `MeteredTable` implements it |
| `Globals` | `build_globals` | the sentinels and the library tables programs of the model use, with all their names and the capacity their insertions leave |
| `Codegen` | `Compiler` | an operator per `compile_*` function, from a compiler state (scopes, prototypes, error) to the next |
| `Machine` | `Vm` | stack, frames, cells, heap, logs and `inner`, the stack of Rust calls (`pcall` and sorts) around the innermost `run_inner`; an action per instruction. A sort with a comparator remembers the answers it has and asks for the next |
| `Language` | what a program means | evaluation of the tree, with environments instead of slots and no stack; not code, the reference |
| `Programs`, `Execution` | programs; compile, then execute | `Init` compiles, `Next` executes; the compiler and the semantics are constant operators (`Compiled`, `MeaningOf`), which `MCExecution` gives the values `Codegen!Compile` and `Language!Meaning` |
| `Bytecode` | `Instruction`, and what `dispatch` does to the operand stack | `Moves(i)`: for each way an instruction can go on, the operands it takes, those it leaves, and whether it jumps |
| `Verifier` | `verify_proto` | one action per arm of the match of `stack_analysis`, `Schedule`, `StackEffect`; the state is the loop's own: depth table, worklist, verdict |
| `VerifiedRun` | a prototype verified, then run | adds a frame with its program counter and its number of operands, driven by `Moves` |

Tool calls and replay:

| module | models | how it corresponds |
|---|---|---|
| `ToolRegistry` | one VM run as its tool calls see it | the run is a record `v` (gas, three counters, transcript, status, last result); `After(v, op, a)` is what the code leaves when the host answers `a`: `dispatch`'s base charge, then `Called`, which is `ToolRegistry::call` step by step with its early returns, `Charge`, `Raise` (nearest `pcall`), `Reset` (head of `execute`) |
| `TapeHost` | `OracleTape`, `TapeHost` | tape, cursor, strictness and the latched divergence; `TapeCall` has one disjunct per way `call_tool` returns |
| `Replay` | dry run, tape, replay | actions `DryOp`, `DryToolCall`, `Execute` (again, same `Vm`), `StartReplay`, `ReplayOp`, `ReplayToolCall`; a program is any deterministic one: free in the dry run, and in the replay it repeats itself while it observes the same (`OnScript`) |
| `Accounting` | sums over a run's trace | properties only |
| `Playback` | the abstract promise | record, seal, play back to the end; `Replay` implements it |

`MCReplay`, `MCVerifier`, `MCTable`, `MCExecution` and `MCText` are the
instances for TLC; `ReplayProofs`, `VerifierProofs`, `TableProofs`,
`ContentsProofs`, `ExecutionProofs`, `SoundStates` and `SoundnessProofs` hold the
proofs, `Induction` what they need of numbers and finite sets.

### Abstractions

- In `Replay`, tables are values "up to what a program can observe"; `Canon`
  and `Decode` keep of the canonical encoding what replay depends on: it fails
  on some tables, and it is not injective. `Json` says what they do. Of a result
  the model keeps its kind and the message a program could tell apart. The
  encoding of the arguments in `check_strict` cannot fail, since the registry
  encoded the same table just before.
- In `Bytecode` values are left out, so an instruction that depends on one has
  several outcomes, and any instruction may raise an error. In `VerifiedRun`
  local slots are left out: they lie below the operands. In both, and in
  `Machine`, program counters count from 1.
- In `Machine` tool calls get their answers from a list and pay their base
  cost; quotas and transcript are `ToolRegistry`'s. The texts of error messages
  are short. `Execution` compares values up to the identity of functions.
- `Execution` does not run `Verifier`; `ReachedIn` computes the depths its
  analysis arrives at from `Bytecode`, and `VerifiedRun` says that this is what
  `Verifier` does with them.
- A string is a sequence of pieces, a piece counts as one byte. In `Lexer` it
  is a string of characters.
- Everything is about a 64-bit build, where the cast of an integer key to
  `usize` (`table.rs:143`) loses nothing: `UsizeModulus` is 0 in every run and in
  `MeteredAssumption`. In the 32-bit RISC-V guest the cast truncates, and
  `AsUsize` says what it gives, but no run and no theorem is about it.
- A builtin that is not modelled (the names of `string` and `table` include
  them) raises an error when it is called; no program calls one.

## Runs

`tlc -config MCReplay_any.cfg MCReplay` checks a run, `tlapm ReplayProofs.tla` a
proof module.

| run | question | bounds |
|---|---|---|
| `any` | do the quotas, fidelity, strictness and the latch hold for any host and any program? | two calls, four tables (one that survives the tape, two that share an encoding, one without encoding), two error messages, gas 5 |
| `faithful` | with answers a tape can carry, do record and replay implement `Playback`, liveness included? | gas 7, so that a run has three calls and work between them |
| `meters` | is every call counted, recorded and paid, over two executions of one `Vm` and a replay? | gas 6, two executions |
| `verifier` | does `verify` end, is what it accepts sound, is what it rejects wrong? | every code of at most three instructions over a representative of every arm, operands in and out of range; every code of five that branch and iterate; depth limit 3 |
| `table` | layout, charges, limits, iteration, refinement of `TableContents` | four keys (inside, beyond the array part, a string, the one that is refused), two values, 3 entries, gas 22, memory 250 |
| `program` | does a compiled program do what its source means, under any limit? | 29 bodies in 6 contexts and some more, gas 60, 150, 600, call depth 4, 4-bit integers, strings of 8 |
| `text` | lexer and parser against the printer, decoders against the encoder and each other | all texts of up to 4 characters over each of ten small alphabets, plain or framed; token sequences of up to 6; trees of two operators on each side and every program; values three tables deep, JSON texts of up to 4 pieces in each frame; table depth limit 2 |
| `silent`, `twice`, `pastend`, `closures`, `depth` | a sentence of the documentation each, refuted (*Findings*) | the smallest that show it |

Why the bounds suffice. In `Replay` units are scaled: a base instruction, a
tool call and an unwinding cost 1 each, encodings are 0 or 1 bytes long; the
small limits make every comparison the binding one in some run, and the gas
limit bounds the length of runs (`RunIsBounded`). A code of three instructions
already has an operand, a branch and a merge; an unsound `stack_effect` entry
needs two (push, then take), and an iteration with a branch in its body
needs five. Three entries are enough for an array part, a hash key after a gap,
its consolidation and the limit itself; gas and memory of `table` run out before,
at and after it. The hash part of that run has two keys at most, so its capacity
grows from 0 to 4 and no further: growth from there on, and the edge at three
quarters, are left to the theorems `HashIsAlwaysCovered` and
`StoresAreAlwaysPaid`, which hold for every size. Each body of `program` is
one construct of the language or one way to fail, and each context another place for it
(plainly, under one `pcall`, under two, in a loop, in a table constructor, as a
condition), so errors are raised at every kind of operand depth. The smallest
gas limit stops most programs in the middle, the largest none that ends. Four
characters hold a long bracket with its level, an escape with its digits, or
the longest operator with what follows it.

Deadlock is checked in `program` and `text`, where `Terminating` is the only
way to stop: no instruction and no text leaves the machine without a step. The
other systems stop when a run has ended, a verifier has its verdict or the gas
of a table is used up.

### Properties

- Replay: `TypeOK` (types and quotas); `ReplayFidelity` (the replay of a run is
  that run, step by step, with its gas, counters and records);
  `StrictFindsFirst`, `DivergenceLatched` (a strict replay of any program
  reports the first call that differs and stays there); `TapeReproduced`;
  `CallsAccounted`, `ServedIsPaid`, `RunIsBounded`; `ImplementsPlayback`.
- Verifier: `TypeOK` (neither the depth table nor `MAX_STACK_DEPTH` is
  overrun), `AcceptedIsSafe`, `RejectionIsReal`, `VerifyEnds`.
- Tables: `LayoutFollowsContents` (no hash key follows the array part, and the
  entry count is right, whatever the history), `HashIsCovered`,
  `StoresArePaid`, `LimitStops` (the limits are checked after the store, and no
  program sees what they refused), `EachKeyOnce`, `LoopIsComplete`, `LoopEnds`
  (iteration over a table its body changes), `ImplementsContents`.
- Programs: `SameMeaning` (compiler and interpreter against `Language`),
  `LimitsOnlyCut` (the logs of a run that is cut short begin those of the run
  that is not), `DepthsAsVerified` (the stack is at the depth the verifier
  computes, whatever was called, caught or broken out of), `PcallReturns` (a
  `pcall` leaves what is below it alone, and two values),
  `DepthLimited` (a frame too many only for each comparator), `RunEnds`, and in
  `TypeOK` what the interpreter takes for granted when it unwraps and indexes;
  `ProgramVerified` (the compiler keeps to the slots, constants and cells it
  declares and captures, and what it emits passes the verifier), which the proofs
  about the interpreter start from.
- Text: `LinesAreRight` (the line the lexer counts, in `advance` only, is that of
  its position, and of each token), `BlanksAreFree` (what stands between tokens
  does not show in them), `TreesSurvive`, `NothingIsLost`, `TextEnds`;
  `RoundTrip`, `DecodersAgree` (for a character beyond ASCII that is written by
  number, it says what each decoder makes of it), `DecodeIsPaid`.

### Fairness

- `Replay`: `WF_vars(ReplayStep)` only: the interpreter loop of a replay waits
  for nothing but its tape. The live host may never answer and the embedder may
  never replay, so the dry run gets none.
- `VerifiedRun`: `WF_vars(Verify)`: `verify` is a loop that waits for nothing.
- `MeteredTable`: `WF_vars(IterNext)`: the body of a loop comes to its end. The
  body's own operations get none, and may come as often as gas allows.
- `Execution`, `MCText`: a loop of Rust code goes on until it ends. It is
  written as "infinitely often a step, unless the run has ended", which is weak
  fairness of the next-state relation wherever that is always enabled, as the
  deadlock check shows.

## Findings

- `silent`: an error with an empty message goes on the tape as a success
  (`tape.rs:103`), and the replay observes another error.
- `twice`: the second `execute` of a `Vm` starts with the gas the first one
  left (`engine.rs:224` says "Reset state for fresh execution").
- `pastend`: the verifier panics on a jump one past the last instruction
  (`verifier.rs:409`), which `verifier.rs:232-233` calls fine and which the
  compiler emits for `function f(x) if x then return 1 end end`.
- `closures`: a slot that was captured stays shared with the closure when its
  local is gone (`engine.rs:743`), and the next local in the slot overwrites the
  closure's variable, against the "capture by value at creation time" of
  `engine.rs:790-791`.
- `depth`: a comparator is called without the depth check
  (`engine.rs:1406`), so recursion through `table.sort` is not stopped by
  `max_call_depth`, against `tests/integration.rs:220`.

Observations on the code that no run is about:

- Integer keys and strings of digits have one encoding, decoded as integers
  (`canonicalize.rs:250`): `{["5"] = 1}` comes back from the tape as `{[5] = 1}`
  (`RoundTrip` is stated up to that).
- A response without encoding leaves no record (`tool_registry.rs:104`). If the
  program caught the error and called again, the later records shift and a
  strict replay diverges mid-tape, not at its end as the comment at
  `tool_registry.rs:99-101` says.
- `gas_charged` is the cost attempted; a call refused by the bytes-out quota
  was charged nothing (`transcript.rs:47`).
- Setting an element inside the array part to nil moves down those after it
  (`table.rs:217`), unlike Lua; `TableContents` says so.
- `table.move` pays gas and no memory for the entries it makes
  (`builtins.rs:1186`); `StoresArePaid` excepts it.
- `canonical_deserialize` truncates `\u` escapes to a byte (`\u0161` is read as
  `a`) and has no depth limit, `json.decode` writes UTF-8 and has one. Both reject
  what follows the value; only `decode_json_bytes` (`builtins.rs:1750`) ignores
  it. Bytes from 0x80 are encoded as `\u00XX`, so
  `json.decode(json.encode(s))` is not `s` for them.
- `return` inside a generic `for` compiles to code the verifier rejects
  (`codegen.rs:856`).
- `structural_checks` (`verifier.rs:134`) looks at neither the index of a local
  nor the upvalue descriptors of a prototype: that those are in range is up to
  the compiler (`ProgramVerified`).
- For a dotted function name (`function a.b() end`) the table is loaded before
  the temporary slot for the closure is stored to (`codegen.rs:734-795`): the
  field is set to the table itself, the closure stays on the stack, and the
  verifier rejects the code.
- The number of arguments of a call and of operands of a concatenation, and
  upvalue indices, are cast to `u8`, jump offsets to `i16`;
  `TooManyUpvalues` (`compiler/error.rs:15`) is raised nowhere.
- The least integer cannot be written in decimal, and `12ab` is two tokens.

## Proofs

All are for every value of the constants, under `CanonAssumption`,
`MeterAssumption`, `ReplayAssumption`, `VerifierAssumption`,
`MachineAssumption` (the chunk itself may take a frame, and a tool answers with
data, since its response is JSON), and for tables
`ValuesAssumption` (the pieces of strings are distinct, the least integer is
negative) and `MeteredAssumption` (keys are integers, strings or booleans, the
values stored are integers other than nil, so that sorting needs no comparator).

`Induction` states induction about sets and functions, not about predicates and
operators, so that the provers can use it: a set of numbers with 0 and closed
under successor has all of them, a set of finite sets that has each whose
smaller subsets it has. From these it derives functions defined by recursion
(`Recursion`, `SetRecursion`), that a function that unfolds like another is that
one (`SameUpTo`), sums over finite sets, and that the number of elements before
one in a strict total order is its place (`Places`).

- `ReplayProofs!TypeCorrect`: `Spec => []TypeOK`, by way of a lemma per
  operator of `ToolRegistry`; `After` maps states within the quotas to such
  states.
- `ReplayProofs!Fidelity`: `Spec => []ReplayFidelity`. Equal traces are not
  inductive: that the next answers agree depends on the tape, and the tape on
  a transcript that was still growing. `FidelityInv` adds that a recorded run is
  a `LiveRun` (each step follows from the one before, and records only grow),
  that the tape is its transcript (`TapeInv`), and that the replay is where the
  recording was after as many steps, cursor included (`InStep`).
  `CanonAssumption` matters here: a decoded table has an encoding, else a replay
  could record less than it consumed.
- `ReplayProofs!StrictReplayFindsFirst`, from `StrictInv`: the cursor is at the
  divergence or one past the last call of the transcript.
  `ReplayProofs!DivergenceIsLatched`, from "diverged implies strict".
  `ReplayProofs!RunsAreBounded`: each operation costs at least one.
- `ReplayProofs!TapeIsReproduced`: `Spec => []TapeReproduced`, with no assumption
  on the replayed program. `ReproductionInv` follows one entry through three
  places: faithful answers leave records whose entries are `Carried` (bytes that
  decode and encode back, or an error with a message), so the tape holds only
  such entries, and serving one appends a record that yields it. `CursorInv`
  keeps cursor and transcript level until the tape ends or the replay diverges.
- `ReplayProofs!EveryCallIsAccounted` and `EveryResponseIsPaid`, from
  `AccountInv`: the sums over the trace equal, or are bounded by, the counters
  and meters of the run. Each step appends to the trace, so each sum gains one
  term at most; the rest is what `After` adds to the counters in each of its
  outcomes (`ReplayProofs!AfterOnlySpends` for the gas).
- `VerifierProofs!DepthsAreBounded` and `VerifierProofs!AcceptedCodeIsSafe`,
  from `SafetyInv`. The depth table is a certificate in the making: each entry is
  settled (its instruction sound at that depth, its successors in the table
  with theirs) or still on the worklist (`Certificate`); when `verify` accepts,
  the worklist is empty, and the run goes from one settled entry to the next
  (`FollowsDepths`). `EffectsAgree` is the lemma that `stack_effect` and
  `dispatch` agree, instruction by instruction; `Grows` is what `schedule` may
  do to the table.
- `VerifierProofs!RejectionsAreReal`: `Spec => []RejectionIsReal`, the converse:
  a fault of the depth analysis happens on some path. `RejectionInv` adds that
  every depth found so far is reached in fewer instructions than there are
  depths (`Shown`): each is found one instruction after another
  (`ScheduleIsOwed`), and there is at most one for each instruction, so paths as
  long as the code decide. `ReachedSteps` unrolls the recursive definition of
  the states reached (`RecursionOnNat`). Past the structural checks it leaves
  out only `"panic"`, the finding of the run `pastend`.

- `TableProofs!TablesAreGood`: `Spec => []TableInv`, where `TableInv` says that
  the table is one of `GoodTables` (its parts disjoint, the array part the longest
  run from 1, the entry count right, the hash part within its capacity) and that
  a program that still runs is within its limits. `LayoutFollowsContents`
  alone is not inductive: consolidation counts on the hash part being finite and
  on the entry count, and the capacity on the entries before the insertion.
  Each case of `rawset_tracked` preserves it (`RawsetIs`), consolidation by the
  end of the run it moves (`ConsolidateAll`), the capacity because
  `next_power_of_two_capacity` suffices for every size (`CapacitySuffices`). The
  loops of `table.insert`, `remove` and `sort` have their closed forms
  (`InsertIs`, `RemoveIs`, `SortIs`); a move is followed store by store (`MoveIs`).
  `Pays` relates the state before a step to the one after and is transitive,
  which gives `StoresAreAlwaysPaid`.
- `TableProofs!EachKeyComesOnce`, `SortedLoopsAreComplete` and `TablesAreTyped`,
  from `LoopInv`: what a loop has given its body is the first part of the keys
  it took at its start, or 1, 2 and so on. That the keys are taken once each
  rests on the order of keys being total (`StringsAreOrdered`, `KeysAreOrdered`).
- `ContentsProofs!TablesImplementContents`: `Spec => ImplementsContents`, safety
  being all that `TableContents` asks. `ContentsAre` reads the contents
  from the two parts; `SetIs` says that an assignment is `Set` on the contents
  in every case, consolidation included; then a lemma per operation. The cases that
  tests do not reach are those cut short: an insertion whose memory runs out has
  copied the last element past the list (a move of one), a move that meets the
  limit has stored the elements before it (a shorter move). A sort keeps each
  value as often as it was, because the places it assigns are a permutation
  (`SortedPositions`).

- `ExecutionProofs!DepthIsLimited`: `Spec => []DepthLimited`, whatever the
  compiler and the semantics (`Compiled`, `MeaningOf`) are: the programs may even
  be ones the verifier would reject. A bound on the frames alone is not
  inductive, since an unwinding goes back to as many frames as a checkpoint says
  and at the same time drops the comparators above it. `Nested` adds that each
  checkpoint has no more frames than the limit and the comparators below it
  allow, and that a sort called by a `pcall` lies right above that `pcall`, so
  both leave together. Most instructions leave frames and checkpoints as they
  are (`Level`); the others are `PushCallFrame`, `Finish`, `SortOn`, `Return` and
  `Settle`, a lemma each.
- `SoundnessProofs!FramesStaySound`, `StackAnalysisIsSound` and
  `PcallsGiveTwoValues`: `Spec /\ ProgramVerified => []TypeOK`,
  `[]DepthsAsVerified` and `PcallReturns`, for every
  program of that kind, every limit and all answers of tools. `ProgramVerified`
  is about the first state: the prototypes and the depths the verifier has found
  for them. `stack_analysis` gives the depths (`Balanced`), `structural_checks` the
  constants, prototypes and upvalues; `verify` checks neither the index of a
  local nor what a closure captures, so those parts are what the compiler owes.
  That it gives them, the run `program` checks (`ProgramVerified` is one of its
  invariants), program by program, so the hypothesis is not empty.

  None of these is inductive. `TypeOK` says nothing of the values in tables
  and cells, and any of them may be called next; `DepthsAsVerified` speaks of the
  frame that runs, and a return makes it another one. `VmSound` (module `SoundStates`)
  has three parts. What is stored anywhere is sound (`DataSound`): a function has
  a prototype and as many cells as that has upvalues, a table value a table, and
  handles and shared slots are on the stack only. The frames lie one above the
  other, and each checkpoint is level with the frame that waits for it
  (`FrameOk`, `EntryOk`; a sort called by a `pcall` waits in the same frame as the
  `pcall`, and leaves with it). And every frame that waits is where the verifier
  has it once its call has left one value, or two after a `pcall` (`Awaits`),
  the innermost one where it is (`Done`). This last part is what a local
  analysis of one prototype and the dynamic nesting of calls have to do with each
  other: a call is analysed as if it left its result at once, and by the time it
  does, any number of frames may have come and gone, or been unwound.

  In a step, an intermediate state need only be `Mid`: sound but for `Done`.
  Most instructions are `Work` on the innermost frame (`StepGoes` says that this
  leads to a sound state whatever fault happens on the way); a call pushes a
  frame on one that is where its call leaves it (`CallSound`); a return, a sort
  that ends and a caught error go back to a frame that waits (`Ready`,
  `FinishSound`, `SettleSound`). The recursive functions of the model are each
  followed by an induction over their argument: the operands a concatenation
  joins, the upvalues a closure captures (a captured slot becomes shared while
  the closure is made), the merge sort with the answers it has
  (`MergeSortOutcome`: it asks about two values of the array, or has a
  sequence of them), the values it writes back.

  `PcallReturns` relates a state to the next one: the frames and the stack below
  the checkpoint of a `pcall` are untouched while it runs, and are all that is
  left, with two values on top, when it ends. Each part of an instruction keeps
  the pcalls there are (`Keeps`, which composes: `KeepsThen`), and what ends one
  gives it its values (`Returns`); an error that unwinds past several checkpoints
  goes back to one of them and drops those above (`SettleLands`). `Lands` is both
  at once: a sound state with the pcalls as they should be.

Only model-checked: of programs, `SameMeaning`, `LimitsOnlyCut` and
`ProgramVerified`; everything about texts; of the rest, the liveness
properties `ImplementsPlayback`, `VerifyEnds`, `LoopEnds` and `RunEnds` (fairness
and ENABLED are out of the prover's reach). Compiler, parser, JSON and the
reference semantics are recursive over trees in RECURSIVE operators, which no
module with a proof may reach, so what they compute (`SameMeaning`,
`ProgramVerified`, the texts) cannot be proved; `Machine` and `Execution` have
none.

## Not modelled

- Tape commitments, attestations, program hash, ISA trace ids: pure functions
  of bytes; a model would restate them.
- `check_proto_dag`: the compiler finishes a function before the one it stands
  in, so prototypes cannot refer to each other in a circle.
- Of the builtins: the functions on the bytes of a string (`sub`, `find`,
  `byte`, `rep`, `format`, `char`), `select`, `unpack`, `table.concat`, the math
  and decimal functions. They are pure functions of their arguments.
- The command line and the examples. `max_output_bytes` of `VmConfig` is never
  enforced and so appears nowhere.

What the programs of `Execution` leave out, and why: `return` inside a generic
`for` (rejected before execution); functions with dotted names (rejected too); a local in a
slot that was captured before (the run `closures`); functions or jumps long
enough for the casts to `u8` and `i16` to wrap; several initialisers in one
`local` that refer to each other; the sentinel strings (`"__string"`) as
values; tool calls beyond three. Comparators that give no order are there
(`changes`, `badsort`), also one that changes the table that is being sorted;
comparators whose answer differs from one call to the next for the same
operands are not.
