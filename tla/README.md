# TLA+ models of vex-lang

Vex is a small systems language. `vexc` translates it to C; a standard library
in Vex (`std/`) comes with it, and Flux, a binary data format, exists three
times: in Python (`flux/flux.py`), in C (`flux/flux.c`) and in Vex
(`std/flux.vex`). This directory holds TLA+ models of the parts that keep state
or make decisions, TLC configurations that check them, and TLAPS proofs.

## 1. Inventory

| Part | State | Operations | What is hard |
|---|---|---|---|
| hash table, `std/hash.vex` | slot array, `len`, heap copies of keys | `ht_new set get has del free` | open addressing without tombstones: order of calls decides what is found; full table; equal hashes |
| Flux codec, `flux/flux.c`, `flux/flux.h` | cursor of the caller's buffer | `flux_encode_*`, `flux_decode` | items cut anywhere, buffers that fill inside an item, width boundaries |
| Flux codec, `std/flux.vex` | the same | `flux_enc_*`, `flux_dec` | agreement with the C twin although widths and doubles differ |
| Flux codec, `flux/flux.py` | none; `Schema._registry`, `Schema._next_id` per process | `encode decode`, `Schema`, `Schema.encode/decode` | cut messages, ids that mean something only in the process that counted them |
| file helpers, `std/io.vex` | the file, stdio buffers | `io_read_all io_write_all io_append io_file_size` | other processes between two stdio calls, full device, kill |
| module gathering, `vex/parser.py` (`parse_files`, `parse_file`, `parse_module`) | `already_parsed`, files being parsed, merged definitions | command-line files, imports | import graphs with cycles, diamonds, missing files |
| lexer, `vex/lexer.py` | position and line | one scan | where a lexeme ends, which line a token is on |
| parser, `vex/parser.py` | token position | recursive descent, precedence climbing | no separators, struct literals against blocks, signatures without bodies |
| type checker, `vex/typeck.py` | chain of `Scope` objects, a type per expression | scopes; type rules | what a name and a type mean here and in C |
| code generator, `vex/codegen.py` | output lines, loop counter | emission | it has no scopes and no types of its own |
| AST, `vex/ast.py` | none | data classes | - |
| driver, `vexc` | output file, temporary C file, exit code | compile, `-S` | every step may fail or be interrupted |
| `std/rand`, `std/net`, `std/time`, `std/env fs math str mem` | libc's | wrappers | index arithmetic of `rand_shuffle`; failing calls in `net_tcp_listen` |

How they interact. The driver calls `parse_files` (lexer and parser below it),
then the checker, then the generator, each on the result of the one before; the
checker and the generator look at the same syntax tree but resolve names
separately, which is what `Names` is about, and the C compiler gives the text
that the generator wrote types of its own, which is what `Types` is about. At
run time the standard library's modules do not call each other, except through
`alloc` and `free`; the three Flux implementations meet only in bytes, which is
what `FluxStream` and `PySchemas` are about; processes meet in files, which is
what `Files` is about.

Correctness, part by part: the hash table is a bounded map and owns exactly the
memory its slots need; a Flux reader gets exactly what the writer encoded,
whatever pieces it arrives in, or an error; the file helpers do what their
return values say; every definition of a program is gathered once, and the
gathering ends; the tree of an expression is that of its operator table,
whatever the layout of the text; a name and an expression mean in C what they
meant to the type checker; and the exit code, the output and the temporary file
of `vexc` tell the same story whatever failed.

## 2. Modules

| Module | Models | Correspondence |
|---|---|---|
| `KVMap` | what the hash table promises | an abstract bounded map: `Set`, `Del`, `Free` |
| `HashTable` | `std/hash.vex` | `slots`, `len` as in `HTable`; `bufs` counts live key copies; one action per outcome of each loop: `Insert`, `Overwrite`, `Drop` are `ht_set`, `Remove`, `DelAbsent` are `ht_del`; `HtGet`, `HtHas` are operators; `SafeSpec` is the caller that heeds docs/stdlib.md:566 |
| `HashTableUse` | the same with its caller | remembers values set and keys deleted |
| `FluxWire` | the item codecs of `flux.c` and `std/flux.vex` | pure operators: tags, varints, integer widths, `Encoded` and `Decode` with the status and the cursor each returns |
| `FluxStream` | both ends of a byte stream | `Encode`, `Rewind` at the writer, `Deliver` any number of bytes, `DecodeCall`, `Retry` at the reader |
| `FluxPython` | `encode`, `decode` of `flux.py` | `Enc`, `PyDec` over nested values; `Accepts` is what `encode` does not raise for; exceptions of `decode` are `~ok` |
| `PySchemas` | several Python processes | registries, `Create`, `Restart`, messages that may be cut, either decoder on any message |
| `Files` | `std/io.vex` | one action per stdio call of a helper, so that other processes, kills and a full device come between them |
| `Imports` | `parse_files`, `parse_file`, `parse_module` | the recursion is the variable `stack`; one action per branch of the loops |
| `Driver` | `main` of `vexc` | extends `Imports` with the output, the temporary file, the exit code; one action per call that may fail, with what a failure leaves behind, `os.unlink` in the `finally` clause included; `Interrupt` (Ctrl-C) before, within or after any of them |
| `Parser` | `Parser` of `parser.py` | one operator per method, from declarations to operands; a result is ok/position/tree; texts grow token by token |
| `Lexer` | `tokenize` | a text is a row of characters and the tokens follow from it; `Turn` is one turn of the loop, `Lex` all of them |
| `FrontEnd` | `parse_file` | the lexer in front of the parser: a text is given as characters or as tokens |
| `Types` | `resolve_type`, `_compat`, `_infer`; `rtype_to_c`, `_gen_expr` and C's rules | an expression grows from a leaf node by node; `Infer` is the checker's type, `C` the type gcc gives to the emitted tree |
| `Names` | scopes of `typeck.py`, identifiers of `codegen.py` | walks a body statement by statement with the checker's scope chain and C's block chain side by side |

`MC*` modules give the constants of the runs. `HashTableProofs`,
`DriverProofs`, `ImportOrderProofs`, `FluxProofs`, `FilesProofs`, `NamesProofs`
and `LexerProofs` hold the theorems, `Induction` the induction and the recursion
on numbers that they use. Operators marked "Mutant" are plausible mistakes, used to see that each
property notices one; no specification uses them.

Composition: `HashTableUse` extends `HashTable`, which instantiates `KVMap`
with a refinement mapping; `FluxStream` and `FluxPython` extend `FluxWire`;
`PySchemas` extends `FluxPython`; `FrontEnd` extends `Parser` and `Lexer`
and gives the parser the tokens of the lexer's text, so that the parser's
properties are checked over characters too;
`Driver` extends `Imports` and takes its steps while `main` is inside
`parse_files`.

What is abstracted. Key strings, names and payloads are members of small sets;
the FNV hash is a constant function, so that any two keys may or may not share a
hash; a byte is a digit in base `B` and a word a number below `W`; a double is a
number that is or is not exact as a float; of a token its kind matters and
whether it is on the line of the one before, all named types are one kind, and
so are all constants. In `Lexer` a letter or a digit stands for those the
scanner treats like it. In `Types` the other operand of a node is always a leaf,
and C is external: its conversions, with gcc's warnings about pointers switched
off as in `vexc:63-66`. In `Files` the device, the kernel and stdio are
external, modelled from the calls `std/io.vex` makes. In `Names` a statement is
the name it declares and the names it uses. In `Driver` an output is old,
partial, new or gone, and a temporary file that cannot be removed is stuck;
exit code 1 stands also for Python's 120, for messages it cannot flush.

The operators of `Lexer`, `Parser` and `Types` were also compared with the
program itself. For every text of the `parser` run, `tokenize` gives the tokens
and line breaks that `Lex` gives, and `Parser` accepts what `Parse` and
`ParseModule` accept (texts with imports were left out). For every expression of
one node on a leaf and a tenth of those of two, over the operators of the
`types` run, `&&` and `%`, `TypeChecker` records the type `Infer` has, and gcc
accepts the emitted text exactly when `C` does, with the same type, but for
three things `C` does not tell apart: `unsigned long` and `unsigned long long`,
the variadic type of `printf`, and `p + (p - p)`, which gcc folds to the
variable `p`.

## 3. Runs

| Run | Module, configuration | What it shows |
|---|---|---|
| `hash_any` | `MCHashTableUse`, `HashAny.cfg` | for every caller: exact counters, no leak after `ht_free`, no foreign values, `ht_set` is visible unless the table is full, other keys keep their values |
| `hash_safe` | `MCHashTable`, `HashSafe.cfg` | with deletes at chain ends only: chains intact, no duplicates, `ht_has` exact, refinement of `KVMap` |
| `hash_resurrect` | `HashResurrect.cfg` | expected violation, see section 6 |
| `flux_stream` | `MCFluxStream`, `FluxStream.cfg` | C or Vex at either end: every item alone is decoded as itself (`CodecLaw`); items arrive as sent, in order; a decoder call fails only with TRUNCATED, and only when that is true; every item arrives |
| `py_schemas` | `MCPySchemas`, `PySchemas.cfg` | values and records come back as they were or raise; a cut is noticed unless it is in the last text |
| `parser` | `MCParser`, `Parser.cfg` | trees against an independent definition by shape; lines split into statements; files split into declarations; braces are bodies; every token is the longest lexeme; the line breaks the parser is told of are those of the text |
| `types` | `MCTypes`, `Types.cfg` | the type recorded for an expression is the one C computes but for the listed drifts; what `_compat` lets through, but for integers of another width or sign, C stores as the same type, as a floating value, or as another pointer; `ptr<T>` and `ptr<mut T>` reach C |
| `array_loop` | `ArrayLoop.cfg` | expected violation |
| `files` | `MCFiles`, `Files.cfg` | what the helpers guarantee to two processes, kills and a full device included |
| `names` | `MCNames`, `Names.cfg` | the emitted identifier means what the checker took the name for, chains agree |
| `names_shadow` | `NamesShadow.cfg` | expected violation |
| `driver` | `MCDriver`, `Driver.cfg` | of the gathering: every file once, every definition, no failure without a reason, imports first; of `main`: exit code 0 means a new output and no file beside it, how the temporary file can stay, the old output, and that it ends |

### Bounds

* Hash table: three slots and three or four keys. Homes collide, one chain
  wraps around the end, two keys have the same hash, and with four keys there is
  one more than the table holds. Longer chains repeat these situations; the
  theorems cover them all.
* Flux: digits of three bits and words of 23 bits. A varint group has two bits,
  so that the last group of a word is partial, as it is for 64 bits in groups of
  seven; the ranges of the integer tags end at 7, 63, 4095 and -4, -32, -2048.
  Items stand on both sides of those ends. The buffer holds 15 bytes, so that
  the second item may or may not fit; two items suffice because a decoder call
  depends on nothing before its own item. `FluxPython` uses the same digits.
* Python: two processes, two schemas that share a field, so that a reader may
  have none, one or both of them. Integers stand at both ends of the 64 bits and
  beyond them, doubles on both sides of the largest float, and one key has a
  lone surrogate; what lies beyond is never sent.
* Files: two processes, three calls, a stream buffer of two bytes and data of
  two and three bytes: one fits and one does not. Three calls let one call
  overlap two others.
* Driver: three files, one of which has a second path, and a missing path, with
  imports before, after and around a definition, over four command lines; this
  has self imports, cycles of two and of three, diamonds, links, files that do
  not parse and definitions of one name in several files. Each of these
  compilations runs into every failure and every interrupt.
* Names: four statements, two nested blocks, one name used per statement. A
  disagreement needs a declaration, one in an inner block and a use.
* Parser: texts of at most six tokens over nine alphabets, one per group of
  forms. Six tokens hold two binary operators with their operands, a prefix and
  a suffix, a bracket in a bracket, or a loop with its body. Types and
  declarations need more: six further alphabets continue a fixed beginning
  (`let x :`, `extern fn x (`, ...) to between eleven and fifteen tokens. A text is not
  continued after a token that the parser rejects. The seven sets of characters
  are those of comments, strings, numbers, symbols and words; four to seven
  characters hold two lexemes with a comment, an escape or a dot between them.
* Types: two nodes on top of a leaf, over nine parameters that have every kind
  of type, two functions, a struct with an array and a pointer to itself, and
  seven literals. `Infer` and `C` look at the types of the operands only, and two nodes
  reach every kind of type as an operand.

`CHECK_DEADLOCK FALSE` stands where the system stops: a freed table, a stream
whose items have all arrived, calls or statements used up, a finished
compilation, a text of full length.

### Fairness

`FluxStream` has weak fairness of `Deliver`, `DecodeCall`, `Retry` and `Rewind`:
bytes of finished calls are transmitted at last and both ends follow their API.
The writer need not encode anything; the property speaks of what was encoded.
`DSpec` of `Driver` has weak fairness of `Step`, which is everything but
`Interrupt`: one thread runs `main`, each call returns or raises, and gcc
answers. Nobody has to press Ctrl-C. All other specifications are safety only.

## 4. Proofs

`tlapm HashTableProofs.tla` checks, for every finite or
infinite set of keys, every set of numbers as values, every capacity from 1 and
every hash function (`CapAssumption`, `HashAssumption`, `ValAssumption`,
`KeyAssumption`):

| Theorem | States |
|---|---|
| `TypeCorrect` | `Spec => []TypeOK` |
| `LenCorrect` | `Spec => []LenExact`: `len` and the heap copies |
| `SetVisibleCorrect` | `UseSpec => SetVisible` |
| `OthersKeepValueCorrect` | `Spec => OthersKeepValue` |
| `OwnValuesCorrect` | `UseSpec => []OnlyOwnValues` |
| `ChainsCorrect` | `SafeSpec => []ChainsIntact` |
| `NoDuplicatesCorrect` | `SafeSpec => []NoDuplicates` |
| `HasCorrect` | `SafeSpec => []HasIffStored`, if `HT_MISSING` is never stored |
| `Implements` | `SafeSpec => ImplementsMap`: the table refines `KVMap` |

The argument. `LenExact` is inductive next to `TypeOK`: an insert occupies one
slot more, a remove one less (`InsertOccupies`, `RemoveOccupies`), the rest
none. `ChainsIntact` is inductive next to `TypeOK` for the careful caller: an
insert fills the first empty slot of its own probe, and no probe that ends later
went past an empty slot (`InsertChains`); a remove empties a slot that, by
`EndsAChain`, no other probe went past (`RemoveChains`). Without `EndsAChain` it
is false, which is what `hash_resurrect` is about. `NoDuplicates`,
`HasIffStored` and the refinement follow from it, because a probe has one end
(`EndUnique`): under intact chains a key is found exactly when a slot holds it
(`StoredInSlots`), so that each operation changes the set of stored keys by its
own key only, and the number of keys is at most that of occupied slots
(`StoredBound`). `SetVisible` needs that a probe of `Cap` steps visits every
slot (`ProbesCover`, the arithmetic of the ring). `OthersKeepValue` and
`OnlyOwnValues` hold for every caller; the second is strengthened to all slots
(`SlotsOwn`), also those no probe reaches, because a later insert may show them
again.

`tlapm DriverProofs.tla` checks, for every set of paths and names and every set
of programs of any number of files of any length, of which some are missing or
do not parse (`ProgramsAssumption` says no more than what a program is):

| Theorem | States |
|---|---|
| `OpenedOnceCorrect` | `DSpec => []OpenedOnce` |
| `OpensReachCorrect` | `DSpec => []OpensReach`, the first conjunct of `MergesAll`: a success has opened the files of the program, all of them and no others |
| `MergesAllCorrect` | `DSpec => []MergesAll`: and it has merged every name these files define, once |
| `FailsForAReasonCorrect` | `DSpec => []FailsForAReason` |
| `ExitCodeCorrect` | `DSpec => []ExitCodeTells`: after exit code 0 the output is new and whole and no temporary file is left |
| `TempRemovedCorrect` | `DSpec => []TempRemoved`: the three ways in which the temporary file can stay, none of them with exit code 0 |
| `OutputKeptCorrect` | `DSpec => OutputKept` |

The argument. `GatherType` is inductive and holds that a path has been opened
once if it is in `already_parsed` and never otherwise, which is `OpenedOnce`.
`ReadInv` says that whatever is noted, or still to be read in a file on the
stack, belongs to the program, and that a failure has a reason there; `WholeInv`
says that nothing is forgotten: a path of the command line has been noted or is
still among the arguments, and an import of a noted file has been noted or is
still to be read in a file on the stack. It is needed because a cycle makes
`parse_module` pass by a file that is only half read. Both are stated with
`Reachable`, the intersection of all closed sets of paths; `ReachIs` shows that
it is the `Reach` of the properties. At the end nothing is left to read, so that
the noted files are closed. `DriverInv` says what each stage of `main` has and
has not done; with it, the three theorems on `main` follow action by action. The
converse of `ExitCodeCorrect` is false and is not claimed: `os.unlink` may raise
after gcc has succeeded, gcc's messages may be impossible to decode, the message
of `-v` impossible to print; the code is 1 then, and the output new.

`tlapm ImportOrderProofs.tla` checks, under the same assumptions:

| Theorem | States |
|---|---|
| `ImportsComeFirstCorrect` | `DSpec => []ImportsComeFirst` |

`MergeInv` says that a name is merged once, comes from a file that was begun,
and that a name of a begun file is merged, noted in a file on the stack, or
still in front of that file's position (`Underway`): nothing is lost on its way
up the stack. `OrderInv` is about the gathering before it ends: the files on the
stack import one another; what a file is past has been begun, if it is an
import, and is there, if it is a definition; a file that is no longer on the
stack is there with all its names; and without cycles, a name stands behind
those it must follow (`Led`), where the merged list and then the rows of the
stack, outermost first, are read as one list. The proof found that the property
had said too much: a file may define a name twice, in front of an import and
behind it, and then the first one counts. It now speaks of the names defined
behind the import only (`OnlyAt`).

`tlapm FluxProofs.tla` checks, for every
even base, every word of at most eight digits, every set of items the encoders
take, every number of them, every buffer whose size a word can hold and every
mixture of the two implementations:

| Theorem | States |
|---|---|
| `VarintRoundTrip` | a varint is read as the number it was written for, after any byte and before any others |
| `IntRoundTrip` | an integer of any width and sign is read from its digits as itself |
| `CodecLawCorrect` | `Spec => []CodecLaw`: whatever item either end encodes alone, the other decodes as that item |
| `GotIsSentCorrect` | `Spec => []GotIsSent` |
| `FailsOnlyWhenShortCorrect` | `Spec => FailsOnlyWhenShort` |
| `StreamTypeCorrect` | `Spec => []TypeOK` |

The assumptions are those of the code. `BaseAssumption` and `WordAssumption` hold
of bytes (256), groups (128) and words (2^64 = 256^8). `ItemAssumption` says that
an item is what the C types of the encoders admit (`ApiItems`), and that its
header and payload together are no longer than a word can count, as anything in
memory is. `EndsAssumption` says that only `std/flux.vex` reads schema headers.

`CodecLaw` is what a round-trip test of single items says: the bytes of one item
alone, and all of them, are decoded as that item, they fit in the room the
encoder asked for, and the number before a string is its length. Its proof is
arithmetic. Taking a digit off a number and putting it back is `DivMod`; that n
digits determine every number below the nth power of the base is
`DigitsNumber`, by induction on n; and a number has so many groups as it takes
until nothing is left (`VarintSizeIs`), never more than those of the largest
word (`SizeFits`), so that the reader, which gives up at the width of the word,
does not give up too early: this is where the last group, which in 64 bits is a
partial one, matters. Both encoders choose a width that holds the number and a
sign for the negative ones (`IntTagFits`), although they choose differently.

What the other theorems add is everything that happens to such items in a
stream. `DecodeLocal` says that an item is decoded at any position as it is at
the front of a buffer, whatever follows it, and that a call which finds only a
part of it reports TRUNCATED, with the cursor inside what has arrived. For a
varint that is because the first byte without the high bit is the same one
(`VarintLocal`); for a string because position and length cannot wrap around in
a buffer smaller than a word. `StreamInv` is the invariant: there are offsets
that cut the bytes of finished calls into the items sent, and the reader stands,
or will stand after `Retry`, at the offset of the next item it has not got. The
offsets are under an existential quantifier, since neither end records them.
`TypeOK` alone is not inductive: that a cursor stays inside what has arrived
depends on where it is.

`Induction` stands below this, `NamesProofs` and `LexerProofs`. The library's theorems of
induction and recursion take an operator and cannot be used here, but its
theorem that finite sets are well founded takes none. `MinIsThere`, `MaxIsThere`
and `AllNumbers` (a set of numbers that has 0 and with each number the next one
has them all) take a smallest one among intervals; `Recursion` builds the
function a recursive definition like `Pow`, `Left` or `FromDigits` speaks of,
from the sets of its beginnings. This is why powers and digits are recursive
functions here and not `^` and folds.

`tlapm FilesProofs.tla` checks, for every set of processes, every set of
lengths, every size of the stdio buffer and every number of calls:

| Theorem | States |
|---|---|
| `ReadsWholeCorrect` | `Spec => []ReadsWhole` |
| `AppendsSurviveCorrect` | `Spec => []AppendsSurvive` |
| `WritesAloneCorrect` | `Spec => []WritesAlone` |
| `FilesTypeCorrect` | `Spec => []TypeOK` |

The inductive invariant `FilesInv` has a part for each stage a call can be in.
`Stages` says which fields are set at which stdio call; `Blocks` that what a
call has yet to write consists of its own bytes; `Ids` that the calls under way
have different numbers. `Reads` follows a reader: until an `io_write_all`
truncates or writes, what it has is a prefix of the file. `Lone` follows an
`io_write_all` that has met nobody: the file and its buffer together are its
data. `Appends` counts: of an append, the bytes in the file and those in its
buffer are together all of them, and in the end they lie in one piece if they
all fitted in the buffer. `Budget` bounds the ghost counter of `TypeOK`. The
assumptions are `BufAssumption` and `CallAssumption`, and that lengths are
natural numbers (`LenAssumption`: `len` is a `u64`). TLC had checked the
invariant in every state of the `files` run before it was proved.

`tlapm NamesProofs.tla` checks, for every set of names and bodies of any length,
nesting and shadowing:

| Theorem | States |
|---|---|
| `ChainsAgreeCorrect` | `Spec => []ChainsAgree`, if no local variable has the name of a loop's index |
| `SameMeaningCorrect` | `Spec => []SameMeaning`, if names are kept apart (`PlainNames`) and no initializer names its own variable |

The hypotheses are the places where the code is wrong, see section 6: a local
with the name of a function, a built-in function that is not declared, `let x =
x + 1` in an inner block. The two chains do not agree level by level: the
checker has a scope for the parameters and one for the body where C has one
block, and inside a `for` the scope of the variable pairs with the block of the
index. They agree wherever a statement begins. `ChainInv` says that there is a
depth for every statement list that is open (`Depths`), and that both chains,
cut off there, answer every local alike: leaving a list uncovers the next such
depth, and what has been declared beyond it is gone from both. That a lookup
finds the innermost declaration is a maximum of a set (`MaxIsThere`).

`tlapm LexerProofs.tla` checks, for every text of any characters and any length:

| Theorem | States |
|---|---|
| `LinesTrueCorrect` | `LSpec => []LinesTrue` |
| `LexEnds` | the loop of `tokenize` raises or comes to the end of the text in no more turns than there are characters, and its tokens stand there one behind another |

The invariant of the loop is `Good`: the tokens taken so far lie in the text
before the position, none over another, and wherever the line changed, from one
token to the next or from the last one to the counter, a line end stands in that
stretch, and the other way round. `TurnKeeps` says that a turn keeps it and goes
on. It rests on what each branch takes: `Reads` and `Skips` say that the branch
moves forward and counts a line exactly if it runs over a line end. For words,
symbols and numbers that is because no line end is among their characters; for
a block comment because the marks at its two ends are none; for a string because
without a backslash no character in it counts as escaped, so that all its line
ends are counted, and a backslash before a line end is the exception that
`LinesTrue` leaves out. TLC had checked `Good` after every turn over 93,000 texts
before it was proved.

Only model-checked: `FluxPython` with `PySchemas`, `Types` and `Parser`. These
define trees and nested values by recursive operators, which the prover does not
reach; their properties (`RoundTrip`, `CutIsNoticed`,
`TypesAgree`, `StoredAsChecked`, `MutabilityKept` and the parser's four) stay with
TLC. So does the lexer's `LongestLexemes`, which compares every token with
every longer row of characters, and so do the liveness properties `AllArrive`
and `Exits`.

## 5. Not modelled

* The text of the generated C: line by line layout, the preamble, the order of
  its declarations. `Types` has the tree C reads, `Names` the identifiers.
* Values of tokens, columns, the wording of errors.
* `check_stmt` at conditions and `free`, which ask for no more than a type.
* The arguments of `vexc`. `-I` sets a `VEX_PATH` that nothing reads (`vexc:37-39`),
  and `-S` writes beside the first file and ignores `-o`.
* `std/rand` (`rand_shuffle` of zero elements starts at index 2^64 - 1), `std/net`
  (`listen` may fail unnoticed), `std/time` (`ms * 1000` in 32 bits) and the
  one-line wrappers.
* Allocation failure, which no caller of `malloc` in the library checks.

## 6. Where the code and its documents disagree

Each of the first three is a run that TLC must find violated.

1. `ht_del` (docs/stdlib.md:534). Delete a key in the middle of a chain; a key
   behind it is no longer found, so that its own `ht_del` does nothing; setting
   the first key again makes the second one come back. (`hash_resurrect`)
2. A loop over an array variable counts to `sizeof(it) / sizeof(it[0])`, and array
   variables are emitted as pointers (codegen.py:29-30 and 192): over three
   elements of 32 bits it runs twice. docs/vex.md:187 says that it works for
   fixed-size arrays. (`array_loop`)
3. A local variable named like a Vex function is emitted as the function, although
   docs/vex.md:422 calls the prefix transparent. (`names_shadow`)

Met while reading and modelling, without a run:

* Flux: `encode(1e300)` raises `OverflowError`, because every float is packed into
  four bytes first (flux.py:92), integers of more than 64 bits raise
  `struct.error` (flux.py:139) and text with a lone surrogate
  `UnicodeEncodeError` (flux.py:104); docs/flux.md:107 calls any value of these
  types encodable. `Accepts` has these limits; a property of them would restate
  the definition. `flux_enc_i64` writes nine bytes for numbers
  between 2^31 and 2^32 - 1, where docs/stdlib.md:643 promises the smallest
  encoding; the C decoder reports a schema header as a bad tag.
* Driver: `os.unlink` runs in the `finally` clause (vexc:80). If it raises after
  gcc has succeeded, vexc ends with a traceback and exit code 1 beside a new
  output, and may leave the temporary file; if it raises on the way out of a
  Ctrl-C, its exception is the one that is reported.
* Files: `io_read_all` never writes the terminator that docs/stdlib.md:285
  promises: it allocates one byte more than the size and leaves it as it was
  (io.vex:43-45). `ReadsWhole` speaks of the bytes of the file only.
  `io_write_all` returns 0 when `fclose` is refused, where
  docs/stdlib.md:290 promises -1, and is not atomic; `io_read_all` may return a
  size larger than what it read.
* Types: conversions between integer widths are implicit (typeck.py:354), where
  docs/vex.md:519 says "No implicit conversions between integer widths":
  `StoredAsChecked` leaves them out. Assignment to an immutable `let` is not
  rejected (docs/vex.md:85); `f64 * i32` is
  rejected, while `i32 * f64` is accepted and recorded as `i32`; the `const` of a
  nested pointer lands on the innermost pointee; a variable of a function type
  is emitted as invalid C; a struct literal may leave out fields
  (docs/vex.md:274), and `(S){.row = v}` with an array field stores a pointer in its
  first element.
* Names: `let x = x + 1` in an inner block reads the new `x` in C. The checker
  knows `printf`, `fprintf` and `sprintf` (typeck.py:135-139) and accepts a body
  that uses them undeclared; the code generator emits `vex_printf`, which
  nothing defines (codegen.py:249). With `Builtins = {"print", "printf"}` TLC finds
  `SameMeaning` violated; the `names` run has `print` only.
* Parser: `while c {}` reads `c {}` as a struct literal; a line that begins with
  `*`, `-` or `&` continues the line before (`LinesSplit` and `BracesAreBody` leave
  these out); `ptr<ptr<u8>>` ends in a shift
  token, which `parse_type` refuses.
* Lexer: an unterminated string or comment is accepted; a backslash at the end of
  the text raises `IndexError`, and `0x` and `1e` raise `ValueError`, which are no
  `LexError`; `1e999` is emitted as `inf`.

## 7. What is left

Done: the hash table, the Flux codec and its streams, the file helpers, the
import graph, the driver, the names and the lines of the lexer, with their
proofs; the Python schemas, the lexemes and the parser, the types.

To model next: `rand_shuffle` with its unsigned index, against a permutation;
`net_tcp_listen` and `net_tcp_accept` over failing calls, with descriptors that
must not leak; two compilations at once, with one output.

To prove next: the digits of `FluxPython` are those of `FluxWire`, so that
`VarintRoundTrip` and `IntRoundTrip` hold of its integers, and `RoundTrip` of
values without lists and maps follows; what `Overwrite` and `Drop` mean in the
abstract map when the caller does not heed docs/stdlib.md:566.
