# Orson: models, checks and proofs

Orson is a compiler: it translates the Orson language to C. It is one
sequential C program (`src/src`), with a memory manager of its own, and a
library written in Orson (`src/lib`). This directory holds TLA+ models of its
parts, the configurations that check them with TLC, and proofs for TLAPS.

## The system

| Part | State it keeps | Operations |
| --- | --- | --- |
| Heap: `hunk.c`, `make.c` | heaps of hunks, free lists `sizedHunks` and `unsizedHunks`, the stack of frames, the tags, sizes and states in objects | `makeHunk`, its two collectors, `mark`, `destroy`, `push`/`pop`, the makers |
| Layers: `layer.c` | lists of binder trees (AVL) | `pushLayer`, `popLayer`, `destroyLayer`, `setKey`, `gotKey`, `getKey`, `isInLayer`, `setCounts`, `getCount` |
| Names: `name.c`, `makeStub` | hash table of name trees, `nameCount` | `internName` and its variants, `makeStub`, `nameAppend` |
| Files: `file.c` | chain of loaded files, `fileCount` | `makeCharCount`, `wasLoaded`, `isLoaded`, `isTooBig` |
| Errors: `error.c` | chain `places` sorted by position, `allErrs` | `insertErr`, `objectError`, `sourceError`, `writeErrorLines`, `getErrs` |
| Loader: `load.c` | line, token, stack of nested loads, `charCount` | `nextLine`, `nextChar`, `nextToken`, one `next...` function per rule of the grammar, `loadC`, `loadOrson` |
| Transformer: `transform.c`, `form.c`, `forward.c` | `layers`, `bases`, `firstProc`/`lastProc`, `formCall`, `level` | one case per hook; `updatePointers`, `updateProcedures` |
| Types: `subtype.c`, `match.c`, `generic.c`, `coerce.c`, `cast.c`, `type.c`, `size.c`, `set.c` | chains `calls` and `matches`, bindings of generic names in layers, table of sizes | `isSubtype`, `isGround`, `isBindable`, `groundify`, `isCoerced`, casts |
| Output: `buffer.c`, `emit.c`, `expression.c`, `statement.c`, `declare.c`, `program.c` | a line buffer per stream | `write...` and `emit...` functions |
| Driver: `main.c`, `signal.c`, `path.c` | target file, options, `halt` | option parsing, the translation of each file, signals, `openPortablePath` |
| Strings: `string.c`, `char.c`, `utility.c` | strings as chains of snips | concatenation, substrings, comparison, UTF-8 |
| Library: `src/lib` | queues, stacks, lists, trees, tables, buffers, exceptions, dynamic variables | one module per file |

Everything runs in one thread. What is hard is therefore not concurrency
but:

 * **The collector.** Any maker may start a collection. Every pointer that is
   used after a call of a maker has to be protected, free lists have to survive
   compaction, and MARK turns the compiler's own pointers around while it walks.
 * **State that is shared along a recursion.** `layers`, `bases`, the queue of
   procedures, `calls`, `matches`, `charCount` and `formCall` are global; nested
   transformations, loads and comparisons must leave them as they found them.
 * **Two readers of one text.** Errors are recorded while a source is loaded and
   printed when it is read again, by other code that must count alike.
 * **Boundaries**: the last character of a line, a line that is just full, a file
   that is just small enough, the last snip of a string, a counter at its limit.
 * **Tests with continuations.** A subtype test, a coercion or the choice of a form
   calls the rest of the test from inside, binds names on the way in and unbinds
   them on the way out. A name that was bound a moment ago is read in another
   branch; several functions hold copies of one table of coercions.
 * **Follow sets.** Fifteen mutually recursive functions of the parser hand sets of
   tokens down to each other. A set with a token too few or too many refuses a
   program, accepts a wrong one, or hangs the recovery from an error.
 * **Leaving early**: `longjmp`, `fail`, signals, and the target file that must
   not stay behind.


## What makes each part correct

 * **Heap**: the hunks tile every heap; every free hunk is in one free list,
   once; the collector reclaims what no protected pointer leads to, and nothing
   else; a run halts only if there is no hole for the object.
 * **MARK**: marks what is reachable, and turns back every pointer it turned.
 * **Layers**: trees stay ordered and balanced, no binder is lost, and binding a
   key changes one layer at one key.
 * **Files and errors**: char counts denote chars uniquely, and every error is
   written below the char it was found at.
 * **Names in scopes**: a forwarded pointer gets the value of the name it was
   made for; the body of a procedure is transformed once, when all names of its
   scope are bound.
 * **Hooks**: a simplification does not change what a program computes.
 * **Lexer**: a token is the longest lexeme at its place, and the end of a line is a
   token exactly where it may end a term.
 * **Parser**: it accepts the sentences of a grammar and no others, builds the tree
   that the grammar gives, and always gets to the end of a file.
 * **Types**: a subtype may be used wherever its supertype may; what is bound to a
   generic name is within its bound; the functions that test coercions agree.
 * **Choice of forms**: a form that is refused as subsumed was of no use.
 * **Names, output, driver** (planned): C names do not clash; what goes into a
   line buffer comes out; a target file is left behind only if it is complete.
 * **Library containers** (planned): each does what a queue, stack, table or set
   does.

## Modules

| Module | Models | Depends on |
| --- | --- | --- |
| `Reach`, `Order` | what pointers lead to, as the fixpoint of a set function; the members of a set of addresses in order | |
| `Hunk` | `hunk.c` and the makers of `make.c` | `Reach`, `Order`, `Store` |
| `Store` | what the heap promises: a memory of living objects | `Reach` |
| `SchorrWaite` | `mark` of `hunk.c`, step by step | `Reach` |
| `Layer` | `layer.c`; `setKey` step by step | `Reach`, `Scope` |
| `Scope` | what layers promise: scopes that bind keys | |
| `Places` | the char counts of `file.c`, both line readers (`load.c`, `error.c`), the chain of errors | `Report` |
| `Report` | what error reporting promises | |
| `Equates` | PROG, WITH, REF, PROC and FORM in `transform.c`; `forward.c` | |
| `Tokens` | kinds of tokens and the start and follow sets of `load.c` | |
| `Lexer` | `nextToken` and the functions of kinds of tokens in `load.c`; the predicates of `char.c` | `Tokens` |
| `Lexemes` | the spellings of the kinds of tokens, stated apart from the lexer, and its properties | `Lexer` |
| `Parser` | `loadOrson` of `load.c` from tokens to trees | `Tokens` |
| `Grammar` | the language, stated apart from the parser | `Tokens` |
| `Types` | `subtype.c`, `match.c`, `generic.c`, `coerce.c`, parts of `type.c` and `form.c` | |
| `Dispatch` | the hooks ALT and APPLY of `transform.c` as they choose forms | `Types` |
| `Simplify` | hooks on integers and characters in `transform.c`; `cast.c`, the limits of `type.c` | |
| `Lemmas` | lists, orders, reachability and induction, for the proofs of all modules | `Reach`, `Order` |
| `HunkProofs`, `SchorrWaiteProofs`, `LayerProofs`, `PlacesProofs`, `EquatesProofs`, `SimplifyProofs`, `LexerProofs` | proofs about these modules | `Lemmas` but for `SimplifyProofs` |

`MC...` modules give the constants of a module their values for TLC. Among the
definitions of a module are a few that no action uses, each just before the
definition that it resembles (`FitsBarely` before `Fits`, `MarkedButGlobals` before
`Marked`, `LeaveWithBases` before `LeaveWith`): plausible mistakes. Put in place of
the real definition, each makes TLC report the property that PROJECT.json lists
with it under "mutants", so every property depends on what the code does.

### Hunk

`space` holds the sizes of hunks, 0 where none begins; `objects` are the hunks
whose tag is not `hunkTag`; `refs` are their reference slots; `sized`, `unsized` and
`frames` are `sizedHunks`, `unsizedHunks` and the chain of frames, where `frames[1]`
stands for the protected globals. Space is counted in units of the alignment.
What the compiler does to the heap are the actions `Push`, `Pop`, `Assign`,
`SetRef`, `Destroy` and `Request`; it gets the pointers it uses from what it can
reach, which is what the rules at the top of `hunk.c` ask of it. `Request` calls
`makeHunk`, whose stages are steps of their own, so that what each collector
promises can be stated between them: `TakeSized`, `TakeUnsized`, `ReclaimSized`
(mark and sweep), `ReclaimUnsized` (compaction), `Exhausted` (halt). Nothing else
runs while `makeHunk` does; `pc` sees to that. `Marked` is what `mark` computes, as
one set; that the traversal does compute it is the subject of `SchorrWaite`.

### SchorrWaite

`P0` and `P1` are the pointers of that name, `refs` and `state` the slots of the
nodes, `Full` is `0x7F`. `Call` is the head of `mark` with one root, `Follow` the
descent, `Return` the ascent, `ReturnFromRoot` the ascent to the fake node `P3`. That
one has no room for reference slots, so the swap that `mark` does there goes to
memory next to it. The word is modelled as `beyond`: `mark` reads it into `P0` and
never uses it. Whether it does harm there is up to the C compiler.

### Layer

`car`, `cdr`, `node` are the slots of layers and binders; a binder is named by its
layer and key: `setKey` makes one only after a search that found none. `SetKey` starts a call of `setKey`; `Down`,
`Add`, `Rebind`, `Up`, `Finish` are the recursion of `settingKey`, with `path` for its
stack, `P0` for the subtree and `higher` for the result. `Single` and `Double` are the
rotations. `gotKey`, `getKey`, `getCount`, `isInLayer` change nothing and are
operators (`Found`, `Binding`).

### Places

Files are sequences of characters out of a small set. `LoadOrson`, `ReadChar`,
`EndOfFile` are `loadOrson` down to `nextChar`, with `loads` for the nested calls and
their saved `charCount`; `SourceError`, `ObjectError`, `Halt` record errors where the
code calls `sourceError`, `objectError` or gives up. `SkipFile`, `ReopenFile`,
`WriteChar`, `WriteLast`, `WriteEnd` are the loop of `writeErrorLines`, which reads all
files again through the line reader of `error.c`. `Int32` is the width of the char
counts. `seen`, `blamed` and `shown` are history.

Behind the last line both readers find a line of an EOP CHAR and an EOS CHAR, and
`nextChar` would go on to another one. The parser stops there, but for one case: after an
apostrophe at the end of the last line (`open`) `nextApostrophe` takes the EOS CHAR
for the char of a literal, and looks for its end behind the EOP CHAR. `ReadChar` may
then read that line's EOS CHAR, which `WriteLast` reads too, and another EOP CHAR, which
it does not: what is blamed there is never shown (`Lost`), and `ImplementsReport` promises nothing from
then on. `Accounted`, that nothing is left when all files were read again, is the
claim of `error.c:475` itself; the run `open_quote` refutes it.

### Equates

`calls` is the stack of `transform`, `term` the term it is given, `value` what it
returns; `layers`, `bases` and `queue` are the global variables. One action per case
of `transform` that touches them, one per return from it; `Bind` is the end of an
equate with `updatePointers`, `UpdateProcedure` one round of `updateProcedures`.
`MaxClosures` is the memory for closures: `OutOfMemory` is the halt of `makeHunk`, of
which `Hunk` has the rest. A form that makes a PROC whose body calls the form
(`f :- form() obj: proc() void: f()`) refills the queue of bodies with every one that is
taken out of it. In the model no closure is reclaimed, so TRANSFORM then ends with that halt;
in the code each body holds the next closure, and the heap fills likewise, but where the
value of the call is dropped the collector may make room again and TRANSFORM goes on
for ever. `Ends` therefore says two things: without such a form TRANSFORM ends and no
memory is short, with one it ends when the memory does.

### Lexer, Parser, Grammar

`Lexer` has one step for each turn of the loop in `nextToken`: `ReadToken` for the
cases that set a token, `nextEndOfLine`, `nextBlank`, `nextComment`, `nextIllegal`
and `nextEndOfProgram` for the rest. The other operators have the names of the
functions they model. A char is a string that stands for its class; `ends` is
`tokenEndsTerm`. The loops that read a string literal, or skip the rest of a char
literal, are functions on the places of a file that refer to a later place
(`StringFrom`, `SkipChars`); `StringTurn` is one turn. That `nextLine` ends every line
is the assumption on files (`LexerAssumption`). A few chars have names of their own
(`Low`, `Blank`, `Quote`, `Openers`, `Closers`), for the provers cannot tell them apart
by their spelling.

`Lexemes` says of two places of a file what may be spelt between them, without a
reader: a number is digits of its radix, a string is a text that can be cut into
chars and apostrophes. `LongestMatch` and `LinesEnd` compare the two.

`Parser` takes tokens for given. Each operator has the name of the C function; it
takes the registers of the parser (the token in hand, the place of the next, the
flags that say where the parser is, the errors) and returns them as the function
leaves them. A function that parses several things in turn is split at each of them:
the operator for the rest of it has what was parsed before as a parameter. `next` is
the table of the functions that are called in circles. The actions are the turns of the main loop of `loadOrson`, for a LOAD
clause, a PROG clause, any other clause and the tokens between clauses. `Tokens`
has the sets that `initLoad` makes, one by one, as unions in the order of the code.

`Grammar` knows no sets and no errors: a symbol derives a part of a file in a set of
ways, each with its tree. `Grammatical` compares the two.

### Types and Dispatch

The C functions take a continuation. Here it is the list of goals that are left
(`Solve`), with `isMatched` at its end, as in every call in the program. What a test
changes is in the environment: `layers` for the layers made so far, `calls` and
`matches` for the chains of that name, `first` for the layers at the first success,
from which `isApplicable` copies bindings. `Ways` lists how two types can be
compared where nothing is bound; `Binding`, `SubtypingGens`, `SubtypingPointers` and
`SubtypingNull` are the cases that do more. Names, layers and layer kinds (`info`)
are as in the code, and so are its slips: the wrong `cdr`s for two generic forms,
`real1Hook` for `real0Hook` in `isSubsuming`, the ground copy made in the form's
layer, the part of a name copied by `skolemize`. Where they lead to `fail`, to a part
of NIL or to no end, the answer is "dies". `fuel` (constant `Deep`) bounds the depth of
a test, and what goes deeper dies too.

`Dispatch` is a program of ALT and one call: `Collect` is the loop of `altHook`,
`Call` evaluates arguments, `Try` tests one member of the closure, `NoMethod` is the
error at its end.

### Simplify

A calculator: `Operands` pushes a constant or an unknown term, the other actions
apply a hook to what is on the stack. A term carries what `transform` knows of it
(is it constant, its type) and two numbers it does not know, unless the term is
constant: what the simplified term evaluates to, and what the source means, both
in one execution. Since a result may be operated on again, terms nest without
bound. Widths are constants, the bit operators of C are constant operators with
the laws that the rules for 0 and -1 rely on. Executions are those in which what a
term of the *source* means is within the limits of the type that its hook gives to
what it cannot simplify (`Given`: for a sum the larger type of the two operands). C
promotes to `int`, so a program may leave those limits without an overflow; of these
the model says nothing. The type that a *rule* gives may be smaller than `Given`. So a
term also has a mark, `within`, that the types of the simplified term and of all that
it is made of have room for it. `Faithful` is claimed of terms with the mark, and
`StaysWithin` says when it is lost: only where the least integer of a type is
negated by a rule for 0 - R, -1 * R or L / -1 whose constant had a larger type. What
happens then is told under "Findings".

## What TLC checks

| Run | Question and result | Bounds, and why they are enough |
| --- | --- | --- |
| `heap` | are hunks, lists and pointers right, is the halt justified, does the heap implement `Store`? Yes | One heap of 8 units, objects of 2 and 3 units without and with a pointer, a global and one frame: the heap fills, holes of every kind arise, a split leaves a remainder that is a hunk and one that would not be, compaction is needed before a different size fits |
| `mark` | does MARK mark, restore and end? Yes | All graphs on nodes of degree 2, 1, 1 and a permanent one; all sets of roots. Cycles, sharing and self loops need no more |
| `layer` | does `setKey` keep the tree ordered, balanced and whole, do searches find the nearest binding, is only one layer changed? Yes | Seven keys in all orders in one layer: every rotation, with subtrees, followed by others; and three layers in any arrangement, which may be shared |
| `places` | is every error shown at its char, once, and does writing end? Yes, unless a char behind the end of a program is blamed | Two files of several lines and a C file, or four files where there are numbers for two (`MaxFile`) and one more; lines up to the limit less one; 8 counts per file; one complaint besides those of the reader. Nested loads, empty files, a file too big, one file too many, an apostrophe at the end of the last line |
| `open_quote` | are all errors written, whatever the file? No (finding) | A file of one apostrophe |
| `equates` | do forwarded pointers and bodies get their names, does TRANSFORM end? Yes, for names of their own scope, and without exhausting the memory if no form makes a PROC that calls it | All PROGs of two equates with scopes, forms and PROCs to depth two; 5 nested calls; room for 6 closures, more than any program needs that does not refill the queue for ever |
| `outer` | is every pointer in BASES substituted? No (finding) | As `equates` |
| `simplify` | do simplified terms mean the same, and have their types room for them? Yes, but for two hooks and the least integers | Integers of 2, 3, 4 bits for 8, 16, 32; all operands. The run does not go on from an operand that left its type (`AllWithin`), of which `Faithful` claims nothing |
| `lexer` | is a token the longest lexeme, do lines end where they may? Yes | All files of 4 chars from the marks of operators, 5 from those of numbers and of literals, 3 from all others: no function looks further ahead than two chars |
| `parser` | does the parser accept just the language, with the right tree, and get to the end? Yes | 19 sentences that use every rule, with every insertion, replacement and deletion of one token; four operators of any kind between five operands; all files of up to four tokens |
| `dispatch` | are refused forms useless, subtypes substitutable, names within their bounds, coercion tests alike, do tests end? Yes, in these worlds | Eight worlds, see below; a test of more than 40 goals counts as endless (`Deep`) |
| `refused` | as `dispatch`, for `RefusedIsUseless`. No (finding) | Generic forms of two parameters of one numeric type, before forms of any two |

The worlds of `dispatch` are sets of forms and of calls. `scalars`: simple types,
pointers, variables and the jokers, all pairs of forms. `structures`: circular
lists that unfold differently, tuples, arrays, symbols, types and PROCs. `generic`:
one parameter with a generic name, bare or under VAR, REF or ROW. `shared`: two
parameters that share names. `coerced`: a generic and a coerced parameter. `single`:
two names, each in one parameter. `methods` and `higher`: parameters that are forms,
generic or not. Two forms are enough for a subsumption and for a substitution; a
third would add only a pair more. No form of `dispatch` lets one name be bound to a
joker by one parameter and used by another: that is `refused`.

Deadlock is not checked where a run really ends: when the compiler has halted or
all terms are transformed, or because a bound keeps the compiler from going on.

**Fairness.** The program is sequential: when a function has been called it goes
on until it returns. So the steps of a call are weakly fair (`MakeHunk`,
`SettingKey`, `WriteErrorLines`, the traversal of `SchorrWaite`, `Next` of `Equates`),
while what the compiler decides to do, and what a source contains, is not. No
property relies on the compiler to make a further request.

## What is proved

All theorems hold for every value of the constants that satisfies the named
assumptions, so for any number of heaps, any sizes, any graph.

`HunkProofs`. Types, tiling, lists and pointers depend on each other: a list that
holds a hunk twice breaks the tiling when the hunk is split, a hole in the tiling
breaks the sweep, and a pointer to a hunk not in use, once the hunk is taken, leads
to the wrong object. So none is inductive alone, and `HunkInv` is their conjunction.
There is a lemma per action and, for compaction, lemmas on runs of free hunks:
each starts at a hunk, ends at an object or at the end of its heap, and no two
overlap. `TypeCorrect`, `HeapsTiled`, `ListsSound` and `PointersSound` follow;
`CollectorIsSafe` is an action property from the same invariant. `HeapInv` adds what
holds between the steps of `makeHunk`: after the sweep all objects are reachable,
after compaction sized lists are empty and free hunks maximal (`Collected`,
`Drained`); `CollectorIsComplete` and, with the lemma that each hole is a hunk
(`HolesAreHunks`), `HaltsOnlyIfFull` follow from that. `Lemmas` has what TLAPS needs
to know of lists of hunks, and of the fixpoint: closed, least, and unchanged when
what it does not contain is removed.

`HunkIsStore` is the refinement. A store maps addresses to a size and reference
slots; the mapping (`Visible`) shows the objects that frames lead to, so `mark`, the
sweep, compaction and `destroy` change nothing that can be seen, and a step of the
compiler shows what `Store` says is left alive after it. There a step is a change
of the graph followed by `Living`, which is reachability in the store, and the core of
the proof is that this is reachability in the heap: a node that frames lead to
through objects that were visible before stays visible, and a node that is visible
later was visible, or is the new object. The object that `makeHunk` makes is seen
once the slot is set that it was requested for; that nothing visible lies in its
bytes is `Tiled`, and that it has a size and degree of `make.c` needs one more
invariant, `KindWanted`, so the refinement rests on `SeenInv`, which is both
(`HunkInv /\ KindWanted`).

`SchorrWaiteProofs`. `MarkInv` says that the pointers turned around form a path from
`P1` back to `P3` (`HasPath`) and that there is none out of place between two calls
(`Idle`); that the targets of all pointers followed so far were visited (`Followed`),
that no node was visited that is not reached (`OnlyReached`), and that the roots
marked so far were (`RootsVisited`). At the end every pointer has been followed, so
what was visited is closed, and holds all that the roots lead to.
`PathAlwaysBack`, `PointersRestored` and `MarksExactly` follow.

`WorkFalls` is what can be proved of its end. `Work` counts two steps for each root not
begun with, one for each pointer not followed, one for each node not marked, and one
for the return from the root. It is a number, since nodes are finite, and every step
lowers it. This needs `Fresh` beside `MarkInv`: a node visited through a pointer is not
yet marked. So MARK makes no more steps than there is work at first; the run adds
that it does not stop before (`Terminates`).

`LayerProofs`. A tree is described by two functions that are quantified and never
computed: `S[k]`, the keys at and below `k`, and `H[k]`, how deep that subtree is. A
tree is `Sound` if some `S` and `H` fit it: what hangs on the left is less, on the
right greater, the two sides are apart, and depths differ as the tag says. `LayerInv`
has five parts. `Types`. `Ranked`: no layer extends itself, directly or not.
`Settled`: every tree is `Sound`, but for the one that `setKey` rebuilds. `Seeking`: on
the way down, `path` and `P0` are where a search for the key would go. `Returning`: on
the way up, the tree with `P0` stored at the end of the path is `Rising`, that is,
sound but that the depths along the path lag behind by one if `higher` is set, and a
subtree that became deeper leans (or is the new binder); without the last a rotation
might not restore the depth. `Climb` is the step up: whichever of the seven ways
`settingKey` returns, the subtree keeps its keys and has its former depth, or is one
deeper and `higher` says so. It rests on a lemma per rotation, on the path being
disjoint from what hangs beside it, and on paths without their ends. `NothingIsLost`,
`OrderedAlways`, `BalancedAlways` follow, once `S` and `H` are shown to be what the run
computes as `Subtree` and `Depth` (`SubtreeIs`, `DepthIs`). `MeaningAlways` adds that a
search ends in time: in a tree the keys below get fewer (`SearchFinds`), from layer to
layer the layers that are left do (`BindingFinds`, which is where `Ranked` is used).
`LayersAreScopes` is the refinement: adding a binder and storing a value are steps of
`Scope`, everything else in `setKey` changes nothing that a scope shows. `SetKeyShrinks`:
one call makes at most `2 * Cardinality(Key) + 3` steps, since every step lowers `ToGo`;
no binder is twice on the path down (`PathIsShort`, from the disjointness above). The
theorems are about `Spec`; the run restricts the same actions.

`PlacesProofs`. `CountsAreUnique` and `LoadsResume` follow from `PlacesInv`: files
have different numbers (`FilesNumbered`); only chars of files were read
(`SeenNumbered`); each nested load has read some number `o` of the chars of its file,
`charCount` (or what a nested load saved of it) is the file's count plus `o`, no char
behind them was read, and no two loads read one file (`LoadsLocated`). So a new char
gets a new count as long as `o` stays below `Span`. It does not for every file that the
code's test for size lets pass: `Reads` bounds `o` by the bytes, one more for a last line
that does not end, one for the EOP CHAR, and two for what may be read behind it when the
last line ends with an apostrophe. So both theorems assume `RoomForEnds`, that a file
which is not too big has counts for these, where any file with an apostrophe in it is
taken for one that may read on. For a file of `Span - 1` bytes TLC refutes
`CountsUnique` (`FullFile` of `MCEdges`). TLC evaluates the assumption on the files
of the run `places`.

`PlacesReport`, that `Places` implements `Report`, needs to know for each count which
char it is of. `IsPlace` says that a count is that of a spot (a path, a line and a
column): the file's count plus an offset, and `IsSpot`, that the offset is at that
line and column of the text. `ReportInv` is an implication, since `Report` promises
nothing when there were more than `MaxFile` files; until then:

 * `FilesApart`: the counts of a file end before those of the next begin, files are
   in the order of their counts, none is loaded twice;
 * `SeenPlaced`: what `objectError` may be given is the place of its spot;
 * `ErrorsKept`: `places` holds an error for each that was blamed and not shown, and
   for no other;
 * `LoadsPlaced`: each of the nested loads stands in its file where its line, its
   place in it and its count say alike, the interrupted ones at the count they saved;
 * `WriterPlaced`: so does the second reader, and no place in `places` is before it.
   This is what `getErrs`, which looks at the first place only, relies on;
 * `WriterRests`: nothing is written while files are loaded.

Both readers go on by the same lemma: after a char at an offset the next is at the
next offset, in the same line or at the start of the next one. So what is found
when a file is read again is what was there when it was loaded. Three assumptions on
files say where that is true. `LinesFit`: `writeErrorLines` keeps two chars less of a line
than `loadOrson`. `NoOpenQuote`: no last line ends with an apostrophe, so that nothing
is read behind the EOP CHAR (`Closes`, a part of `Placed`) and nothing is `Lost`.
`RoomForErrors`: the second reading counts the EOS CHAR behind the EOP CHAR. In a file that
just fits, that char has the count of the next file's first, and TLC shows the error of
that one written at the end of this one. TLC evaluates the first and the last on the
files of the run `places`, which has files with an apostrophe at the end too: there the
refinement, up to the moment when something is lost, is model-checked only. Each is
needed: the run `open_quote`, and `LongLine` of `MCEdges` in its place, show what is left
over without the first two, and with a file
of `Span - 1` bytes or with one of `Span - 2` whose last line does not end TLC finds
`ImplementsReport` violated.

`WriterShrinks`, under the same assumptions: each step of `writeErrorLines` but the last
leaves fewer files to be opened or, in the same file, fewer chars up to its EOP char. By
`ReportInv` the char count stands for the chars read; it goes up by one, without
overflow, and the EOP char bounds it.

`EquatesProofs`. Four invariants, each inductive with those before it. `OnceInv`: a
closure is in one queue once and not updated, or updated and in no queue;
`BodiesOnce` follows for all programs. `ScopeInv`: no two scopes share a layer and
inside a WITH only other WITHs change layers (`ScopesNested`), an unbound name is that of
an equate that an open scope has still to bind (`UnboundPending`), so all names are
bound where procedures are updated (`ClosesFull`); `BodiesSeeScope`. `ForwardInv`:
pointers in `bases` wait for names of the scopes that are open, those that a WITH put
aside for names around it (`BasesWait`, `AsideWaits`), and a REF to a name of the scope
it is made in waits there (`HereWaits`); `HereForwarded`. `HygieneInv` adds that names
still to be bound are different and unbound; `HygienicAlways`. The last three theorems
assume `Plain`, that no form is called inside a WITH, and the last also `NamesDistinct`, that no
scope declares a name twice. All programs of the run satisfy both, and TLC evaluates that. `Plain` is
needed: a form that was made outside and is applied in a WITH is transformed in the
layers where it was made, but with the bases and the queue of the WITH, and TLC refutes the
three properties if the instance allows such a program, for example a PROG with `m`
a form and, in a WITH, `n` its application. `BodiesOnce` holds there too.

`SimplifyProofs`. A lemma per group of hooks states that from two operands whose
value is right and within their types the hook makes one whose value is right;
`SimplifyFaithful` is the induction over steps, assuming that the program uses
neither CHAR GT nor INT DIV SET (`RightHooks`). The invariant is that operands with
the mark are typed and fit (`StackFits`); nothing is assumed of those without, so the
induction needs no guard on what a rule gives. `SimplifyStays`, under the same
assumption, is `StaysWithin`: a lemma per kind of hook compares the type of the
result with `Given` and finds the negations. `SimplifyFolds` looks at constants
alone and holds for all hooks. The limits of types (two's complement), the laws of the
bit operators and that C's operators yield integers are assumptions, named in `Simplify`.

`LexerProofs`. `LinesEndRight`: `LineInv` says what `tokenEndsTerm` stands for between two
tokens, with the chars behind the last token (`Behind`): if it is set, that token may
end a term or an illegal char followed, and if that token may end a term, no end of
line has been read and the flag is still set, but at the end of the file, where
`nextEndOfProgram` clears it again and again. `LinesEnd` alone is not inductive, since
it says nothing of the flag. That every function of a kind of token leaves the flag as
its kind says, and the place behind the one where it began, is `TokenSound`, from a
lemma per group of functions.

`LongestMatchRight` needs only types beside it, but much of the functions. `Right` says
that from one place on, up to the end of the line, one text and no longer one is a
lexeme, and of one kind; there is a lemma per group of kinds (`MarkRight`, `WordRight`,
`QuotedRight`, `DollarRight`, `HexRight`, `WholeRight`, `RadixRight`, `RealRight`, `CharRight`,
`StringRight`). Kinds are told apart by their first char (`OtherKinds`). A run of chars of
one set ends where `After` says, so a longer number, say, would have the char that
stopped the run in it. Literals are harder, since a text can be cut into chars in
more ways than the reader does: `\#1` is a char, and so is the longer `\#12`. `SlashRight` shows
that a cut before the place where the reader stops is among hexadecimal digits, and
`NextCut` that the cuts behind it then go digit by digit up to where the reader stops;
the underscore with a slash that may end a hexadecimal number begins no char. So
every way to cut a string passes through every place where the reader begins a char,
and ends with it (`Closed`).

A recursive function is, for the prover, some function that satisfies its equation
if one does. That one does is proved first (`StringEquation`, `SkipEquation`): there is
a function on the last places of a file that satisfies it, then on one more place,
and so on; the step uses that a turn gets ahead (`TurnFacts`). This induction, and the
one over strings, are from the end of the file backwards, in the form that a set of
numbers has a least member (`LeastMember`): a theorem on induction that takes
an operator is beyond the provers.

**Only model-checked.** All liveness, which the prover cannot do (`RequestAnswered`,
`Terminates`, `Ends`, `SetKeyEnds`, `WritingEnds`). Of the `Terminates` of `SchorrWaite`, of
`SetKeyEnds` and of `WritingEnds` the theorems above prove the part without ENABLED:
steps cannot go on for ever. Left to TLC is that the next one can be taken. The
`Ends` of `MCEquates` would need a measure of nested terms, an induction over data.
That every turn of the parser reads on (`ReadsOn`); and all that `Parser`, `Types` and
`Dispatch` compute, since they are recursive operators in the nesting of data
(`NeverStuck`, `Grammatical`, `RefusedIsUseless`, `Substitutable`, `BoundFits`,
`CotypeIsCoercing`).

## Findings

With a run that shows them (PROJECT.json, "findings"):

 1. ALT refuses `(num x, num y)` after `(type num g: g x, g y)` as subsumed. A call
    with an integer and a real can use the refused form only and finds no method
    (`refused`).
 2. A REF made in a WITH to a name that the scope outside binds later is never
    substituted (`outer`).
 3. An apostrophe at the end of the last line makes the parser read on behind the end of
    the program; an error found there is never written, and the run fails in
    `writeErrorLines` (`open_quote`, `load.c:745`).

Shown by TLC when an instance is changed, and kept out of the runs by what is named:

 * `transform.c:2948`: `0 - R` with a zero of a larger type gets the type of `R`, which
   has no room for the negation of its least integer; a comparison further out is then
   decided wrongly. With integers of 2, 3 and 4 bits, `?intEq(?intSub(?intCast(int2, 0),
   R), 2)` is made the constant 0, though it is 1 for `R` = -2. The exception
   `NegatesLeast` of `StaysWithin` names the cases, in which `Faithful` claims nothing.
 * `transform.c:2126`: `intDivSet(L, -1)` negates the divisor and sets `L` to 1, against
   the identity at 2107. With this hook `Faithful` fails (`MostHooks`, `RightHooks`).
 * `transform.c:1143`: the first test of CHAR GT compares with `charHigh` where the
   comment at 1123 says low, so a constant on the left is hardly ever found greater.
   With this hook `Faithful` fails (`MostHooks`, `RightHooks`).
 * `error.c:241`: the loader keeps `maxLineLength + 1` chars of a line (`load.c:527`), the
   writer of errors `maxLineLength - 1`. Behind a line at the limit their counts differ,
   and an error at the end of the file is never written: `Accounted` fails with `LongLine`
   of `MCEdges` for the `Texts` of `MCOpenQuote.cfg` (`LinesFit`).
 * `file.c:55`: a file one byte short of too big, whose last line does not end, has end
   characters whose counts belong to the next file, against `global.h:793`:
   `CountsUnique` fails with `FullFile` there (`RoomForEnds`).

Met while translating, where the model takes the code as it is or leaves the
matter out:

 * `forward.c:111`: a REF made by a form that is called in a WITH which declares the
   name again gets the value of the wrong name. More generally `transform.c:380` to
   `460` switch `layers` for the call of a form, but neither `bases` nor the queue, so
   what a form leaves waiting is looked up where it is called; `equates` has no such
   call, and the theorems about it exclude them (`Plain`).
 * `load.c:745`: an apostrophe at the end of any line takes the end of the line as its
   char, and the literal goes on in the next line, against the comment at
   `load.c:710`.
 * `load.c:1026`: a number that fits 64 bits and not 32 wraps without an error.
 * `form.c:282`: applying a form whose generic name was bound to (a part of) a generic
   form makes the value ground in the wrong layer, and fails in `getKey`.
 * `form.c:423`: `isSubsuming` coerces `real1` where it should coerce `real0`. The
   forms it then does not refuse do no harm.
 * `form.c:433`: a REF with a free name is tried as a ROW in the layer without names,
   and fails in `getKey`.
 * `form.c:79`: `formConcatenate` tests for no members where the comment speaks of one.
 * `subtype.c:442`, `462`: two generic forms, see above. `subtype.c:590`: NULL is a
   subtype of a Skolemized pointer whatever the continuation says.
 * `generic.c:291`: `isGround` follows two names bound to each other for ever.
 * `type.c:396`: `skolemize` copies the first pair of a base type; if that is a name,
   what it copies is no type.
 * `hunk.c:130`: the swap in slot `0x7E` of `P3`, see above.
 * `transform.c:2485` and `2906`: the frames of INT LSH SET and INT RSH SET have no
   `count`, so `push` writes the count over `left` and clears a word beyond the frame.
 * `transform.c:4397`, `4399`: REAL LT asks for the limits of a term, not of its type.
 * `cast.c:134`: the last case of `makeRealCast` has no `break` and falls into `fail`.
 * `utility.c:283`: `isEffected` looks at the type of a cast and not at its term.
 * `transform.c:2266`: INT FOR up to the greatest integer does not end.
 * `file.c:63`: from the 1024th file on counts are negative, and the order in
   which places are kept and files are read again no longer agree.

## Not modelled, and why

 * Hooks on reals, strings, lists, types and rows; IF, CASE, WHILE; casts of reals;
   sizes; the C writer; names; the driver; paths; the library: planned.
 * `groundify` of circular types with free names, `unskolemize`, `supertype`, the
   terms that coercions make, `isApplied` and `formConcatenate`.
 * The places in the source that the parser's pairs carry, the values of numbers, the
   bytes of UTF-8.
 * Of types, the jokers PLJ, ALJ and GEJ and pairs of STR TYPEs of which one begins
   the other: there the code's subtype relation is not transitive, so no property of the kind of
   `Substitutable` can hold of them.
 * How a frame lies in memory, and the C compiler's liberty with it.
 * The types that decide if an equate is executed at run time, and its coercion.
 * Debug output, the prelude's constants: data, or no state.

## Plan

Done, in the order of their importance for the program: the heap, MARK, layers,
error places, scopes and forward references, the hooks that simplify, the lexer and the
parser, subtypes and the choice of forms. Next:

 1. `Names` (numbers of stubs and dirty names, against unique C names), `Buffer`
    (line buffer against a sequence of tokens), `Driver` (life of the target file,
    `longjmp`, signals), `Path`.
 2. Sizes and alignments; circular generic types.
 3. `loadC`; the remaining hooks; PAST and CASE.
 4. Containers of the library, each against an abstract queue, stack, table or set.
 5. Proofs about the modules above, as they are written.

`Hunk` with `Equates` (a transformer that allocates in frames) would compose the
first two parts; the contract between them, that the compiler uses only what its
frames reach, is what `Hunk` assumes of its compiler actions.
