# Formal models of Koala

Koala is a small typed language: `klc`/`koalac` compile packages of `.kl` files
into images, `koala` loads an image and runs its bytecode, and `libtask` runs
coroutines ("tasks") on several pthreads. This directory holds TLA+ models of the
parts of that code whose correctness depends on state that evolves over many steps,
the TLC configurations that check them on small instances, and TLAPS proofs of
what holds for every instance.

## 1. The system

| part | files | state it keeps | operations |
|---|---|---|---|
| deque | `libtask/locked_linked_deque.c` | a singly linked list with a dummy head, a tail, a count, a mutex | init, fini, pop head, push tail |
| scheduler | `libtask/task.c`, `task_scheduler_locked.c` | per processor: current task, idle task, deque; per task: state, join state, joiner, result, saved registers | create, yield, join, end of a task, processor loop, load balancing |
| hash table, list | `src/hashtable.c`, `include/list.h` | buckets, insertion-order list, node count | insert, find, remove, expand, fini |
| containers | `vector.c`, `buffer.c`, `cache.c`, `stringbuf.c`, `atomtable.c`, `atomstring.c`, `properties.c` | arrays, block lists, free lists, string pools, typed tables | append, set, take/restore, ... |
| type descriptors | `src/typedesc.c` | interned, reference counted descriptors | get, parse, release |
| object model | `src/object.c`, `objects/*.c` | classes, linearised bases, fields with slot offsets, method tables | new class, init bases, add field or method, get/set/call |
| package tree and runtime | `pkgnode.c`, `package.c`, `state.c` | tree of paths, packages, variables, Koala states | add, find, run code |
| evaluator | `src/eval.c` | frame stack, operand stack, program counter | push/pop frame, one case per opcode |
| symbols and parser | `symbol.c`, `parser.c`, `parser_ident.c`, `parser_operator.c`, `ast.c` | scope stack, symbol tables, error count | enter/exit scope, add/find symbol, check types |
| code generation, image | `codegen.c`, `opcode.c`, `image.c` | instruction list and byte count; tables of interned items and file offsets | emit, merge, intern, finish, write, read |
| driver | `koalac.c`, `koala.c`, `options.c` | parser groups | compile a group, import other packages |

How they interact: the compiler's driver parses a package into ASTs, resolves
symbols through nested scopes and the symbol tables of imported images, generates
instructions, and writes an image; the runtime reads an image into a package of
the package tree, whose objects live in hash tables, and evaluates code in frames.
`state.c` runs every Koala function inside a libtask task. Tasks interact through
shared memory: deques guarded by a mutex, counts read without it, fields of other
tasks written at a join.

What is hard to get right, per part:

* deque: the dummy node, the tail and the count must agree at every step a second
  thread could see; nodes are reused, so a stale `next` corrupts a later push.
* scheduler: a task is visible to thieves before its registers are saved; a
  finishing task wakes a joiner that has not left its processor; the idle task of
  processor 0 is the main program; load balancing works on stale counts; a join
  races with the end of its target.
* containers: growth, exact fits, zero sizes, iteration while removing.
* type descriptors: who owns a reference after a `Get`.
* object model: slots of fields when a class with bases grows, method lookup order.
* evaluator: frame depth at its limit, operand widths that the generator and the
  evaluator must agree on.
* parser: scopes entered and left in pairs on every path, errors counted to a limit.
* image: indices handed out by interning stay valid, offsets match what is written.
* syntax tree: who owns a node on every path, when a declaration is refused half way
  or too many errors were found.
* driver: packages that import one another are found, built, analysed and written in
  an order of their own, while images and sources on disk change.

`PROJECT.json` lists each part under `components` and each hazard, at its line,
under `hazards` with the properties that cover it.

## 2. Modules

### FifoDeques, LockedDeque, LockedDequeProofs

`FifoDeques` is what the deque promises: FIFO queues of nodes whose operations
take effect at one instant. `LockedDeque` is `locked_linked_deque.c` with one
action per group of writes inside the mutex; a thread's position is `pc[t]`.

| code | model |
|---|---|
| `deque->head->next`, `node->next` | `next[d]` (the dummy is named by its deque), `next[n]` |
| `deque->tail`, `deque->count`, `deque->locker` | `tail[d]`, `count[d]`, `locker[d]` |
| `lldq_pop_head` lines 50, 51-53, 54-56, 58-60, 61 | `PopLock`, `PopRead`, `PopUnlink`, `PopTail`, `PopUnlock` |
| `lldq_push_tail` lines 71, 72-73, 74-75, 76 | `PushLock`, `PushLink`, `PushTail`, `PushUnlock` |
| `lldq_fini` | `Fini`, once no thread is inside |

A caller pushes only a node that is in no deque and in no other call
(`Outside`); `QueuedOnce` in `TaskSched` shows that the scheduler keeps to that.
`content[d]` is auxiliary: the queue the pointers should represent.

### TaskPool, TaskSched, TaskSchedInvariant, TaskSchedProofs

`TaskPool` is what `task.h` promises to a program: every task runs its program
in order, once it has been created, and a join returns the result of the task it
waited for. The joins of a `Hasty` user may return too early, with no result or that of
another task. `TaskSched` is the implementation, for `N` processors.

| code | model |
|---|---|
| `task->state`, `join_state`, `join_task`, `result` | `state`, `joinState`, `joinTask`, `result` |
| `processors[p].current`, the deque of its scheduler | `current[p]`, `deque[p]` |
| where the pthread is inside the library; its locals | `pc[p]`; `lb[p]`, `hand[p]`, `to[p]` |
| the user's code of a context and how far it got | `prog[c]`, `at[c]`, `got[c]` |
| `task_create`, `task_join` | `Create`; `Join`, `JoinWait`, `JoinPublish`, a yield, `Collect` |
| end of `task_go_routine` | `Return`, `Finish`, `Spin`, `Wake`, `DeliverResult`, `ScheduleJoiner`, `Done`, then a yield |
| `sched_load_balance` | `Balance`, `Compare`, `Steal`, `Keep` |
| `task_yield`, `pthread_routine` | `Yield`, `GetTask`, `NoTask`, `Resumed` |
| `task_switch_to` | `SwitchFrom`, `AssertReady`, `SwitchTo` |

Contexts are tasks and idle tasks; the idle task of processor 0 is the main
program, as in `init_main_proc`. A deque is a sequence and its operations are
single steps; inside the mutex nobody sees an intermediate state, and the count,
which is read without the mutex, changes at the instant the model moves the node
(`count--` and `count++` are single writes of the critical section), so nothing is
lost by that (`LockedDeque` proves the first, `CountNear` bounds the second).
The user programs are data: `Programs` is a set of assignments of operation
sequences to main and to the tasks. A program stops at the first failed assertion
(`fault`) and when main returns (`exited`). Two more faults stand for what is undefined
in the code: resuming a context that another processor is still executing
(`stale_context`), and pushing a context whose one node is in a deque (`queued_twice`).

Every write to a field that another processor reads is a step of its own: the joiner is
READY (`Wake`) before it has its result (`DeliverResult`), and processor 0 may resume
main in between, since its idle loop looks at main's state and not at a deque. The
assertion of `task_switch_to` on the other context is apart from the writes behind it,
so that two processors can both pass it. The three writes behind it (`task.c:109` to
`:111`) are one step: `proc->current` is read by its own processor alone, and when one
processor has marked a context RUNNING that another has taken too, both are bound to execute it,
which is where the model stops. `TaskSchedInvariant` says what holds between any two
steps, `TaskSchedProofs` proves it (section 5).

### OrderedMap, HashTable, HashTableProofs

`OrderedMap` is a map that remembers the order of insertion. `HashTable` is
`hashtable.c` with the intrusive list of `list.h`, pointer by pointer: one action
per outcome of a call, and one per callback of an iteration.

| code | model |
|---|---|
| `HashNode.llink`, `table->head` | `ring.next`, `ring.prev`; the table's own link is `ListHead` |
| `HashNode.hlink`, `entries[i].first` | `chain.cell` (a bucket is named by its index), `chain.pprev` |
| `hash`, `prime_index`, `nr_nodes` | `hash`, `primeIndex`, `nrNodes` |
| `HashTable_Insert`: a node in a table, an equal key, a new key | `InsertHashed`, `InsertDuplicate`, `InsertNew` |
| `__expand_table`, `do_expand_table` | `GrowNow`, `ProperPrimeIndex`, `Rehash` |
| `HashTable_Find`; `HashTable_Remove` | `Find`; `RemoveAbsent`, `RemoveNode` |
| `list_for_each_safe` in `HashTable_Visit` and `HashTable_Fini` | `Begin`; `pos`, the saved `nxt`, and `Advance` |
| a visitor that keeps its node, or unlinks it | `VisitKeep`, `VisitUnlink`; `FiniNode` |

`visited` is what the visitor was shown so far, and `shown`, also auxiliary, the order
at the start of the iteration.
The primes, the load factor 13/20 and the hash values are constants, so that
growth, collisions and the last prime all happen with five nodes.

### TypeDesc, TypeText, TypeDescProofs

`TypeDesc` models ownership in `typedesc.c`, and how the grammar and the compiler
use it: types of the source are read bottom up, by one action per kind of rule.

| code | model |
|---|---|
| a `TypeDesc`: its text, `refcnt`, the fields of its kind | a cell; `heap.type`, `heap.refcnt`, `heap.parts` of the cell |
| whether it is allocated; `descTable` | `heap.live`; `heap.table`, in the order of the cells |
| `$$` of the grammar's rules, a `Vector` of `IdType` being read | `stack`: borrowed pointers, those an `IdType` counts, and `NULL` |
| `PrimitiveType`; `KlassType`, `ArrayType`, `MapType`, `SetType`, `VArgType` | `PrimitiveType`; `CompoundType` |
| `TypeList`, `ParameterList`, `ReturnList`; `FunctionType` | `ListType`; `FunctionType` |
| `KlassType` of a package that is not imported, `FUNC error`; `FunctionType` with a `NULL` list | `NullType`; `NullFunctionType` |
| `TypeList ',' error`, which frees the list before it; `TypeList ',' Type` after that | `ListError`; `TypeListError` |
| `ParameterList: error`, `'(' error ')'`; an `error` that gives up a statement | `ListLost`; `StatementError`, `UserLost` |
| `TypeDesc_Get_Base`, `TypeDesc_Get_Proto`, the other `TypeDesc_Get_*` | `GetBase`, `GetProto`, `Get` |
| `TYPE_DECREF` and the recursion of `TypeDesc_Free` | `Drop`, one reference at a time; `DecrefAll` |
| `New_IdType`, `STable_Add_*`, `Free_IdType` and the like | `Declare`, `Share`, `Discard` |
| `HashTable_Fini` with `desc_free_func`, its saved successor | `FiniVisit`, `nxt` |

Two actions of the grammar release what they only borrowed (`ArrayExpr`, and
`TypeListError`, which does it to primitive types as well); the history `stolen` counts
these, up to `MaxStolen`. `koala.y` has no `%destructor`: what bison pops when it
recovers keeps its references for ever. The history `leaked` counts these, up to
`MaxLeaked`. A base type whose last reference is dropped (`BaseFreed`) and a base type
that is left with more than one (`failed`) stop the program, as the assertions at
`typedesc.c:342` and `:150` do. Nothing is built on a `NULL` type, since
`TypeDesc_Get_Array` and its kind dereference it and the compiler crashes. Two rules are left
out: the errors of `IDTypeList` free what the list held, so that nothing is left of it, and
`ELLIPSIS error` leaves `$$` undefined.
A text stands for the type it is the text of; that this is right is the
subject of `TypeText`: what the `TypeDesc_Get_*` functions write and what
`String_To_TypeDesc` and `String_To_TypeList` read, one step per type of a list;
`MCTypeDesc` instantiates it, and the run looks at it in the first states, since it
depends on no state.

### ObjectStore, Objects

`ObjectStore` says what classes and objects promise: an object has one place per
field of each class on its line, set and got by name. `Objects` is `object.c` and
`tupleobject.c`: `Init_Klass_Self` and the merge of the lines of bases (`lro_build`),
`Klass_Add_Field` with its slot, method lookup, `Object_Set_Value` and
`Object_Get_Value`, tuples, and `OB_INCREF`/`OB_DECREF` with the release of what
an object holds. `own[c]` is a history variable: the references to `c` that
somebody outside the heap holds.

### PackageStore, Packages, PackagesProofs

`PackageStore`: a path names one package for ever, and a variable keeps the value
set last. `Packages` is `pkgnode.c`, `package.c` and the package part of
`state.c`: the tree of path components (`Add_PkgNode`, `Find_PkgNode`), members of
a package (`Pkg_Add_*`), the pool of variables (`Koala_Add_Package` makes the
tuple, `Koala_Get_Value` and `Koala_Set_Value` index it), loading from an image
(`Koala_Get_Package`, `Pkg_From_Image`), and `Fini_PkgState`. The image found for
a path is the constant `Images`. `misuse` records the calls that the order of the
functions in `koala.c` excludes.

### StaticScopes, Scopes, ScopesProofs

`StaticScopes` is the static semantics: which names a statement sees, which
declarations clash, which types agree. `Scopes` is `parser.c` and
`parser_ident.c` on a program that is chosen statement by statement.

| code | model |
|---|---|
| `ps->u` and `ps->ustack` | `units`, the current unit last |
| `ParserUnit.stbl`, `varindex`, `block`, `block->ret` | `syms`, `varindex`, `code`, `ret` of a unit |
| `FuncSymbol.locvec` | `locvec` of the function's unit |
| `ps->errnum`, a failed assertion or a null pointer | `errnum`, `fault` |
| `parse_variable`, `parse_assign_stmt`, `parse_return_stmt`, `parser_visit_expr` | `ParseVariable`, `ParseAssign`, `ParseReturn`, `Visit` |
| `update_add_variable`, `parse_block_variable` | `AddVariable`, `DeclaredInFunction`, `AddLocal` |
| `Parser_Enter_Scope`, `merge_parser_unit` and `Parser_Exit_Scope` | `EnterScope`, `ExitBlock`, `ExitFunction`, `EndModule` |

A handler calls others that change the parser's state, so the operators take and
return the state `S` and an action commits the last one. Expressions are constants
and identifiers: an operator or a call generates no code yet (`code_call_expr` is
empty). `emitted` is a history variable, the instructions of the open function in
the order `Inst_Append` was called.

### Image

`Image` is the `.klc` file from the symbol table of the compiler that writes it
to its two readers: `image.c` and `atomtable.c`, the generators in `symbol.c` and
`codegen.c`, `STable_From_Image` and `Pkg_From_Image`.

| code | model |
|---|---|
| `AtomTable.items[ITEM_XXX]`, its hash table | `table[kind]`, `Index` |
| `XxxItem_Get`, `XxxItem_Set` | `TypeGet`, `ListGet`; `StringSet`, `TypeSet`, `ListSet`, `ProtoSet` and their `Parts`, `ConstSet` |
| index -1, a failed assertion | `Absent`, `fault` |
| `Gen_Image`, one symbol of its visit | `Generate` |
| `KImage_Finish`, `KImage_Write_File` | `MapOf`; `CellsOf`, `Starts`, `Write` |
| `KImage_Read_File` with and without `NOT_LOAD_ITEMS` | `Reject`, `Import`, `Run` |
| the symbol table or package the reader builds | `package` |

The file is the sequence of its items with the byte at which each starts; the
reader goes by the offsets of the map, as the code does. `Write` may stop after
any kind of items, as when the compiler is killed (`Build` has what the next
compilation makes of such a file). Items hold indices, strings are
values with a length. For a float or a boolean `__getconstfunc` stores an uninitialized variable:
the program ends there, or the tuple holds the object made last, or other storage
(`RunFaults`, `ConstTuples`). What depends on the addresses of items, whether equal floats
meet in a bucket, is a choice (`luck`, `clash`).

### ImportRules, Build, BuildProofs

`ImportRules` is what the manual promises about packages: a package is the union of
its files, an import brings names into one file, only public names can be used from
outside. `Build` composes `koalac.c` with the imports and declarations of `ast.c`, the
tables of `symbol.c` and the analysis of variables in `parser.c` into whole runs of the
compiler, one after the other, on a disk that a user changes meanwhile.

| code | model |
|---|---|
| the directories and their files, the `.klc` files, `st_mtime` | `files`, `image`, the `at` of each; `clock` in seconds |
| `groups`, the map of packages, `grp->modules` | `groups`, `packages`, `modules` |
| the position in the loops of `main`, `build_symbols`, `parse_package` | `phase`, `group`, `left`, `member` |
| `ParserState` | an element of `modules[p]`: its symbols, imports, `ext`, `dots`, statements, errors |
| `build_symbols` | `OpenGroup`, then one `BuildFile` per file, in the order `readdir` happens to give |
| `Parser_New_Import`, `Find_Package`, `dir_later_file` | `NewImport`, `FindPackage`, `DirLater` |
| `Parse_Imports`, `Parse_AST`, `parse_package` | `ParseImport`, `ParseFile` |
| `write_image`, the release of a group | `WriteImage` or `SkipImage` |
| a failed assertion; a kill between two steps or inside the write | `fault`, `Abort`; `Kill`, `KillWriting` |

What is read of a directory is kept when it is read, so a file that is saved later in
the same run is not seen. An image records what it was made from and since when;
these fields are auxiliary and no step looks at them. `DiskGood` is what is assumed of
the disk on which the first run starts: images that earlier runs may have written.

### Ast

`Ast` is the ownership of the nodes of one file: the constructors, releases and
conversions of `ast.c`, the actions of the grammar that call them, and `parser.c` as
far as it frees nodes, moves them, or gives them types.

| code | model |
|---|---|
| a node, a `Vector` of nodes | an element of `heap.nodes`: kind, parts, type; `Gone` once freed |
| `TYPE_INCREF`, `TYPE_DECREF` | `heap.refs`, the difference of all of them |
| `Expr_From_*`, `Stmt_From_*` | `Construct`, `New`: the fields that are stored, and the types that are counted |
| `Free_Expr`, `Free_Stmt_Func`, `Vector_Free` with their tables of functions | `Free`, in the order of `Releases` |
| `__Parser_Do_Variables`, `Parser_Do_Typeless_Variables`, `Parser_Do_Assignments` | `DoVariables`, `DoTypelessVariables`, `DoAssignments` |
| the recursion of `parse_statements` through functions and blocks | `work`, `EnterBody`, `ParseSimple`, `LeaveBody` |
| `ps->errnum`, a failed assertion, a null pointer, a second free | `heap.errnum`, `heap.fault` |

A source text is a term of the same shape, so that any text of the constants can be
read. Two types that are present are compatible (their comparison is in `Scopes`); an
expression whose kind the analysis asserts away stops the compiler. What a node's parts
should be is not stored twice: the invariants free everything the parser can still
reach, in every state, and look at what is left.

## 3. Runs

A property is a conjunction of named parts where one run can show them together
(`Consistent`, `Counted`, `Inductive`); the parts are defined right before it.

| run | what it shows |
|---|---|
| `deque` | two threads, two deques, three nodes: the inductive invariant of the proofs (exclusion, a node at one place, pointers that agree with the queue), the count at most one off, `FifoDeques` implemented, the mutex always given back |
| `sched_one` | one processor, all well-formed programs of 4 operations of main and 2 of each of two tasks: only a second join of a task can fail an assertion; a program that joins each task at most once ends |
| `sched_two` | the same programs on two processors, up to the first failed assertion, and five tasks that run to completion: no task is queued twice, lost or left waiting for ever, `TaskPool` is implemented but for early joins of main, all tasks that nothing holds back run |
| `sched_stale_context` | a violation, see Findings |
| `hash_table` | five nodes, two with one key: list, buckets and count agree in every state, a visit sees every node once, every call answers as the ordered map |
| `typedesc_counts` | two users, five types that share parts, read from a stack of up to two, syntax errors anywhere: counts exact but for the references the grammar steals or loses, one live descriptor per type, nothing left at the end unless some were lost, a failed assertion only after these; and all lists of up to two types of depth two over three atoms are read back as they were written, with the text as a key |
| `objects` | four classes, ten cells at most of which three live: lines and slots agree, the most derived implementation answers, counts are exact, leaks are cycles, a crash needs a field added too late |
| `packages` | two packages, three paths of which one is above another, three images: the tree and the pool agree, a path keeps its package, each fault has its cause |
| `compiler` | all programs of six statements over two names and two types: tables and slots agree, merged code is what was emitted, exactly the legal programs are accepted |
| `image` | all packages of three symbols out of nineteen, the file complete or cut off, imported or run: items are unique and refer to existing ones, offsets lead to the items, the reader gets what was declared |
| `build` | a program of one or two files, a package it imports and one that is only an image, two runs of the compiler, one edit, kills: a path has one package, images are current and complete, the compiler accepts what `ImportRules` says, all but for the named cases; every run ends |
| `ast` | files of up to two declarations, in which every kind of expression and of local statement occurs, analysed with and without too many errors: no node is freed twice or lost, counts of types match, all but for the named cases |

Bounds. Two deques are enough for a node to be in the wrong one, two threads for
a push in the middle of a pop, three nodes for a middle node. Programs of 4 and 2
operations contain every pair of operations of two actors and a join before and
after the end of its target; five tasks make one balancing steal two. Five hash
nodes collide in two buckets and split in four and five. Two users share a descriptor or compete for its last
reference; with seven cells every type is allocated and two are allocated once more after they were
freed; two thefts release a descriptor and one of its parts, or one twice; one reference that is
lost is enough for the last assertion to fail, and for a descriptor that outlives the table; the
stack holds the parts of the largest type. Four classes make a
diamond with a class below it. Three paths are one above, one below and one beside
another. Six statements are a function, two nested blocks and three statements in
them, or two functions and four; `MaxErrors` 1 stands for `MAX_ERRORS` 8, so that
skipping after too many errors happens. Three symbols of an image are `__init__`
and two that share strings, types or constants, one of which can be the function
type that another is mistaken for; `OperandLimit` 4 stands for the 65536 constants
that two bytes tell apart. In `build` two groups import one another and a third is an
image, two seconds are enough for a save to be before, in or after the second of a
write, and one edit between or inside two runs for an image to be stale; `MaxErrors` 1
again stands for `MAX_ERRORS`. In `ast` lists have up to two sides, the least at which
one is refused after another was accepted; a function holds one statement, a block in
it two; a second declaration shows what the first leaves behind.

Deadlock is checked in all scheduler runs (the end of the process is a
stuttering step, `Stopped`) and wherever the configuration does not switch it off;
it is off where the system may stop: finished deques, a bound of a run reached,
a compiler that has finished (`Ended` of `Image` is such a stuttering step).

`WellFormed` restricts programs to what the API allows: a task is created once,
and joined by its creator or by a younger sibling, which makes waiting acyclic. A
program that joins in a cycle, or joins itself, waits for ever by its own fault.

Fairness. `FairSpec` of `TaskSched` lets every pthread run again and again: the
kernel schedules threads, and `sleep(1)` ends. In `LockedDeque` only a thread inside
a critical section is assumed to move on; nothing is assumed about the order in
which a mutex serves its waiters. `Build` assumes that the compiler, while it runs, takes its next
step (`WF_vars(Compile)`): it is one process that waits for nobody. It need not be
started, nor the user act; `RunEnds` says that a run ends.

`FaultsExplained` of `TaskSched` states exactly when an assertion can fail:

* one processor: only the second join of the same task (`task.c:291`);
* several processors and tasks that yield, or any join: a stale context;
* several processors and any join: also `task.c:104` and `task.c:283`;
* several processors and a join in main: also `task.c:108` and `task.c:74`, and a
  context that is queued twice.

### Mutations

For every property of a passing run `PROJECT.json` names a plausible mistake in the
code (a dropped write, a missing unlock, swapped stores) as a variant of one
definition; the property fails with it. The variants stand right before the
definitions they vary and are used by no action.

## 4. Findings

* `sched_stale_context`: `task_switch_to` queues the context it leaves before its
  registers are saved.

What the passing runs say about behaviour a maintainer may not expect:

* `task_go_routine` makes the joiner READY and queues it as soon as it sees
  `join_task`; the joiner may still be inside `task_join` on its own processor. Its
  `task_yield` then returns although it was not rescheduled (`task.c:283`), or
  switches away from a READY context (`task.c:104`).
* With main waiting in a join and an empty deque, `task_yield` switches to the idle
  task, which is main (`task.c:108`). If another processor has just made main READY
  (`task.c:77`), the assertion holds, main returns from `task_join` without the result
  that `task.c:78` is about to store (`task.c:284`), and is then queued while it runs.
  `Hasty` in `ImplementsPool` stands for that.
* Half of a queue of one is none, so a processor never steals the only task of a
  main program that is busy; `TasksRun` assumes that main yields.
* `state.c` starts one processor, where `sched_one` shows that none of these can
  happen to a program that joins each task once.
* Grammar actions release borrowed type descriptors, also those of primitive types, and
  bison drops lists of types without releasing them (`Counted` counts both). After a syntax
  error in a type list the compiler may end in an assertion (`typedesc.c:150`, `:342`)
  instead of reporting its errors and stopping (`FiniClean`).
* A field added to a class that has subclasses or objects gets a slot that is not
  there (`CrashesExplained`).
* A package cannot lie above another one; a package made without tuple uses the
  slots of the first (`FaultsExplained` of `Packages`).
* An undefined identifier stops the compiler at an assertion; so does a module
  variable that is used before its type is inferred. The code of a module's
  initialisers is freed, because `__init__` exists before there is code.
* One side that cannot be declared, after others that can (`a, f() := 1, 2` in a
  function), makes the compiler free the right sides twice; in an assignment it leaks
  the statements made before. A member of an imported package, and an array of arrays,
  release a type they did not count (`Consistent`, `NothingLost`, `TypesCounted` of `Ast`).
* An image is taken for current if a file was saved while the compiler that wrote it
  was at work or in the second in which it finished, or was removed (`LoadedIsCurrent`).
* What an import brings depends on whether the package was compiled in this run: if so,
  private names can be used (where the manual speaks of public ones, manual.org:88), a dot import
  conflicts on `__init__` and other private names, and a variable without a declared type
  is unknown to packages that are analysed earlier (`FollowsRules`).
* Another file of a package that declares the name of an imported package hides it
  without a message. Any class stops the compiler.
* A package whose source does not define `__init__` can be imported but not run:
  `Build_AST` makes an empty one, and `KImage_Read_File` takes the empty read of its
  code for a failure. The code of a function that calls another or uses a field
  cannot be generated (`LOAD_0`), nor can the type of a map or a set.
* `TypeListItem_Get` answers -1 both for an empty list and for one that is not in
  the table. A variable of type `func() string` is therefore written as `func()` if
  that type is in the image and the list `(string)` is not; `RoundTrips` states that
  nothing worse happens and that declared functions keep their lists.
* A package with a constant symbol, or whose code loads a uchar, can be imported but
  not run: no object is made for their values (`FaultsExplained`). Nor is one made for
  floats and booleans, where the virtual machine takes what an uninitialized variable
  holds for an object and counts a reference to it: it crashes, or goes on with another
  constant. `RoundTrips` therefore says nothing of their values; of the other constants it says which
  ones an operand of two bytes may mean, past 65536 of them.
* Two equal float constants may or may not be one item, and may stop the compiler or
  the virtual machine, depending on addresses.

## 5. Proofs

A module of proofs extends the module it is about. What is proved holds for every
value of the constants that satisfies the module's assumption.

| module | assumes of the constants | proves |
|---|---|---|
| `LockedDequeProofs` | `DequeAssumption`: deques, nodes and `Null` are different things | every property of `deque` but liveness; `FifoDeques` implemented |
| `TaskSchedProofs` | `SchedAssumption`: at least one processor, tasks are no processors, programs are well formed | every safety property of `sched_one` and `sched_two`; no fault on one processor; `TaskPool` implemented |
| `HashTableProofs` | `HashTableAssumption`: finitely many nodes, which are no bucket indices, hash values in `Nat`, positive primes and load factor | every property of `hash_table`; `OrderedMap` implemented |
| `PackagesProofs` | `PackagesAssumption`: paths are not empty, images are lists of members within the bound | every property of `packages`; `PackageStore` implemented |
| `ScopesProofs` | `ScopesAssumption`: statements, functions and modules are what the grammar can make, `None` is no type, no module declares a name twice, a function fits in the bound on scopes | every property of `compiler`; `StaticScopes` implemented |
| `BuildProofs` | `BuildAssumption`: finitely many names and file names, command lines with an argument, saves of source texts in directories that exist, and a disk as runs of the compiler leave it (`DiskGood`) | `Consistent` and `ImagesTrue` of `build` |
| `TypeDescProofs` | `TypeDescAssumption`: finitely many users and primitive types, room for these, types closed under their parts, an array has an element type | `Counted`, `InternedOnce` and `FiniClean` of `typedesc_counts` |

None of the properties is inductive. Each module therefore proves one inductive
invariant, a conjunction of named parts, by one lemma per action; the properties and
the refinement follow from it.

**Deque.** That the chain of `next` pointers is
the queue depends on exclusion, exclusion on the mutex naming the thread inside, the
push on the pushed node being unlinked, and in the middle of a call the pointers
disagree with the queue by exactly the writes still to come (`MidCall`). `Inductive`
is their conjunction with two more parts: nobody is inside a finished deque, and a
node in no deque and not being unlinked has a `NULL` next. The lemmas are
`CallPopStep` ... `FiniStep`; the actions that write no pointer share
`ControlStep`. The refinement maps `PopRead` to a pop and `PushLink` to a
push; every other step stutters (`StepIsFifo`).

**Scheduler.** `Consistent` and `NobodyForgotten` speak of where a task is;
whether it stays there depends on what its processor is in the middle of. `Control`
says for every label of a processor which states and which statement of its context
are possible there (`Place`), and what a state means wherever the context is
(`StateMeans`). `Joins` is the protocol between a task and its joiner: before and
after the task exchanges its `join_state` (`Passed`), how long it awaits a joiner that
saw `WAIT_TO_JOIN`, that only one context is on its way to be that joiner, and that
a waiting context is waited for. `Queues` places each ready task, in a deque, in
a hand, or about to be switched to, once.

Main is the exception to nearly all of this when it joins and there is a second processor: as
the idle task of processor 0 it can go on before its waker is done with it, and be woken
when it waits no longer (`Rash`). The parts claim of it no more than `Steady`: its state is
what it should be, or READY. Tasks are safe from that, because they are resumed from a
deque only, where their waker puts them after it has delivered the result. So for a task, READY in the middle of
a join means that it has its result, or that its waker is about to store it
(`BeingServed`), and a task that is resumed has it (`Served`); and any result is that of a
task that has returned (`Results`), which is all that is promised to main. From these follows
the refinement: `Collect` is the join of `TaskPool`.

`FaultsExplained` needs all of it, and two arguments more. An idle task, and a main
program that joins nothing, never leave their processor (`HomeboundAtHome`). On a
single processor nobody is woken before it was left (`Alone`), and when main waits
somebody can run: joins lead from lower to higher ranks (`Ranked`: a task ranks above
its creator and above the tasks its creator creates after it), so that of all the
contexts that have not ended the one with the highest rank does not wait, and is queued.
Without the ranks a cycle of joins would be consistent with everything else, and
`task_yield` would switch from main to main (`task.c:108`). `OneProcessorSound`
is the conclusion for `state.c`, which starts one processor: no program
that joins each task at most once fails an assertion.

**Hash table.** The invariant of the run follows pointers, which no step can reason
about one pointer at a time. `IInv` says instead that there are sequences: the ring
links the nodes `p` in this order and every other node to itself (`Rings`), the
chains are the sequences `F`, which hold the same nodes by their hash values
(`Chained`), and keys differ. Every list operation is an
operation on these sequences. Growth is an induction over the
buckets of the old entries and the nodes of a chain (`MoveChainIs`, `RehashIs`).
An iteration is a position in the ring (`Shows`): what was visited, then what is
still linked, is what there was at the start, whatever the visitor unlinks.

**Packages.** `TreeGood` says that an inner node leads to a leaf and nothing hangs
on a leaf; with it, the prefixes of a path that have no node are those from some length
on, so that `Add_PkgNode` makes one chain from the deepest node that exists down to the
leaf and keeps every other path as it was. `PoolGood` says that, while the calls come
in the order of `koala.c`, every package in the tree has a tuple of its own, as long as
its variables: the fault that `FaultsExplained` blames on `misuse` is an index into
a tuple that is too short, or another package's.

**Scopes.** `Consistent` and `CodeFaithful` speak of the code that was emitted and of
the slots of the function; that the next block merges right depends on which block
holds which part of that code, and that a function returns, on the flag `ret` of its
unit being true only if the unit's own code has a return. `Sound(S)` says so of
any state of the parser, not only of those between two statements, because handlers
call each other: scopes have the shape the grammar gives them (`Typed`), slots are
numbered in order (`SlotsGood`), a name is visible once and has a slot (`NamesGood`), and
the code of the open blocks, end to end, is what was emitted (`CodeGood`).
Each operator that takes and returns a state has a lemma: it keeps `Sound`, never
forgets an error, and either leaves all tables alone or declares one name with one
type. `Inductive` adds that finished functions return with the right
slots, and that a declaration of the module that was not parsed yet is in the module's
table with the type it declares; without the last part the type of a variable could
be lost between `Build_AST` and its declaration, and the parser and the rules would
disagree about it. The refinement follows action by action: up to the first error,
a handler reports one if and only if the rules of `StaticScopes` refuse the statement,
and otherwise the tables change as they say (`Follows`). The merge of blocks needs
that `FlattenSeq` of a longer list appends to that of the shorter one
(`FlattenAppend`), and the named results of a function an induction over the list
(`HeaderIs`).

**Runs of the compiler.** Neither property of `build` says what a run is in the middle of.
`Inductive` does, group by group and file by file. What a file imports has a package, a
group's or a loaded one (`ImportsMet`); its declarations are in the table of its
package (`DeclsKept`), and have a type there once it was analysed without an error
(`DeclsTyped`): this is what makes an image complete, since tables are filled in
across files but errors are counted file by file. Every file in a directory that was opened
was read as it is, is still to be read, or was saved since (`AllSeen`): this is what
an image misses, and whether the next run takes it for current is decided by
`dir_later_file` from the times alone. Any number of runs, kills and edits are allowed.
The handlers of one file pass on a record, as the C functions pass on the
`ParserState`; each has a lemma that what it returns is of the right shape (`Handler`) and
takes nothing back (`Later`: groups are only appended, packages and their names stay,
a type is never lost), so that what was shown of the files before still holds.
`DiskGood` is assumed of the first disk and is itself part of the invariant: every run, also
one that is killed, leaves such a disk behind.

**Type descriptors.** `RefcntExact` and `NoDangling` are not inductive: that releasing a
reference leaves the other counts right depends on what the released descriptor is built from,
and so on. The invariant says instead that the heap is `Balanced`: each live descriptor
counts the references from outside (users, `IdType`s and what was lost, less the thefts) and those from
inside (the parts of live descriptors, the table, the extra one of a base type). The
lemmas are about any balanced heap and any outside: a new reference (`IncrefAllIs`), a new
descriptor, whose parts come from outside or not (`FreshIs`, `GetIs`, `GetProtoIs`), and the
recursion of `TypeDesc_Free`. In the latter every reference still to be dropped counts as
one from outside, so that dropping one (`KeepStep`) or freeing a descriptor, whose parts
are then to be dropped (`FreeStep`), keeps the balance; it ends since each step takes one of the
finitely many links or pending references away (`DecrefAllIs`). What is freed had no reference left but
stolen ones, or was given up by the table before (`Safe`, `Gone`).

`HeapGood` has what else is needed: parts were allocated before the descriptor they belong to
(`PartsGood`), so that there are no cycles and the recursion of one descriptor of the table
in `HashTable_Fini` frees nothing that comes later in it: the saved successor
stays valid (`FiniVisitKeeps`). Otherwise the last descriptors would hold one another, and
`FiniClean` would not follow: if nothing was lost, the latest live descriptor that is no base type
is part of none, nobody keeps it, and the table has given it up, so that it has no reference
and is not live (`OnlyBases`). What is left are base types; each has one reference less
what was stolen of it, and with any stolen it would have none, where `TypeDesc_Free` stops the
program. What was lost only adds to counts, so that the assertion of `TypeDesc_Free` never fails for it.

`InductionFacts` has what the provers lack for data: the least element of a set of
numbers, induction over a bounded range as a fact about a set, and the existence of a
function defined by recursion, which is what a recursive definition of TLA+ needs to
mean its own equation (`MoveChainIs`, `HeaderIs`, `JoinsExist` and the lemmas about `Follow` and
`FromImage` use it).

Each inductive invariant was checked with TLC, on the instance of a run (that of the
scopes with five statements instead of six), before it was proved; for the deque the
run `deque` still does.

What stays with TLC: liveness under fairness (`MutexReleased`, `Completion`,
`TasksRun`, `RunEnds`), which the prover does not do; what a recursive operator
computes for every input, and with it `TextFaithful` and the properties of
`Objects`, `Image` and `Ast`, whose definitions follow the recursion of the code through the texts of
types, classes and syntax trees. `FollowsRules` of `Build` stays with TLC too: its exceptions
were found on the programs of the run, and no claim is made that they are all there are (a source that
declares `__init__` itself would need another one).

## 6. Not modelled

See `components` in `PROJECT.json` for the reasons part by part. Allocation
failures are not modelled anywhere: the code checks for them but does not recover.
The teardown of the scheduler (`task_fini_procs`) is not modelled: a program with
one processor calls it when nothing else runs. Classes and traits end in a failed
assertion before anything is generated for them, so that their tables, their part of
the image and their syntax trees never come into being in a run that goes on. The
automata of yacc and lex, hashing of bytes, formatting, logging and options keep no
state that outlives a call.

The evaluator is left out because no Koala function returns: `push_frame` keeps the
size of the frame in bytes, and `free_frame` takes it for the number of local
variables and releases what lies behind the frame. Before that, any use of a local
variable fails the assertion on its index, because `LOAD` and `STORE` read two bytes
(`fetch_2bytes`) where `inst_gen` writes one, and calls do nothing. A program thus
gets no further than the first constants that `__init__` pushes. That its code loads
the constants that were compiled is `RoundTrips`. For the same reason only the first
task of `state.c` ever runs Koala code.

## 7. Plan

1. Done: deque and its proofs, scheduler, hash table, type descriptors, objects,
   packages, scopes and slots of the compiler, images, runs of the compiler with their
   imports, ownership of syntax trees.
2. Evaluator, once its frames count local variables and its operands have the width
   that the generator writes: frames and the operand stack at their limits, with the
   abstract specification that a call returns the values its function computes.
3. Containers at their boundaries: growth of vectors, block buffers, free lists.
4. Proofs: done for the deque, the scheduler, the hash table, the packages, the scopes,
   the runs of the compiler and the type descriptors. Next is `Objects`, with recursive
   functions for its recursive operators.
