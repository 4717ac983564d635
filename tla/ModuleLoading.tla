--------------------------- MODULE ModuleLoading ---------------------------
(***************************************************************************)
(* Code run on one VM: the programs the host runs with cando_dostring and  *)
(* cando_dofile (source/cando_lib.c), the modules they include             *)
(* (source/lib/include.c) and the texts they eval (source/lib/eval.c), with*)
(* the vm_run calls nested in one another (source/vm/vm.c), the sandboxes  *)
(* that replace the globals for a while, the cache of modules, and what    *)
(* becomes of the compiled chunks.                                         *)
(*                                                                         *)
(* A chunk is known by its number; its functions are one value, the same   *)
(* number, which is also what a module returns.  Of the globals the model  *)
(* keeps the functions stored in them.  Loops and the value stack are in   *)
(* VMControl.                                                              *)
(*                                                                         *)
(* Programs do whatever can be written.  What the code does not stand is   *)
(* recorded in strayed and reentered when it happens, and the properties   *)
(* say how far each of them reaches.                                       *)
(***************************************************************************)
EXTENDS Integers, SequencesExt

CONSTANTS
    Paths,       \* canonical paths of modules
    Binary,      \* those of shared libraries
    Names,       \* what programs pass to include
    Absolute,    \* those of them that begin with a slash
    Dirs, Cwd,   \* directories; getcwd()
    DirOf(_),    \* the directory of a path
    Resolve(_, _),   \* realpath of a name in a directory, or NoPath
    NoPath,
    FramesMax,   \* CANDO_FRAMES_MAX
    MaxTries,    \* bound: TRY blocks open at a time
    MaxChunks    \* bound: chunks compiled

Text == "text"   \* the path of a chunk that is not a module

\* What programs may do and the code does not stand.
Strays == {"catch_across",          \* an error passes a vm_run and is caught around it
           "leave_try",             \* RETURN, BREAK or CONTINUE out of a TRY
           "keep_function",         \* a function is left behind by the text it is in
           "run_after_error",       \* the host runs a text after one that failed
           "second_text_includes",  \* by a relative name
           "second_text_returns"}

ASSUME LoadingAssumption ==
    /\ Binary \subseteq Paths /\ NoPath \notin Paths /\ Text \notin Paths
    /\ Absolute \subseteq Names
    /\ Cwd \in Dirs /\ \A p \in Paths : DirOf(p) \in Dirs
    /\ \A d \in Dirs, n \in Names : Resolve(d, n) \in Paths \cup {NoPath}
    /\ {FramesMax, MaxTries, MaxChunks} \subseteq Nat \ {0}

VARIABLES
    chunks,      \* every chunk compiled: [path, dir, live]; eval and host texts have no path
    frames,      \* vm->frames: [chunk, top, env], env the globals it was called with
    runs,        \* the vm_run calls in progress, with the C locals of their callers
    eval_stop,   \* vm->eval_stop_frame
    tries,       \* vm->try_stack: the frame_save of each
    left,        \* the indices in tries of handlers whose TRY has been left (history)
    envs,        \* the CandoGlobalEnvs: [live, fns]
    globals,     \* vm->globals, an index into envs
    cache,       \* vm->module_cache: [path, value]
    has_error,
    value,       \* what the library function returns, or Nothing
    given,       \* every value an include has given to a program
    reentered,   \* the paths included while their module was running (history)
    strayed,     \* those of Strays that have happened (history)
    mode         \* "host", "code", "native", or "lost": from here on the code runs
                 \* freed code or the wrong code, which the model does not follow

history == <<reentered, strayed>>
vars == <<chunks, frames, runs, eval_stop, tries, left, envs, globals, cache,
          has_error, value, given, history, mode>>

NoStop == -1     \* ~0u
Nothing == 0
NoDir == "no directory"

run == Last(runs)
top == Last(frames)

Init == /\ chunks = <<>> /\ frames = <<>> /\ runs = <<>> /\ tries = <<>>
        /\ left = {} /\ reentered = {} /\ strayed = {}
        /\ eval_stop = NoStop
        /\ envs = <<[live |-> TRUE, fns |-> {}]>> /\ globals = 1
        /\ cache = <<>> /\ given = {} /\ value = Nothing
        /\ has_error = FALSE /\ mode = "host"

-----------------------------------------------------------------------------
(* The nested vm_run calls *)

Loaded(c) == chunks[c].path # Text

\* What cando_vm_exec, exec_eval or exec_eval_module do before vm_run: the
\* new frame is the top one, and the depth below it is where an eval ends.
EnterRun(kind, chunk, sandbox) ==
    LET n == Len(chunks) + 1
        home == IF sandbox THEN Len(envs) + 1 ELSE globals
    IN  /\ chunks' = Append(chunks, chunk)
        /\ runs' = Append(runs, [kind |-> kind, chunk |-> n, stop |-> Len(frames),
                                 saved_stop |-> eval_stop, sandbox |-> sandbox,
                                 saved_globals |-> globals])
        /\ frames' = Append(frames, [chunk |-> n, top |-> TRUE, env |-> home])
        /\ eval_stop' = IF kind = "program" THEN eval_stop ELSE Len(frames)
        /\ globals' = home
        /\ envs' = IF sandbox THEN Append(envs, [live |-> TRUE, fns |-> {}]) ELSE envs
        /\ mode' = "code"
        /\ UNCHANGED <<tries, left, cache, has_error, value, given>>

\* The call was for an include that has succeeded: it goes into the cache,
\* which owns the chunk from then on.
KeepsFailedModule(result) == run.kind = "include" /\ result = "error"

KeepsModule(result) == run.kind = "include" /\ result # "error"

LeavesSandboxIfDone(result) == run.sandbox /\ result # "error"

LeavesSandbox(result) == run.sandbox

StraysIf(happens, what) == strayed' = IF happens THEN strayed \cup {what} ELSE strayed

\* vm_run returns "done" or "error", with so many frames left, to its caller,
\* which cleans up: the chunk is freed but for a module's that has run, and an
\* eval leaves its sandbox, failed or not.  A vm_run around it whose frame is no
\* longer the top one goes on with stale C locals.
RunEnds(result, depth) ==
    /\ runs' = Front(runs)
    /\ eval_stop' = run.saved_stop
    /\ value' \in IF KeepsModule(result) THEN {run.chunk}
                  ELSE IF run.kind = "eval" /\ result # "error" THEN {Nothing, run.chunk}
                  ELSE {Nothing}
    /\ cache' = IF KeepsModule(result)
                THEN Append(cache, [path |-> chunks[run.chunk].path, value |-> run.chunk])
                ELSE cache
    /\ chunks' = IF KeepsModule(result) THEN chunks
                 ELSE [chunks EXCEPT ![run.chunk].live = FALSE]
    /\ IF LeavesSandbox(result)
       THEN /\ envs' = [envs EXCEPT ![globals] = [live |-> FALSE, fns |-> {}]]
            /\ globals' = run.saved_globals
       ELSE UNCHANGED <<envs, globals>>
    /\ mode' = IF run.kind = "program" THEN "host"
               ELSE IF result = "done" /\ depth # run.stop THEN "lost"
               ELSE "native"
    /\ UNCHANGED reentered

KeptValue == value' # Nothing /\ run.kind = "eval"

\* handle_error of the innermost vm_run.  The newest TRY frame is the handler,
\* whichever vm_run pushed it, and though its TRY may have been left; without
\* one the error goes to vm_run's caller, and the frames stay.
HandleError ==
    IF tries = <<>>
    THEN /\ RunEnds("error", Len(frames))
         /\ has_error' = TRUE
         /\ UNCHANGED <<frames, tries, left, given, strayed>>
    ELSE /\ tries' = Front(tries) /\ left' = left \ {Len(tries)}
         /\ IF Len(tries) \in left
            THEN mode' = "lost" /\ UNCHANGED <<frames, has_error, strayed>>
            ELSE /\ frames' = SubSeq(frames, 1, Last(tries))
                 /\ has_error' = FALSE
                 /\ mode' = "code"
                 /\ StraysIf(Last(tries) <= run.stop, "catch_across")
         /\ UNCHANGED <<chunks, runs, eval_stop, envs, globals, cache, value, given, reentered>>

-----------------------------------------------------------------------------
(* The host *)

\* Functions an earlier program left in the globals, its chunk freed.
KeptFunctions == \E c \in envs[globals].fns : ~Loaded(c)

\* What a text that is run now does without it having done anything.
HostStrays == (IF has_error THEN {"run_after_error"} ELSE {})
                \cup (IF KeptFunctions THEN {"keep_function"} ELSE {})

Program(dir) == [path |-> Text, dir |-> dir, live |-> TRUE]

\* compile_source fails.
HostParseError ==
    /\ mode = "host" /\ ~has_error
    /\ has_error' = TRUE
    /\ UNCHANGED <<chunks, frames, runs, eval_stop, tries, left, envs, globals, cache, value,
                   given, history, mode>>

\* cando_dostring, or cando_dofile of a file in dir.  The frame of the program
\* before it is still there: nothing pops it.
HostRun(dir) ==
    /\ mode = "host" /\ Len(chunks) < MaxChunks
    /\ strayed' = strayed \cup HostStrays /\ UNCHANGED reentered
    /\ IF Len(frames) >= FramesMax
       THEN /\ has_error' = TRUE
            /\ chunks' = Append(chunks, [Program(dir) EXCEPT !.live = FALSE])
            /\ UNCHANGED <<frames, runs, eval_stop, tries, left, envs, globals, cache, value, given,
                           mode>>
       ELSE EnterRun("program", Program(dir), FALSE)

\* The top-level code of the program itself.
InProgram == top.top /\ top.chunk = runs[1].chunk

\* The handlers of TRY blocks the running function is in.
OwnTries == {i \in 1 .. Len(tries) \ left : tries[i] = Len(frames)}

\* OP_HALT, after the last statement.  In a vm_run that is not the program's
\* own it ends that one.
HostHalt ==
    /\ mode = "code" /\ InProgram /\ OwnTries = {}
    /\ RunEnds("done", Len(frames))
    /\ run.kind = "eval" => value' = Nothing
    /\ UNCHANGED <<frames, tries, left, has_error, given, strayed>>

-----------------------------------------------------------------------------
(* Code *)

Throw == mode = "code" /\ HandleError

TryBegin ==
    /\ mode = "code" /\ Len(tries) < MaxTries
    /\ tries' = Append(tries, Len(frames))
    /\ UNCHANGED <<chunks, frames, runs, eval_stop, left, envs, globals, cache, has_error, value,
                   given, history, mode>>

\* OP_TRY_END at the end of a block, which pops the newest handler; not the
\* block's own when a later one has been left.
TryEnd ==
    /\ mode = "code" /\ OwnTries # {}
    /\ tries' = Front(tries)
    /\ left' = (left \cup {Max(OwnTries)}) \ {Len(tries)}
    /\ UNCHANGED <<chunks, frames, runs, eval_stop, envs, globals, cache, has_error, value, given,
                   history, mode>>

\* BREAK or CONTINUE out of a TRY block.
LeaveTry ==
    /\ mode = "code" /\ OwnTries # {}
    /\ left' = left \cup {Max(OwnTries)}
    /\ strayed' = strayed \cup {"leave_try"}
    /\ UNCHANGED <<chunks, frames, runs, eval_stop, tries, envs, globals, cache, has_error, value,
                   given, reentered, mode>>

\* A FUNCTION declared in the running chunk.  What a text declares in globals
\* that outlive it is left behind; a host program's is not as long as it runs.
Declare ==
    /\ mode = "code"
    /\ envs' = [envs EXCEPT ![globals].fns = @ \cup {top.chunk}]
    /\ StraysIf(~Loaded(top.chunk) /\ ~run.sandbox /\ run.kind # "program", "keep_function")
    /\ UNCHANGED <<chunks, frames, runs, eval_stop, tries, left, globals, cache, has_error, value,
                   given, reentered, mode>>

\* A function found in the globals is called: it runs with the globals that
\* are current, wherever it was declared.
Call(c) ==
    /\ mode = "code" /\ c \in envs[globals].fns
    /\ IF ~chunks[c].live
       THEN /\ mode' = "lost"
            /\ UNCHANGED <<chunks, frames, runs, eval_stop, tries, left, envs, globals, cache,
                           has_error, value, given, history>>
       ELSE IF Len(frames) >= FramesMax
       THEN HandleError
       ELSE /\ frames' = Append(frames, [chunk |-> c, top |-> FALSE, env |-> globals])
            /\ UNCHANGED <<chunks, runs, eval_stop, tries, left, envs, globals, cache, has_error,
                           value, given, history, mode>>

\* OP_RETURN: of a function, at the end of a module or an eval, or of the
\* program, out of whatever TRY blocks are open.  Below a program's frame are
\* those of the programs before it.
Return ==
    LET count == Len(frames) - 1
        ends == count = 0 \/ (eval_stop # NoStop /\ count = eval_stop)
    IN
    /\ mode = "code"
    /\ frames' = Front(frames)
    /\ left' = left \cup OwnTries
    /\ \/ /\ ends
          /\ RunEnds("done", count)
          /\ strayed' = strayed \cup (IF OwnTries # {} THEN {"leave_try"} ELSE {})
                                \cup (IF KeptValue THEN {"keep_function"} ELSE {})
       \/ /\ ~ends /\ ~InProgram
          /\ StraysIf(OwnTries # {}, "leave_try")
          /\ UNCHANGED <<chunks, runs, eval_stop, envs, globals, cache, value, reentered, mode>>
       \/ /\ ~ends /\ InProgram
          /\ mode' = "lost" /\ strayed' = strayed \cup {"second_text_returns"}
          /\ UNCHANGED <<chunks, runs, eval_stop, envs, globals, cache, value, reentered>>
    /\ UNCHANGED <<tries, has_error, given>>

-----------------------------------------------------------------------------
(* include *)

\* The frame resolve_path takes the directory from: the newest one of a chunk
\* with an absolute name, or none.
NamedFrames == {i \in 1 .. Len(frames) : \/ ~chunks[frames[i].chunk].live
                                         \/ chunks[frames[i].chunk].dir # NoDir}

CallerChunk == chunks[frames[CHOOSE i \in NamedFrames : \A j \in NamedFrames : j <= i].chunk]

CallerDir == IF NamedFrames = {} THEN Cwd ELSE CallerChunk.dir

\* The name it reads is that of a chunk freed with its program, whose frame is
\* still there.
ReadsFreedChunk(name) == name \notin Absolute /\ NamedFrames # {} /\ ~CallerChunk.live

PathOf(name) == IF name \in Absolute THEN Resolve(Cwd, name) ELSE Resolve(CallerDir, name)

CachedButLast(p) == \E i \in 1 .. Len(cache) - 1 : cache[i].path = p

Cached(p) == \E i \in 1 .. Len(cache) : cache[i].path = p

\* The first entry of the path, as cache_find has it.
CacheFind(p) == cache[Min({i \in 1 .. Len(cache) : cache[i].path = p})].value

\* The library function ends without a vm_run of its own: OP_CALL looks at
\* has_error next.
NativeGives(v) == value' = v /\ mode' = "native"

Executing(p) == \E i \in 1 .. Len(runs) : runs[i].kind = "include" /\ chunks[runs[i].chunk].path = p

\* The path cannot be resolved, or the file cannot be read or parsed.
IncludeFails(name) ==
    /\ mode = "code"
    /\ IF ReadsFreedChunk(name)
       THEN /\ mode' = "lost" /\ strayed' = strayed \cup {"second_text_includes"}
            /\ UNCHANGED <<has_error, value>>
       ELSE /\ ~Cached(PathOf(name))
            /\ has_error' = TRUE
            /\ NativeGives(Nothing)
            /\ UNCHANGED strayed
    /\ UNCHANGED <<chunks, frames, runs, eval_stop, tries, left, envs, globals, cache, given,
                   reentered>>

IncludeCached(name) ==
    /\ mode = "code" /\ ~ReadsFreedChunk(name)
    /\ Cached(PathOf(name))
    /\ NativeGives(CacheFind(PathOf(name)))
    /\ UNCHANGED <<chunks, frames, runs, eval_stop, tries, left, envs, globals, cache, has_error,
                   given, history>>

\* load_script: the module runs now, and is in the cache when it has run.
IncludeRuns(name) ==
    LET p == PathOf(name)
        module == [path |-> p, dir |-> DirOf(p), live |-> TRUE]
    IN  /\ mode = "code" /\ Len(chunks) < MaxChunks /\ ~ReadsFreedChunk(name)
        /\ p \in Paths \ Binary /\ ~Cached(p)
        /\ reentered' = IF Executing(p) THEN reentered \cup {p} ELSE reentered
        /\ UNCHANGED strayed
        /\ IF Len(frames) >= FramesMax
           THEN /\ has_error' = TRUE /\ NativeGives(Nothing)
                /\ chunks' = Append(chunks, [module EXCEPT !.live = FALSE])
                /\ UNCHANGED <<frames, runs, eval_stop, tries, left, envs, globals, cache, given>>
           ELSE EnterRun("include", module, FALSE)

\* load_binary: cando_module_init runs, and may set an error; the library
\* stays loaded either way.
IncludeBinary(name) ==
    LET p == PathOf(name)
        n == Len(chunks) + 1
    IN  /\ mode = "code" /\ Len(chunks) < MaxChunks /\ ~ReadsFreedChunk(name)
        /\ p \in Binary /\ ~Cached(p)
        /\ chunks' = Append(chunks, [path |-> p, dir |-> DirOf(p), live |-> TRUE])
        /\ \/ /\ ~has_error
              /\ cache' = Append(cache, [path |-> p, value |-> n])
              /\ NativeGives(n)
              /\ UNCHANGED has_error
           \/ /\ has_error' = TRUE
              /\ NativeGives(Nothing)
              /\ UNCHANGED cache
        /\ UNCHANGED <<frames, runs, eval_stop, tries, left, envs, globals, given, history>>

-----------------------------------------------------------------------------
(* eval *)

EvalFails ==
    /\ mode = "code"
    /\ has_error' = TRUE
    /\ NativeGives(Nothing)
    /\ UNCHANGED <<chunks, frames, runs, eval_stop, tries, left, envs, globals, cache, given,
                   history>>

\* With no frame left, the sandbox is entered and left again.
EvalRuns(sandbox) ==
    /\ mode = "code" /\ Len(chunks) < MaxChunks
    /\ IF Len(frames) >= FramesMax
       THEN EvalFails
       ELSE EnterRun("eval", Program(NoDir), sandbox) /\ UNCHANGED history

\* The library function returns into OP_CALL of the vm_run around it.
NativeReturn ==
    /\ mode = "native"
    /\ IF has_error
       THEN HandleError
       ELSE /\ envs' = [envs EXCEPT ![globals].fns = @ \cup ({value} \ {Nothing})]
            /\ given' = IF value # Nothing /\ Loaded(value) THEN given \cup {value} ELSE given
            /\ value' = Nothing
            /\ mode' = "code"
            /\ UNCHANGED <<chunks, frames, runs, eval_stop, tries, left, globals, cache, has_error,
                           history>>

-----------------------------------------------------------------------------

Ended == /\ mode = "lost" \/ (mode = "host" /\ Len(chunks) >= MaxChunks)
         /\ UNCHANGED vars

Next == \/ HostParseError \/ HostHalt
        \/ \E d \in Dirs \cup {NoDir} : HostRun(d)
        \/ Throw \/ TryBegin \/ TryEnd \/ LeaveTry \/ Declare \/ Return
        \/ \E c \in 1 .. Len(chunks) : Call(c)
        \/ \E n \in Names : \/ IncludeFails(n) \/ IncludeCached(n)
                            \/ IncludeRuns(n) \/ IncludeBinary(n)
        \/ EvalFails \/ \E s \in BOOLEAN : EvalRuns(s)
        \/ NativeReturn
        \/ Ended

Spec == Init /\ [][Next]_vars

-----------------------------------------------------------------------------
(* Properties *)

\* docs/standard-library.md:294-295, of eval: "Parse or runtime errors are
\* thrown and may be caught by the caller."  The code a vm_run executes lies in
\* the frames above the depth it was entered at: an error that leaves it is
\* caught by the vm_run around it, and not by this one.  Not so: handle_error
\* takes the newest handler, whoever pushed it.
CaughtByCaller == mode = "code" => Len(frames) > run.stop

\* Whatever returns, fails or is caught, in whatever nesting of programs,
\* includes and evals, and whatever else has happened: as long as no error has
\* been caught across a vm_run and no TRY been left open, the code that runs
\* next does so in its own vm_run, with the globals it was called with
\* (sandbox_exit on every way out of a sandbox), and OP_RETURN will stop at the
\* depth of the innermost include or eval that has not returned
\* (eval_stop_frame); and the VM a host gets back has its own globals and no
\* handler left.
CodeResumesWhereItWas ==
    strayed \cap {"catch_across", "leave_try"} = {} =>
        /\ CaughtByCaller
        /\ mode = "code" => globals = top.env /\ envs[globals].live
        /\ mode \in {"code", "native"} => eval_stop = IF Len(runs) <= 1 THEN NoStop ELSE run.stop
        /\ mode = "host" => globals = 1 /\ tries = <<>> /\ eval_stop = NoStop

\* docs/standard-library.md:315: "Identical canonical paths share one cached
\* value across the whole VM".  Every include of a path that succeeds gives
\* the same value, by whatever name and from whatever directory, though the
\* module may have failed before and whatever has strayed; and a script module
\* that is in memory is running or in the cache, once.  Only of a path that was
\* included while its module was running can there be several.
OneValuePerPath ==
    /\ \A a, b \in given :
          chunks[a].path = chunks[b].path /\ chunks[a].path \notin reentered => a = b
    /\ \A i, j \in 1 .. Len(cache) :
          cache[i].path = cache[j].path /\ cache[i].path \notin reentered => i = j
    /\ \A c \in 1 .. Len(chunks) :
          (Loaded(c) /\ chunks[c].live /\ chunks[c].path \notin Binary)
            => \/ \E i \in 1 .. Len(runs) : runs[i].chunk = c
               \/ \E i \in 1 .. Len(cache) : cache[i] = [path |-> chunks[c].path, value |-> c]

\* The sentence of the document as it stands.
PathsShareOneValue == \A a, b \in given : chunks[a].path = chunks[b].path => a = b

\* No code runs whose chunk is freed, and none can be called: the functions
\* the running code can find are of chunks that are running or kept by the
\* cache, and so are the frames of the program.  It takes one of Strays to get
\* at freed code.
CalledCodeIsAlive ==
    strayed = {} =>
        /\ mode # "lost"
        /\ mode = "code" =>
             /\ \A e \in 1 .. Len(envs) : \A c \in envs[e].fns : chunks[c].live
             /\ \A i \in runs[1].stop + 1 .. Len(frames) : chunks[frames[i].chunk].live

\* docs/creating-platforms.md:155: "cando_dofile(vm, "user/mod.cdo");" after a
\* file of bindings, and 162: "Run the script with `cando_dofile`", then call
\* the functions it has left in the globals.  Not so: the chunk they are in is
\* freed with the script.
FunctionsStayCallable == mode = "code" => \A c \in envs[globals].fns : chunks[c].live

\* docs/creating-platforms.md:204-210 runs one mod after another and reports
\* the error of each that fails.  Not so: no text starts afresh after one that
\* failed, the error is still pending in it.
TextsStartAfresh == mode = "code" => ~has_error
=============================================================================
