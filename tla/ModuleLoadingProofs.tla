------------------------ MODULE ModuleLoadingProofs ------------------------
(***************************************************************************)
(* For any modules, names and directories, any depth of frames and any     *)
(* number of chunks, whatever programs do: modules have one value each;    *)
(* code runs in its own vm_run with its own globals as long as no error has*)
(* been caught across a vm_run and no TRY left open; and no freed code runs*)
(* before one of Strays.                                                   *)
(***************************************************************************)
EXTENDS ModuleLoading, SequenceTheorems, WellFoundedInduction, TLAPS

-----------------------------------------------------------------------------
(* Sequences: what their length, last element and front are.               *)

LEMMA SeqFacts ==
  ASSUME NEW S, NEW s \in Seq(S)
  PROVE  /\ Len(s) \in Nat /\ DOMAIN s = 1 .. Len(s)
         /\ \A i \in 1 .. Len(s) : s[i] \in S
         /\ s = <<>> <=> Len(s) = 0
  <1>1. Len(s) \in Nat /\ DOMAIN s = 1 .. Len(s) /\ \A i \in 1 .. Len(s) : s[i] \in S
    BY LenProperties
  <1>2. s = <<>> <=> Len(s) = 0
    BY EmptySeq
  <1> QED BY <1>1, <1>2

LEMMA PrefixFacts ==
  ASSUME NEW S, NEW s \in Seq(S), NEW n \in Nat, n <= Len(s)
  PROVE  /\ SubSeq(s, 1, n) \in Seq(S) /\ Len(SubSeq(s, 1, n)) = n
         /\ \A i \in 1 .. n : SubSeq(s, 1, n)[i] = s[i]
  <1>1. \A i \in 1 .. n : s[i] \in S
    BY SeqFacts
  <1>2. /\ SubSeq(s, 1, n) \in Seq(S)
        /\ Len(SubSeq(s, 1, n)) = IF 1 <= n THEN n - 1 + 1 ELSE 0
        /\ \A i \in 1 .. n - 1 + 1 : SubSeq(s, 1, n)[i] = s[1 + i - 1]
    BY <1>1, SubSeqProperties
  <1> QED BY <1>2

LEMMA FrontFacts ==
  ASSUME NEW S, NEW s \in Seq(S), s # <<>>
  PROVE  /\ Len(s) \in Nat \ {0} /\ Last(s) = s[Len(s)] /\ Last(s) \in S
         /\ Front(s) \in Seq(S) /\ Len(Front(s)) = Len(s) - 1
         /\ \A i \in 1 .. Len(Front(s)) : /\ i \in 1 .. Len(s) /\ i < Len(s) /\ i <= Len(s)
                                          /\ Front(s)[i] = s[i]
         /\ Len(s) \in 1 .. Len(s)
  <1>1. Len(s) \in Nat \ {0} /\ \A i \in 1 .. Len(s) : s[i] \in S
    BY SeqFacts, EmptySeq
  <1>2. Last(s) = s[Len(s)] /\ Last(s) \in S
    BY <1>1 DEF Last
  <1>3. Len(s) - 1 \in Nat /\ Len(s) - 1 <= Len(s)
    BY <1>1
  <1>4. /\ Front(s) \in Seq(S) /\ Len(Front(s)) = Len(s) - 1
        /\ \A i \in 1 .. Len(s) - 1 : Front(s)[i] = s[i]
    BY <1>3, PrefixFacts DEF Front
  <1>5. \A i \in 1 .. Len(s) - 1 : i \in 1 .. Len(s) /\ i < Len(s) /\ i <= Len(s)
    BY <1>1
  <1>6. Len(s) \in 1 .. Len(s)
    BY <1>1
  <1> QED BY <1>1, <1>2, <1>4, <1>5, <1>6

LEMMA AppendFacts ==
  ASSUME NEW S, NEW s \in Seq(S), NEW e \in S
  PROVE  /\ Append(s, e) \in Seq(S) /\ Len(Append(s, e)) = Len(s) + 1
         /\ \A i \in 1 .. Len(s) : Append(s, e)[i] = s[i]
         /\ Append(s, e)[Len(s) + 1] = e
         /\ Append(s, e) # <<>> /\ Last(Append(s, e)) = e
  BY AppendProperties DEF Last

LEMMA ExceptFacts ==
  ASSUME NEW S, NEW s \in Seq(S), NEW i \in 1 .. Len(s), NEW e \in S
  PROVE  \A t : t = [s EXCEPT ![i] = e] =>
           /\ t \in Seq(S) /\ Len(t) = Len(s)
           /\ \A j \in 1 .. Len(s) : t[j] = IF j = i THEN e ELSE s[j]
  <1>1. /\ [s EXCEPT ![i] = e] \in Seq(S) /\ Len([s EXCEPT ![i] = e]) = Len(s)
        /\ \A j \in 1 .. Len(s) : [s EXCEPT ![i] = e][j] = IF j = i THEN e ELSE s[j]
    BY ExceptSeq
  <1> QED BY <1>1

LEMMA NatWellFounded == IsWellFoundedOn({r \in Nat \X Nat : r[1] < r[2]}, Nat)
  BY NatLessThanWellFounded DEF OpToRel

LEMMA LeastNat ==
  ASSUME NEW T \in SUBSET Nat, T # {}
  PROVE  \E n \in T : \A m \in T : n <= m
  <1> DEFINE R == {r \in Nat \X Nat : r[1] < r[2]}
  <1>1. PICK n \in T : \A m \in T : ~ (<<m, n>> \in R)
    <2> HIDE DEF R
    <2>1. IsWellFoundedOn(R, Nat)
      BY NatWellFounded DEF R
    <2> QED BY <2>1, WFMin
  <1>2. ASSUME NEW m \in T
        PROVE  n <= m
    <2>1. m \in Nat /\ n \in Nat
      OBVIOUS
    <2>2. m < n => <<m, n>> \in R
      BY <2>1
    <2> HIDE DEF R
    <2> QED BY <1>1, <2>1, <2>2
  <1> QED BY <1>2

-----------------------------------------------------------------------------
(* Modules and their values, whatever programs do.                         *)

Runs  == 1 .. Len(runs)
Chunk == [path: Paths \cup {Text}, dir: Dirs \cup {NoDir}, live: BOOLEAN]
Entry == [path: Paths, value: Nat]

InCache(c) == \E i \in 1 .. Len(cache) : cache[i] = [path |-> chunks[c].path, value |-> c]

PathTypes ==
    /\ chunks \in Seq(Chunk) /\ cache \in Seq(Entry) /\ value \in Nat
    /\ \E R : runs \in Seq(R)

\* A program runs, and the modules and texts nested in it, each with a chunk of
\* its own; a module is in the cache, or runs a second time, only if it was
\* included while it was running.
RunsHaveChunks ==
    /\ mode = "host" => runs = <<>>
    /\ mode \in {"code", "native"} => runs # <<>>
    /\ \A i \in Runs :
         /\ runs[i].kind = "program" <=> i = 1
         /\ runs[i].chunk \in 1 .. Len(chunks) /\ chunks[runs[i].chunk].live
         /\ runs[i].kind = "include" <=> Loaded(runs[i].chunk)
         /\ Loaded(runs[i].chunk) =>
              /\ chunks[runs[i].chunk].path \notin Binary
              /\ Cached(chunks[runs[i].chunk].path) => chunks[runs[i].chunk].path \in reentered
    /\ \A i, j \in Runs : i # j =>
         /\ runs[i].chunk # runs[j].chunk
         /\ Loaded(runs[i].chunk) /\ chunks[runs[i].chunk].path = chunks[runs[j].chunk].path =>
              chunks[runs[i].chunk].path \in reentered

CacheIsRight ==
    /\ \A i \in 1 .. Len(cache) : /\ cache[i].value \in 1 .. Len(chunks)
                                  /\ chunks[cache[i].value].path = cache[i].path
                                  /\ chunks[cache[i].value].live
                                  /\ \A j \in Runs : runs[j].chunk # cache[i].value
    /\ \A i, j \in 1 .. Len(cache) :
         cache[i].path = cache[j].path => i = j \/ cache[i].path \in reentered
    /\ \A c \in given : c \in 1 .. Len(chunks) /\ InCache(c)
    /\ value # Nothing => /\ value \in 1 .. Len(chunks)
                          /\ InCache(value) \/ (~Loaded(value) /\ ~chunks[value].live)
    /\ \A c \in 1 .. Len(chunks) :
         Loaded(c) /\ chunks[c].live /\ chunks[c].path \notin Binary =>
           (\E i \in Runs : runs[i].chunk = c) \/ InCache(c)

PathInv == PathTypes /\ RunsHaveChunks /\ CacheIsRight

LEMMA PathFacts ==
  ASSUME PathTypes
  PROVE  /\ Len(chunks) \in Nat /\ \A c \in 1 .. Len(chunks) : chunks[c] \in Chunk
         /\ Len(runs) \in Nat /\ (runs = <<>> <=> Len(runs) = 0)
         /\ Len(cache) \in Nat /\ \A i \in 1 .. Len(cache) : cache[i] \in Entry
         /\ run = runs[Len(runs)]
  <1>1. PICK R : runs \in Seq(R)
    BY DEF PathTypes
  <1>2. Len(runs) \in Nat /\ (runs = <<>> <=> Len(runs) = 0)
    BY <1>1, SeqFacts
  <1> QED BY <1>2, SeqFacts DEF PathTypes, run, Last

\* What is in the cache is a module that is there to stay.
LEMMA CachedIsModule ==
  ASSUME PathTypes, CacheIsRight, NEW i \in 1 .. Len(cache)
  PROVE  /\ cache[i].value \in 1 .. Len(chunks) /\ InCache(cache[i].value)
         /\ Loaded(cache[i].value) /\ chunks[cache[i].value].live
  <1>1. cache[i] \in Entry /\ cache[i].path = chunks[cache[i].value].path
    BY PathFacts DEF CacheIsRight
  <1>2. cache[i] = [path |-> cache[i].path, value |-> cache[i].value]
    BY <1>1 DEF Entry
  <1>3. InCache(cache[i].value)
    BY <1>1, <1>2 DEF InCache
  <1>4. Loaded(cache[i].value)
    BY <1>1, LoadingAssumption DEF Loaded, Entry
  <1> QED BY <1>3, <1>4 DEF CacheIsRight

LEMMA FoundInCache ==
  ASSUME PathTypes, CacheIsRight, NEW p, Cached(p)
  PROVE  CacheFind(p) \in 1 .. Len(chunks) /\ InCache(CacheFind(p))
  <1> DEFINE T == {i \in 1 .. Len(cache) : cache[i].path = p}
  <1>1. T \in SUBSET Nat /\ T # {}
    BY PathFacts DEF Cached
  <1> HIDE DEF T
  <1>2. \E n \in T : \A m \in T : n <= m
    BY <1>1, LeastNat
  <1>3. Min(T) \in T
    BY <1>2 DEF Min
  <1>4. Min(T) \in 1 .. Len(cache) /\ CacheFind(p) = cache[Min(T)].value
    BY <1>3 DEF T, CacheFind
  <1> QED BY <1>4, CachedIsModule

\* Steps that leave the chunks alone.
LEMMA PathKept ==
  ASSUME PathInv, UNCHANGED <<chunks, runs, cache, reentered>>,
         mode' = "host" => mode = "host",
         mode' \in {"code", "native"} => mode \in {"code", "native"},
         NEW v \in Nat, v # Nothing => v \in 1 .. Len(chunks) /\ InCache(v),
         value' \in {value, Nothing, v}, given' \subseteq given \cup ({v} \ {Nothing})
  PROVE  PathInv'
  <1>1. \A c : (InCache(c)' <=> InCache(c)) /\ (Loaded(c)' <=> Loaded(c)) /\ (Cached(c)' <=> Cached(c))
    BY DEF InCache, Loaded, Cached
  <1>2. PathTypes'
    BY DEF PathInv, PathTypes, Nothing
  <1>3. RunsHaveChunks'
    BY DEF PathInv, RunsHaveChunks, Runs, Loaded, Cached
  <1>4. CacheIsRight'
    BY <1>1 DEF PathInv, CacheIsRight, Runs
  <1> QED BY <1>2, <1>3, <1>4 DEF PathInv

LEMMA PathUntouched ==
  ASSUME PathInv, UNCHANGED <<chunks, runs, cache, given, reentered>>, value' \in {value, Nothing},
         mode' = "host" => mode = "host",
         mode' \in {"code", "native"} => mode \in {"code", "native"}
  PROVE  PathInv'
  BY PathKept, Nothing \in Nat DEF Nothing

-----------------------------------------------------------------------------
(* The cache, as chunks come and go.                                       *)

SamePaths == /\ Len(chunks') \in Nat /\ Len(chunks) <= Len(chunks')
             /\ \A c \in 1 .. Len(chunks) : /\ chunks'[c].path = chunks[c].path
                                            /\ chunks'[c].live => chunks[c].live

LEMMA CacheStays ==
  ASSUME PathInv, SamePaths, UNCHANGED <<cache, given>>, reentered \subseteq reentered',
         \/ value' \in {value, Nothing}
         \/ value' \in 1 .. Len(chunks') /\ chunks'[value'].path = Text /\ ~chunks'[value'].live,
         \A i \in 1 .. Len(cache) : /\ chunks'[cache[i].value].live
                                    /\ \A j \in Runs' : runs'[j].chunk # cache[i].value,
         \A c \in 1 .. Len(chunks') :
           chunks'[c].path # Text /\ chunks'[c].live /\ chunks'[c].path \notin Binary =>
             \/ \E i \in Runs' : runs'[i].chunk = c
             \/ c \in 1 .. Len(chunks) /\ InCache(c)
  PROVE  CacheIsRight'
  <1>1. /\ Len(chunks) \in Nat /\ \A c \in 1 .. Len(chunks) : c \in 1 .. Len(chunks')
        /\ CacheIsRight
    BY PathFacts DEF SamePaths, PathInv
  <1>2. \A c \in 1 .. Len(chunks) : InCache(c)' <=> InCache(c)
    BY DEF SamePaths, InCache
  <1>3. \A i \in 1 .. Len(cache') : /\ cache'[i].value \in 1 .. Len(chunks')
                                    /\ chunks'[cache'[i].value].path = cache'[i].path
                                    /\ chunks'[cache'[i].value].live
                                    /\ \A j \in Runs' : runs'[j].chunk # cache'[i].value
    BY <1>1 DEF CacheIsRight, SamePaths
  <1>4. \A c \in given' : c \in 1 .. Len(chunks') /\ InCache(c)'
    BY <1>1, <1>2 DEF CacheIsRight
  <1>5. value' # Nothing => /\ value' \in 1 .. Len(chunks')
                            /\ \/ InCache(value)'
                               \/ chunks'[value'].path = Text /\ ~chunks'[value'].live
    <2> SUFFICES ASSUME value' # Nothing, value' = value
                 PROVE  /\ value' \in 1 .. Len(chunks')
                        /\ \/ InCache(value)'
                           \/ chunks'[value'].path = Text /\ ~chunks'[value'].live
      OBVIOUS
    <2>1. PICK v : v = value
      OBVIOUS
    <2>2. v \in 1 .. Len(chunks) /\ (InCache(v) \/ (~Loaded(v) /\ ~chunks[v].live))
      BY <1>1, <2>1 DEF CacheIsRight
    <2>3. InCache(v)' \/ (chunks'[v].path = Text /\ ~chunks'[v].live)
      BY <1>2, <2>2 DEF Loaded, SamePaths
    <2> QED BY <1>1, <2>1, <2>2, <2>3 DEF InCache
  <1>6. \A c \in 1 .. Len(chunks') :
          Loaded(c)' /\ chunks'[c].live /\ chunks'[c].path \notin Binary =>
            (\E i \in Runs' : runs'[i].chunk = c) \/ InCache(c)'
    BY <1>2 DEF Loaded
  <1>7. \A i, j \in 1 .. Len(cache') :
          cache'[i].path = cache'[j].path => i = j \/ cache'[i].path \in reentered'
    BY <1>1 DEF CacheIsRight
  <1> QED BY <1>3, <1>4, <1>5, <1>6, <1>7 DEF CacheIsRight, Loaded

LEMMA CacheAppended ==
  ASSUME PathInv, SamePaths, UNCHANGED <<given, reentered>>,
         \A i \in 1 .. Len(cache) : /\ chunks'[cache[i].value].live
                                    /\ \A j \in Runs' : runs'[j].chunk # cache[i].value,
         NEW v \in 1 .. Len(chunks'), chunks'[v].live, value' = v,
         \A j \in Runs' : runs'[j].chunk # v,
         Cached(chunks'[v].path) => chunks'[v].path \in reentered,
         Len(cache') = Len(cache) + 1, \A i \in 1 .. Len(cache) : cache'[i] = cache[i],
         cache'[Len(cache) + 1] = [path |-> chunks'[v].path, value |-> v],
         \A c \in 1 .. Len(chunks') :
           chunks'[c].path # Text /\ chunks'[c].live /\ chunks'[c].path \notin Binary =>
             \/ \E i \in Runs' : runs'[i].chunk = c
             \/ c \in 1 .. Len(chunks) /\ InCache(c)
             \/ c = v
  PROVE  CacheIsRight'
  <1>1. /\ Len(chunks) \in Nat /\ \A c \in 1 .. Len(chunks) : c \in 1 .. Len(chunks')
        /\ Len(cache) \in Nat /\ CacheIsRight
    BY PathFacts DEF SamePaths, PathInv
  <1>2. \A i \in 1 .. Len(cache') : i \in 1 .. Len(cache) \/ i = Len(cache) + 1
    BY <1>1
  <1>3. /\ Len(cache) + 1 \in 1 .. Len(cache') /\ \A i \in 1 .. Len(cache) : i \in 1 .. Len(cache')
        /\ cache'[Len(cache) + 1].value = v
        /\ cache'[Len(cache) + 1].path = chunks'[v].path
    BY <1>1
  <1>4. \A c \in 1 .. Len(chunks) : InCache(c) => InCache(c)'
    BY <1>3 DEF SamePaths, InCache
  <1>5. InCache(v)'
    BY <1>3 DEF InCache
  <1>6. \A i \in 1 .. Len(cache') : /\ cache'[i].value \in 1 .. Len(chunks')
                                    /\ chunks'[cache'[i].value].path = cache'[i].path
                                    /\ chunks'[cache'[i].value].live
                                    /\ \A j \in Runs' : runs'[j].chunk # cache'[i].value
    <2> SUFFICES ASSUME NEW i \in 1 .. Len(cache')
                 PROVE  /\ cache'[i].value \in 1 .. Len(chunks')
                        /\ chunks'[cache'[i].value].path = cache'[i].path
                        /\ chunks'[cache'[i].value].live
                        /\ \A j \in Runs' : runs'[j].chunk # cache'[i].value
      OBVIOUS
    <2>1. CASE i \in 1 .. Len(cache)
      <3>1. PICK v1 : v1 = cache[i].value
        OBVIOUS
      <3>2. v1 \in 1 .. Len(chunks) /\ chunks[v1].path = cache[i].path
        BY <1>1, <2>1, <3>1 DEF CacheIsRight
      <3>3. v1 \in 1 .. Len(chunks') /\ chunks'[v1].path = cache[i].path
        BY <1>1, <3>2 DEF SamePaths
      <3> QED BY <2>1, <3>1, <3>3
    <2>2. CASE i = Len(cache) + 1
      BY <1>3, <2>2
    <2> QED BY <1>2, <2>1, <2>2
  <1>7. \A i, j \in 1 .. Len(cache') :
          cache'[i].path = cache'[j].path => i = j \/ cache'[i].path \in reentered'
    <2>1. \A i \in 1 .. Len(cache) : cache'[i].path = chunks'[v].path => chunks'[v].path \in reentered
      BY DEF Cached
    <2>2. \A i, j \in 1 .. Len(cache) :
            cache'[i].path = cache'[j].path => i = j \/ cache'[i].path \in reentered
      BY <1>1 DEF CacheIsRight
    <2> SUFFICES ASSUME NEW i \in 1 .. Len(cache'), NEW j \in 1 .. Len(cache'),
                        cache'[i].path = cache'[j].path
                 PROVE  i = j \/ cache'[i].path \in reentered
      OBVIOUS
    <2>3. CASE i \in 1 .. Len(cache) /\ j \in 1 .. Len(cache)
      BY <2>2, <2>3
    <2>4. CASE i = Len(cache) + 1 \/ j = Len(cache) + 1
      BY <1>2, <1>3, <2>1, <2>4
    <2> QED BY <1>2, <2>3, <2>4
  <1>8. \A c \in given' : c \in 1 .. Len(chunks') /\ InCache(c)'
    BY <1>1, <1>4 DEF CacheIsRight
  <1>9. value' # Nothing => value' \in 1 .. Len(chunks') /\ InCache(value)'
    BY <1>5 DEF InCache
  <1>10. \A c \in 1 .. Len(chunks') :
           Loaded(c)' /\ chunks'[c].live /\ chunks'[c].path \notin Binary =>
             (\E i \in Runs' : runs'[i].chunk = c) \/ InCache(c)'
    BY <1>4, <1>5 DEF Loaded
  <1> QED BY <1>6, <1>7, <1>8, <1>9, <1>10 DEF CacheIsRight


\* The vm_run calls that stay are as they were.
LEMMA RunsStay ==
  ASSUME PathInv, SamePaths, reentered \subseteq reentered',
         mode' = "host" => runs' = <<>>, mode' \in {"code", "native"} => runs' # <<>>,
         \A i \in Runs' : i \in Runs /\ runs'[i] = runs[i] /\ chunks'[runs[i].chunk].live,
         \A i \in Runs' : \A p \in Paths \ Binary :
           p = chunks[runs[i].chunk].path /\ Cached(p)' => Cached(p) \/ p \in reentered
  PROVE  RunsHaveChunks'
  <1>1. /\ RunsHaveChunks /\ Len(chunks) \in Nat
        /\ \A c \in 1 .. Len(chunks) : chunks[c] \in Chunk /\ c \in 1 .. Len(chunks')
    BY PathFacts DEF PathInv, SamePaths
  <1>2. ASSUME NEW i \in Runs'
        PROVE  /\ runs'[i].kind = "program" <=> i = 1
               /\ runs'[i].chunk \in 1 .. Len(chunks') /\ chunks'[runs'[i].chunk].live
               /\ chunks'[runs'[i].chunk].path = chunks[runs[i].chunk].path
               /\ runs'[i].kind = "include" <=> Loaded(runs[i].chunk)'
               /\ Loaded(runs[i].chunk)' =>
                    /\ chunks'[runs'[i].chunk].path \notin Binary
                    /\ Cached(chunks[runs[i].chunk].path)' =>
                         chunks'[runs'[i].chunk].path \in reentered'
    <2>1. PICK c : c = runs[i].chunk
      OBVIOUS
    <2>2. PICK p : p = chunks[c].path
      OBVIOUS
    <2>3. /\ i \in Runs /\ runs'[i] = runs[i] /\ c \in 1 .. Len(chunks) /\ c \in 1 .. Len(chunks')
          /\ runs[i].kind = "program" <=> i = 1
          /\ chunks'[c].live /\ chunks'[c].path = p
          /\ runs[i].kind = "include" <=> p # Text
          /\ p # Text => p \in Paths \ Binary /\ (Cached(p) => p \in reentered)
      BY <1>1, <2>1, <2>2 DEF RunsHaveChunks, SamePaths, Loaded, Chunk
    <2>4. p # Text => (Cached(p)' => p \in reentered)
      BY <2>1, <2>2, <2>3
    <2>5. Loaded(runs[i].chunk)' <=> p # Text
      BY <2>1, <2>3 DEF Loaded
    <2>6. Cached(chunks[runs[i].chunk].path)' <=> Cached(p)'
      BY <2>1, <2>3 DEF Cached
    <2> QED BY <2>1, <2>2, <2>3, <2>4, <2>5, <2>6
  <1>3. ASSUME NEW i \in Runs', NEW j \in Runs', i # j
        PROVE  /\ runs'[i].chunk # runs'[j].chunk
               /\ Loaded(runs[i].chunk)' /\ chunks'[runs'[i].chunk].path = chunks'[runs'[j].chunk].path =>
                    chunks'[runs'[i].chunk].path \in reentered'
    <2>1. i \in Runs /\ j \in Runs /\ runs'[i] = runs[i] /\ runs'[j] = runs[j]
      OBVIOUS
    <2>2. /\ chunks'[runs'[i].chunk].path = chunks[runs[i].chunk].path
          /\ chunks'[runs'[j].chunk].path = chunks[runs[j].chunk].path
      BY <1>2
    <2>3. /\ runs[i].chunk # runs[j].chunk
          /\ Loaded(runs[i].chunk) /\ chunks[runs[i].chunk].path = chunks[runs[j].chunk].path =>
                    chunks[runs[i].chunk].path \in reentered
      BY <1>1, <1>3, <2>1 DEF RunsHaveChunks
    <2> QED BY <2>1, <2>2, <2>3 DEF Loaded
  <1> QED BY <1>2, <1>3 DEF RunsHaveChunks

-----------------------------------------------------------------------------
(* Chunks that are compiled and do not run.                                *)

ChunkAdded(m) == /\ chunks' \in Seq(Chunk) /\ Len(chunks') = Len(chunks) + 1
                 /\ \A c \in 1 .. Len(chunks) : chunks'[c] = chunks[c]
                 /\ chunks'[Len(chunks) + 1] = m

LEMMA AppendedChunk ==
  ASSUME PathTypes, NEW m \in Chunk, chunks' = Append(chunks, m)
  PROVE  ChunkAdded(m)
  BY AppendFacts DEF PathTypes, ChunkAdded

LEMMA ChunkAddedGrows ==
  ASSUME PathTypes, NEW m, ChunkAdded(m)
  PROVE  /\ SamePaths /\ Len(chunks) + 1 \in 1 .. Len(chunks')
         /\ \A c \in 1 .. Len(chunks') : c \in 1 .. Len(chunks) \/ c = Len(chunks) + 1
  BY PathFacts DEF ChunkAdded, SamePaths

\* The modules there were are where they were.
LEMMA ModulesStay ==
  ASSUME PathInv, NEW m, ChunkAdded(m)
  PROVE  /\ \A i \in Runs : chunks'[runs[i].chunk].live /\ runs[i].chunk \in 1 .. Len(chunks)
         /\ \A i \in 1 .. Len(cache) : /\ chunks'[cache[i].value].live
                                       /\ cache[i].value \in 1 .. Len(chunks)
                                       /\ \A j \in Runs : runs[j].chunk # cache[i].value
         /\ \A c \in 1 .. Len(chunks) :
              chunks'[c].path # Text /\ chunks'[c].live /\ chunks'[c].path \notin Binary =>
                (\E i \in Runs : runs[i].chunk = c) \/ InCache(c)
  <1>1. RunsHaveChunks /\ CacheIsRight /\ \A c \in 1 .. Len(chunks) : chunks'[c] = chunks[c]
    BY DEF PathInv, ChunkAdded
  <1>2. \A i \in Runs : chunks'[runs[i].chunk].live /\ runs[i].chunk \in 1 .. Len(chunks)
    BY <1>1 DEF RunsHaveChunks
  <1>3. \A i \in 1 .. Len(cache) : /\ chunks'[cache[i].value].live
                                   /\ cache[i].value \in 1 .. Len(chunks)
                                   /\ \A j \in Runs : runs[j].chunk # cache[i].value
    BY <1>1 DEF CacheIsRight
  <1>4. \A c \in 1 .. Len(chunks) :
          chunks'[c].path # Text /\ chunks'[c].live /\ chunks'[c].path \notin Binary =>
            (\E i \in Runs : runs[i].chunk = c) \/ InCache(c)
    BY <1>1 DEF CacheIsRight, Loaded
  <1> QED BY <1>2, <1>3, <1>4

\* No room for a frame: the chunk is freed at once.  A shared library stays.
LEMMA AddedPath ==
  ASSUME PathInv, NEW m \in Chunk, ChunkAdded(m), reentered \subseteq reentered',
         UNCHANGED <<runs, given>>,
         mode' = "host" => mode = "host",
         mode' \in {"code", "native"} => mode \in {"code", "native"},
         \/ ~m.live \/ m.path \in Binary,
         \/ UNCHANGED cache /\ value' \in {value, Nothing}
         \/ /\ UNCHANGED reentered /\ m.path \in Binary /\ m.live /\ ~Cached(m.path)
            /\ value' = Len(chunks) + 1
            /\ cache' \in Seq(Entry) /\ Len(cache') = Len(cache) + 1
            /\ \A i \in 1 .. Len(cache) : cache'[i] = cache[i]
            /\ cache'[Len(cache) + 1] = [path |-> m.path, value |-> Len(chunks) + 1]
  PROVE  PathInv'
  <1>1. /\ PathTypes /\ RunsHaveChunks /\ CacheIsRight /\ Len(chunks) \in Nat /\ Len(cache) \in Nat
        /\ Runs' = Runs /\ SamePaths /\ Len(chunks) + 1 \in 1 .. Len(chunks')
        /\ chunks'[Len(chunks) + 1] = m
        /\ \A c \in 1 .. Len(chunks') : c \in 1 .. Len(chunks) \/ c = Len(chunks) + 1
    BY PathFacts, ChunkAddedGrows DEF PathInv, Runs, ChunkAdded
  <1>2. PathTypes'
    <2>1. cache' \in Seq(Entry) /\ value' \in Nat
      BY <1>1 DEF PathTypes, Nothing
    <2> QED BY <1>1, <2>1 DEF PathTypes, ChunkAdded
  <1>3. RunsHaveChunks'
    <2>1. \A p \in Paths \ Binary : Cached(p)' => Cached(p)
      <3> SUFFICES ASSUME NEW p \in Paths \ Binary, NEW i \in 1 .. Len(cache'), cache'[i].path = p
                   PROVE  Cached(p)
        BY DEF Cached
      <3>1. UNCHANGED cache \/ i \in 1 .. Len(cache) \/ cache'[i].path = m.path
        BY <1>1
      <3>2. CASE UNCHANGED cache
        BY <3>2 DEF Cached
      <3>3. CASE ~UNCHANGED cache
        BY <3>1, <3>3 DEF Cached
      <3> QED BY <3>2, <3>3
    <2>2. \A i \in Runs : chunks'[runs[i].chunk].live
      BY ModulesStay
    <2>3. mode' = "host" => runs' = <<>>
      BY <1>1 DEF RunsHaveChunks
    <2>4. mode' \in {"code", "native"} => runs' # <<>>
      BY <1>1 DEF RunsHaveChunks
    <2> QED BY <1>1, <2>1, <2>2, <2>3, <2>4, RunsStay
  <1>4. CacheIsRight'
    <2>1. \A i \in 1 .. Len(cache) : /\ chunks'[cache[i].value].live
                                     /\ \A j \in Runs' : runs'[j].chunk # cache[i].value
      BY <1>1, ModulesStay
    <2>2. \A c \in 1 .. Len(chunks') :
             chunks'[c].path # Text /\ chunks'[c].live /\ chunks'[c].path \notin Binary =>
               \/ \E i \in Runs' : runs'[i].chunk = c
               \/ c \in 1 .. Len(chunks) /\ InCache(c)
      BY <1>1, ModulesStay
    <2>3. CASE UNCHANGED cache /\ value' \in {value, Nothing}
      BY <1>1, <2>1, <2>2, <2>3, CacheStays
    <2>4. CASE /\ UNCHANGED reentered /\ m.live /\ ~Cached(m.path)
               /\ value' = Len(chunks) + 1 /\ Len(cache') = Len(cache) + 1
               /\ \A i \in 1 .. Len(cache) : cache'[i] = cache[i]
               /\ cache'[Len(cache) + 1] = [path |-> m.path, value |-> Len(chunks) + 1]
      <3>1. PICK v : v = Len(chunks) + 1
        OBVIOUS
      <3>2. /\ v \in 1 .. Len(chunks') /\ chunks'[v] = m /\ v \notin 1 .. Len(chunks)
            /\ value' = v
            /\ cache'[Len(cache) + 1] = [path |-> chunks'[v].path, value |-> v]
        BY <1>1, <2>4, <3>1
      <3>3. \A j \in Runs' : runs'[j].chunk # v
        BY <1>1, <3>2, ModulesStay
      <3>4. chunks'[v].live /\ (Cached(chunks'[v].path) => chunks'[v].path \in reentered)
        BY <2>4, <3>2
      <3> QED BY <1>1, <2>1, <2>2, <2>4, <3>2, <3>3, <3>4, CacheAppended
    <2> QED BY <2>3, <2>4
  <1> QED BY <1>2, <1>3, <1>4 DEF PathInv

-----------------------------------------------------------------------------
(* A vm_run is entered.                                                    *)

\* What a program, an include and an eval know when they enter one.
MayEnter(kind, m, sandbox) ==
    /\ m.live /\ reentered \subseteq reentered'
    /\ \/ kind = "program" /\ mode = "host" /\ ~sandbox /\ m.path = Text
       \/ /\ kind = "include" /\ mode = "code" /\ ~sandbox
          /\ m.path \in Paths \ Binary /\ ~Cached(m.path)
          /\ Executing(m.path) => m.path \in reentered'
       \/ kind = "eval" /\ mode = "code" /\ m.path = Text

LEMMA RunAppended ==
  ASSUME NEW R, runs \in Seq(R), NEW r
  PROVE  /\ \E S : Append(runs, r) \in Seq(S)
         /\ Len(Append(runs, r)) = Len(runs) + 1 /\ Append(runs, r)[Len(runs) + 1] = r
         /\ \A i \in Runs : Append(runs, r)[i] = runs[i]
  <1>1. runs \in Seq(R \cup {r})
    <2>1. Len(runs) \in Nat /\ \A i \in 1 .. Len(runs) : runs[i] \in R \cup {r}
      BY SeqFacts
    <2>2. runs = [i \in 1 .. Len(runs) |-> runs[i]]
      BY LenProperties
    <2> QED BY <2>1, <2>2, IsASeq
  <1>2. r \in R \cup {r}
    OBVIOUS
  <1> QED BY <1>1, <1>2, AppendFacts DEF Runs

LEMMA EnteredPath ==
  ASSUME PathInv, NEW kind \in {"program", "include", "eval"}, NEW sandbox \in BOOLEAN,
         NEW m \in Chunk, EnterRun(kind, m, sandbox), MayEnter(kind, m, sandbox)
  PROVE  PathInv'
  <1> DEFINE n == Len(runs) + 1
             c == Len(chunks) + 1
  <1>1. /\ PathTypes /\ RunsHaveChunks /\ CacheIsRight /\ Len(chunks) \in Nat /\ Len(runs) \in Nat
        /\ (runs = <<>> <=> Len(runs) = 0) /\ Len(cache) \in Nat
        /\ m.live /\ reentered \subseteq reentered' /\ UNCHANGED <<cache, value, given>> /\ mode' = "code"
    BY PathFacts DEF PathInv, EnterRun, MayEnter
  <1>2. ChunkAdded(m)
    <2>1. chunks' = Append(chunks, m)
      BY DEF EnterRun
    <2> QED BY <1>1, <2>1, AppendedChunk
  <1>3. /\ SamePaths /\ c \in 1 .. Len(chunks') /\ chunks'[c] = m /\ c \notin 1 .. Len(chunks)
        /\ \A d \in 1 .. Len(chunks') : d \in 1 .. Len(chunks) \/ d = c
        /\ \A d \in 1 .. Len(chunks) : chunks'[d] = chunks[d] /\ d \in 1 .. Len(chunks')
    BY <1>1, <1>2, ChunkAddedGrows DEF ChunkAdded, SamePaths
  <1>4. /\ \E S : runs' \in Seq(S)
        /\ Len(runs') = n /\ \A i \in Runs : runs'[i] = runs[i]
        /\ runs'[n].kind = kind /\ runs'[n].chunk = c
    <2> DEFINE r == [kind |-> kind, chunk |-> c, stop |-> Len(frames), saved_stop |-> eval_stop,
                     sandbox |-> sandbox, saved_globals |-> globals]
    <2>1. runs' = Append(runs, r)
      BY DEF EnterRun
    <2>2. r.kind = kind /\ r.chunk = c
      OBVIOUS
    <2> HIDE DEF r, c
    <2>3. \E R : runs \in Seq(R)
      BY <1>1 DEF PathTypes
    <2>4. /\ \E S : Append(runs, r) \in Seq(S)
          /\ Len(Append(runs, r)) = Len(runs) + 1 /\ Append(runs, r)[Len(runs) + 1] = r
          /\ \A i \in Runs : Append(runs, r)[i] = runs[i]
      BY <2>3, RunAppended
    <2> QED BY <2>1, <2>2, <2>4
  <1>5. /\ \A i \in Runs' : i \in Runs \/ i = n
        /\ \A i \in Runs : i \in Runs' /\ i # n /\ runs'[i] = runs[i]
        /\ n \in Runs' /\ runs' # <<>> /\ (n = 1 <=> runs = <<>>)
    <2>1. Runs' = 1 .. n
      BY <1>4 DEF Runs
    <2>2. runs' # <<>>
      <3>1. \A S : runs' \in Seq(S) => (runs' = <<>> <=> Len(runs') = 0)
        BY SeqFacts
      <3> QED BY <1>1, <1>4, <3>1
    <2> QED BY <1>1, <1>4, <2>1, <2>2 DEF Runs
  <1> HIDE DEF n, c
  <1>6. /\ kind = "program" <=> runs = <<>>
        /\ kind = "include" <=> m.path # Text
        /\ kind = "include" => /\ m.path \notin Binary /\ ~Cached(m.path)
                               /\ Executing(m.path) => m.path \in reentered'
    BY <1>1, LoadingAssumption DEF RunsHaveChunks, MayEnter
  <1>7. PathTypes'
    BY <1>1, <1>2, <1>4 DEF PathTypes, ChunkAdded
  <1>8. \A i \in Runs : /\ runs[i].chunk \in 1 .. Len(chunks)
                        /\ chunks'[runs[i].chunk] = chunks[runs[i].chunk]
                        /\ runs[i].chunk # c
    BY <1>1, <1>3 DEF RunsHaveChunks
  <1>9. ASSUME NEW i \in Runs'
        PROVE  /\ runs'[i].kind = "program" <=> i = 1
               /\ runs'[i].chunk \in 1 .. Len(chunks') /\ chunks'[runs'[i].chunk].live
               /\ runs'[i].kind = "include" <=> chunks'[runs'[i].chunk].path # Text
               /\ chunks'[runs'[i].chunk].path # Text =>
                    /\ chunks'[runs'[i].chunk].path \notin Binary
                    /\ Cached(chunks'[runs'[i].chunk].path) =>
                         chunks'[runs'[i].chunk].path \in reentered'
    <2>1. CASE i \in Runs
      <3>1. runs'[i] = runs[i] /\ chunks'[runs[i].chunk] = chunks[runs[i].chunk]
            /\ runs[i].chunk \in 1 .. Len(chunks')
        BY <1>3, <1>5, <1>8, <2>1
      <3>2. /\ runs[i].kind = "program" <=> i = 1
            /\ chunks[runs[i].chunk].live
            /\ runs[i].kind = "include" <=> chunks[runs[i].chunk].path # Text
            /\ chunks[runs[i].chunk].path # Text =>
                 /\ chunks[runs[i].chunk].path \notin Binary
                 /\ Cached(chunks[runs[i].chunk].path) => chunks[runs[i].chunk].path \in reentered
        BY <1>1, <2>1 DEF RunsHaveChunks, Loaded
      <3> QED BY <1>1, <3>1, <3>2
    <2>2. CASE i = n
      BY <1>1, <1>3, <1>4, <1>5, <1>6, <2>2
    <2> QED BY <1>5, <2>1, <2>2
  <1>10. ASSUME NEW i \in Runs', NEW j \in Runs', i # j
         PROVE  /\ runs'[i].chunk # runs'[j].chunk
                /\ chunks'[runs'[i].chunk].path # Text
                   /\ chunks'[runs'[i].chunk].path = chunks'[runs'[j].chunk].path =>
                     chunks'[runs'[i].chunk].path \in reentered'
    <2>1. CASE i \in Runs /\ j \in Runs
      <3>1. /\ runs'[i] = runs[i] /\ chunks'[runs[i].chunk] = chunks[runs[i].chunk]
            /\ runs'[j] = runs[j] /\ chunks'[runs[j].chunk] = chunks[runs[j].chunk]
        BY <1>5, <1>8, <2>1
      <3>2. /\ runs[i].chunk # runs[j].chunk
            /\ chunks[runs[i].chunk].path # Text
               /\ chunks[runs[i].chunk].path = chunks[runs[j].chunk].path =>
                 chunks[runs[i].chunk].path \in reentered
        BY <1>1, <1>10, <2>1 DEF RunsHaveChunks, Loaded
      <3> QED BY <1>1, <3>1, <3>2
    <2>2. ASSUME NEW l \in Runs
          PROVE  /\ runs'[l].chunk # c /\ m.path # Text /\ chunks'[runs'[l].chunk].path = m.path =>
                      m.path \in reentered'
      <3>1. /\ runs'[l] = runs[l] /\ chunks'[runs[l].chunk] = chunks[runs[l].chunk]
            /\ runs[l].chunk # c
            /\ runs[l].kind = "include" <=> chunks[runs[l].chunk].path # Text
        BY <1>1, <1>5, <1>8 DEF RunsHaveChunks, Loaded
      <3>2. m.path # Text /\ chunks[runs[l].chunk].path = m.path => Executing(m.path)
        BY <3>1 DEF Executing, Runs
      <3> QED BY <1>6, <3>1, <3>2
    <2>3. \A l \in Runs : runs'[l].chunk # c
      BY <1>5, <1>8
    <2>4. runs'[n].chunk = c /\ chunks'[runs'[n].chunk] = m
      BY <1>3, <1>4
    <2>5. CASE i \in Runs /\ j = n
      BY <2>2, <2>3, <2>4, <2>5
    <2>6. CASE i = n /\ j \in Runs
      BY <2>2, <2>3, <2>4, <2>6
    <2> QED BY <1>5, <1>10, <2>1, <2>5, <2>6
  <1>11. RunsHaveChunks'
    <2>1. \A i : Cached(chunks[runs[i].chunk].path)' <=> Cached(chunks'[runs'[i].chunk].path)
      BY <1>1 DEF Cached
    <2> QED BY <1>1, <1>5, <1>9, <1>10, <2>1 DEF RunsHaveChunks, Loaded
  <1>12. CacheIsRight'
    <2>1. \A i \in 1 .. Len(cache) : /\ chunks'[cache[i].value].live
                                     /\ \A j \in Runs' : runs'[j].chunk # cache[i].value
      <3>1. \A i \in 1 .. Len(cache) : /\ chunks'[cache[i].value].live
                                       /\ cache[i].value # c
                                       /\ \A j \in Runs : runs'[j].chunk # cache[i].value
        BY <1>2, <1>3, <1>5, ModulesStay
      <3> QED BY <1>4, <1>5, <3>1
    <2>2. ASSUME NEW d \in 1 .. Len(chunks'), chunks'[d].path # Text, chunks'[d].live,
                 chunks'[d].path \notin Binary
          PROVE  \/ \E i \in Runs' : runs'[i].chunk = d
                 \/ d \in 1 .. Len(chunks) /\ InCache(d)
      <3>1. CASE d = c
        BY <1>4, <1>5, <3>1
      <3>2. CASE d \in 1 .. Len(chunks)
        <4>1. (\E i \in Runs : runs[i].chunk = d) \/ InCache(d)
          BY <1>2, <2>2, <3>2, ModulesStay
        <4> QED BY <1>5, <3>2, <4>1
      <3> QED BY <1>3, <3>1, <3>2
    <2> QED BY <1>1, <1>3, <2>1, <2>2, CacheStays
  <1> QED BY <1>7, <1>11, <1>12 DEF PathInv

-----------------------------------------------------------------------------
(* A vm_run is left.                                                       *)

\* What becomes of the chunks and the cache when one is.
LEMMA ChunksLeft ==
  ASSUME PathInv, runs # <<>>, NEW result, NEW depth, RunEnds(result, depth)
  PROVE  /\ Len(runs) \in Nat \ {0} /\ Len(runs) \in Runs /\ run = runs[Len(runs)]
         /\ run.chunk \in 1 .. Len(chunks) /\ chunks[run.chunk].live
         /\ run.kind = "program" <=> Len(runs) = 1
         /\ run.kind = "include" <=> Loaded(run.chunk)
         /\ Len(chunks) \in Nat /\ Len(cache) \in Nat
         /\ \E R : runs' \in Seq(R)
         /\ Len(runs') = Len(runs) - 1 /\ Runs' = 1 .. Len(runs) - 1
         /\ \A i \in Runs' : i \in Runs /\ i # Len(runs) /\ i < Len(runs) /\ runs'[i] = runs[i]
                             /\ runs[i].chunk # run.chunk
         /\ \A i \in Runs : i \in Runs' \/ i = Len(runs)
         /\ chunks' \in Seq(Chunk) /\ Len(chunks') = Len(chunks)
         /\ \A c \in 1 .. Len(chunks) :
              /\ chunks'[c].path = chunks[c].path /\ chunks'[c].dir = chunks[c].dir
              /\ c # run.chunk \/ KeepsModule(result) => chunks'[c] = chunks[c]
         /\ ~KeepsModule(result) => ~chunks'[run.chunk].live /\ UNCHANGED cache
         /\ KeepsModule(result) =>
              /\ value' = run.chunk /\ UNCHANGED chunks
              /\ cache' \in Seq(Entry) /\ Len(cache') = Len(cache) + 1
              /\ \A i \in 1 .. Len(cache) : cache'[i] = cache[i]
              /\ cache'[Len(cache) + 1] = [path |-> chunks[run.chunk].path, value |-> run.chunk]
  <1>1. /\ PathTypes /\ RunsHaveChunks /\ Len(chunks) \in Nat /\ Len(cache) \in Nat
        /\ run = runs[Len(runs)] /\ Len(runs) \in Nat \ {0}
        /\ chunks \in Seq(Chunk) /\ cache \in Seq(Entry)
    BY PathFacts DEF PathInv, PathTypes
  <1>2. Len(runs) \in Runs
    BY <1>1 DEF Runs
  <1>3. /\ run.chunk \in 1 .. Len(chunks) /\ chunks[run.chunk].live
        /\ run.kind = "program" <=> Len(runs) = 1
        /\ run.kind = "include" <=> Loaded(run.chunk)
    BY <1>1, <1>2 DEF RunsHaveChunks
  <1>4. /\ \E R : runs' \in Seq(R)
        /\ Len(runs') = Len(runs) - 1 /\ \A i \in 1 .. Len(runs) - 1 : runs'[i] = runs[i]
    <2>1. PICK R : runs \in Seq(R)
      BY <1>1 DEF PathTypes
    <2>2. /\ Front(runs) \in Seq(R) /\ Len(Front(runs)) = Len(runs) - 1
          /\ \A i \in 1 .. Len(Front(runs)) : Front(runs)[i] = runs[i]
      BY <2>1, FrontFacts
    <2>3. runs' = Front(runs)
      BY DEF RunEnds
    <2> QED BY <2>2, <2>3
  <1>5. /\ Runs' = 1 .. Len(runs) - 1
        /\ \A i \in Runs' : i \in Runs /\ i # Len(runs) /\ i < Len(runs) /\ runs'[i] = runs[i]
        /\ \A i \in Runs : i \in Runs' \/ i = Len(runs)
    BY <1>1, <1>4 DEF Runs
  <1>6. \A i \in Runs' : runs[i].chunk # run.chunk
    BY <1>1, <1>2, <1>5 DEF RunsHaveChunks
  <1>7. /\ KeepsModule(result) => /\ value' = run.chunk /\ UNCHANGED chunks
                                  /\ cache' = Append(cache, [path |-> chunks[run.chunk].path,
                                                             value |-> run.chunk])
        /\ ~KeepsModule(result) => /\ UNCHANGED cache
                                   /\ chunks' = [chunks EXCEPT ![run.chunk].live = FALSE]
    BY DEF RunEnds
  <1>8. KeepsModule(result) =>
          /\ cache' \in Seq(Entry) /\ Len(cache') = Len(cache) + 1
          /\ \A i \in 1 .. Len(cache) : cache'[i] = cache[i]
          /\ cache'[Len(cache) + 1] = [path |-> chunks[run.chunk].path, value |-> run.chunk]
    <2> SUFFICES ASSUME KeepsModule(result)
                 PROVE  /\ cache' \in Seq(Entry) /\ Len(cache') = Len(cache) + 1
                        /\ \A i \in 1 .. Len(cache) : cache'[i] = cache[i]
                        /\ cache'[Len(cache) + 1] = [path |-> chunks[run.chunk].path,
                                                     value |-> run.chunk]
      OBVIOUS
    <2> DEFINE entry == [path |-> chunks[run.chunk].path, value |-> run.chunk]
    <2>1. entry \in Entry
      <3>1. chunks[run.chunk] \in Chunk /\ Loaded(run.chunk)
        BY <1>1, <1>3, SeqFacts DEF KeepsModule
      <3> QED BY <1>3, <3>1 DEF Entry, Chunk, Loaded
    <2>2. cache' = Append(cache, entry)
      BY <1>7
    <2> HIDE DEF entry
    <2>3. /\ cache' \in Seq(Entry) /\ Len(cache') = Len(cache) + 1
          /\ \A i \in 1 .. Len(cache) : cache'[i] = cache[i]
          /\ cache'[Len(cache) + 1] = entry
      BY <1>1, <2>1, <2>2, AppendFacts
    <2> QED BY <2>3 DEF entry
  <1>9. /\ chunks' \in Seq(Chunk) /\ Len(chunks') = Len(chunks)
        /\ \A c \in 1 .. Len(chunks) :
             /\ chunks'[c].path = chunks[c].path /\ chunks'[c].dir = chunks[c].dir
             /\ c # run.chunk \/ KeepsModule(result) => chunks'[c] = chunks[c]
        /\ ~KeepsModule(result) => ~chunks'[run.chunk].live
    <2> DEFINE freed == [chunks[run.chunk] EXCEPT !.live = FALSE]
    <2>1. freed \in Chunk /\ ~freed.live /\ freed.path = chunks[run.chunk].path
          /\ freed.dir = chunks[run.chunk].dir
      <3>1. chunks[run.chunk] \in Chunk
        BY <1>1, <1>3, SeqFacts
      <3> QED BY <3>1 DEF Chunk
    <2>2. [chunks EXCEPT ![run.chunk].live = FALSE] = [chunks EXCEPT ![run.chunk] = freed]
      OBVIOUS
    <2> HIDE DEF freed
    <2>3. \A t : t = [chunks EXCEPT ![run.chunk] = freed] =>
            /\ t \in Seq(Chunk) /\ Len(t) = Len(chunks)
            /\ \A c \in 1 .. Len(chunks) : t[c] = IF c = run.chunk THEN freed ELSE chunks[c]
      BY <1>1, <1>3, <2>1, ExceptFacts
    <2>4. CASE KeepsModule(result)
      BY <1>1, <1>7, <2>4
    <2>5. CASE ~KeepsModule(result)
      <3>1. /\ chunks' \in Seq(Chunk) /\ Len(chunks') = Len(chunks)
            /\ \A c \in 1 .. Len(chunks) : chunks'[c] = IF c = run.chunk THEN freed ELSE chunks[c]
        BY <1>7, <2>2, <2>3, <2>5
      <3> QED BY <1>3, <2>1, <2>5, <3>1
    <2> QED BY <2>4, <2>5
  <1> QED BY <1>1, <1>2, <1>3, <1>4, <1>5, <1>6, <1>7, <1>8, <1>9

LEMMA LeftPath ==
  ASSUME PathInv, runs # <<>>, NEW result, NEW depth, RunEnds(result, depth), UNCHANGED given
  PROVE  PathInv'
  <1> DEFINE v == run.chunk
  <1>1. /\ PathTypes /\ RunsHaveChunks /\ CacheIsRight /\ SamePaths /\ UNCHANGED <<reentered, given>>
    BY ChunksLeft DEF PathInv, SamePaths, RunEnds
  <1>2. /\ Len(runs) \in Nat \ {0} /\ Len(runs) \in Runs /\ run = runs[Len(runs)]
        /\ v \in 1 .. Len(chunks) /\ chunks[v].live
        /\ run.kind = "program" <=> Len(runs) = 1
        /\ run.kind = "include" <=> Loaded(v)
        /\ Len(chunks) \in Nat /\ Len(cache) \in Nat
        /\ \E R : runs' \in Seq(R)
        /\ Len(runs') = Len(runs) - 1 /\ Runs' = 1 .. Len(runs) - 1
        /\ \A i \in Runs' : i \in Runs /\ i # Len(runs) /\ runs'[i] = runs[i] /\ runs[i].chunk # v
        /\ \A i \in Runs : i \in Runs' \/ i = Len(runs)
        /\ chunks' \in Seq(Chunk) /\ Len(chunks') = Len(chunks)
        /\ \A c \in 1 .. Len(chunks) :
              /\ chunks'[c].path = chunks[c].path
              /\ c # v \/ KeepsModule(result) => chunks'[c] = chunks[c]
        /\ ~KeepsModule(result) => ~chunks'[v].live /\ UNCHANGED cache
        /\ KeepsModule(result) =>
              /\ value' = v /\ UNCHANGED chunks
              /\ cache' \in Seq(Entry) /\ Len(cache') = Len(cache) + 1
              /\ \A i \in 1 .. Len(cache) : cache'[i] = cache[i]
              /\ cache'[Len(cache) + 1] = [path |-> chunks[v].path, value |-> v]
    BY ChunksLeft
  <1>3. ~KeepsModule(result) => value' = Nothing \/ (value' = v /\ ~Loaded(v))
    <2>1. ~KeepsModule(result) => value' = Nothing \/ (value' = v /\ run.kind = "eval")
      BY DEF RunEnds
    <2> QED BY <1>2, <2>1
  <1> HIDE DEF v
  <1>4. PathTypes'
    <2>1. value' \in Nat /\ cache' \in Seq(Entry)
      BY <1>1, <1>2, <1>3 DEF PathTypes, Nothing
    <2> QED BY <1>2, <2>1 DEF PathTypes
  <1>5. \A i \in Runs' : chunks'[runs[i].chunk].live
    <2> SUFFICES ASSUME NEW i \in Runs'
                 PROVE  chunks'[runs[i].chunk].live
      OBVIOUS
    <2>1. runs[i].chunk \in 1 .. Len(chunks) /\ chunks[runs[i].chunk].live
      BY <1>1, <1>2 DEF RunsHaveChunks
    <2> QED BY <1>2, <2>1
  <1>6. RunsHaveChunks'
    <2>1. ASSUME NEW i \in Runs', NEW p \in Paths \ Binary, p = chunks[runs[i].chunk].path, Cached(p)'
          PROVE  Cached(p) \/ p \in reentered
      <3>1. CASE ~KeepsModule(result)
        BY <1>2, <2>1, <3>1 DEF Cached
      <3>2. CASE KeepsModule(result)
        <4>1. PICK j \in 1 .. Len(cache') : cache'[j].path = p
          BY <2>1 DEF Cached
        <4>2. j \in 1 .. Len(cache) \/ j = Len(cache) + 1
          BY <1>2, <3>2
        <4>3. CASE j \in 1 .. Len(cache)
          BY <1>2, <3>2, <4>1, <4>3 DEF Cached
        <4>4. CASE j = Len(cache) + 1
          <5>1. p = chunks[runs[Len(runs)].chunk].path
            BY <1>2, <3>2, <4>1, <4>4 DEF v
          <5>2. i \in Runs /\ Len(runs) \in Runs /\ i # Len(runs) /\ Loaded(runs[i].chunk)
            BY <1>2, <2>1, LoadingAssumption DEF Loaded
          <5> QED BY <1>1, <2>1, <5>1, <5>2 DEF RunsHaveChunks
        <4> QED BY <4>2, <4>3, <4>4
      <3> QED BY <3>1, <3>2
    <2>2. runs' = <<>> <=> Len(runs) = 1
      <3>1. \A S : runs' \in Seq(S) => (runs' = <<>> <=> Len(runs') = 0)
        BY SeqFacts
      <3>2. Len(runs') = 0 <=> Len(runs) = 1
        BY <1>2
      <3> QED BY <1>2, <3>1, <3>2
    <2>3. mode' = "host" => run.kind = "program"
      BY DEF RunEnds
    <2>4. mode' \in {"code", "native"} => run.kind # "program"
      BY DEF RunEnds
    <2> QED BY <1>1, <1>2, <1>5, <2>1, <2>2, <2>3, <2>4, RunsStay DEF PathInv
  <1>7. CacheIsRight'
    <2>1. \A i \in 1 .. Len(cache) : /\ chunks'[cache[i].value].live
                                     /\ \A j \in Runs' : runs'[j].chunk # cache[i].value
      <3> SUFFICES ASSUME NEW i \in 1 .. Len(cache)
                   PROVE  /\ chunks'[cache[i].value].live
                          /\ \A j \in Runs' : runs'[j].chunk # cache[i].value
        OBVIOUS
      <3>1. /\ cache[i].value \in 1 .. Len(chunks) /\ chunks[cache[i].value].live
            /\ \A j \in Runs : runs[j].chunk # cache[i].value
        BY <1>1 DEF CacheIsRight
      <3>2. cache[i].value # v
        BY <1>2, <3>1 DEF v
      <3> QED BY <1>2, <3>1, <3>2
    <2>2. ASSUME NEW c \in 1 .. Len(chunks'), chunks'[c].path # Text, chunks'[c].live,
                 chunks'[c].path \notin Binary, c # v
          PROVE  \/ \E i \in Runs' : runs'[i].chunk = c
                 \/ c \in 1 .. Len(chunks) /\ InCache(c)
      <3>1. c \in 1 .. Len(chunks) /\ chunks'[c] = chunks[c]
        BY <1>2, <2>2
      <3>2. (\E i \in Runs : runs[i].chunk = c) \/ InCache(c)
        BY <1>1, <2>2, <3>1 DEF CacheIsRight, Loaded
      <3>3. \A i \in Runs : runs[i].chunk = c => i \in Runs' /\ runs'[i] = runs[i]
        BY <1>2, <2>2 DEF v
      <3> QED BY <3>1, <3>2, <3>3
    <2>3. CASE ~KeepsModule(result)
      <3>1. \/ value' \in {value, Nothing}
            \/ value' \in 1 .. Len(chunks') /\ chunks'[value'].path = Text /\ ~chunks'[value'].live
        BY <1>2, <1>3, <2>3 DEF Loaded
      <3>2. UNCHANGED cache /\ \A c \in 1 .. Len(chunks') : chunks'[c].live => c # v
        BY <1>2, <2>3
      <3>3. \A c \in 1 .. Len(chunks') :
              chunks'[c].path # Text /\ chunks'[c].live /\ chunks'[c].path \notin Binary =>
                \/ \E i \in Runs' : runs'[i].chunk = c
                \/ c \in 1 .. Len(chunks) /\ InCache(c)
        BY <2>2, <3>2
      <3>4. reentered \subseteq reentered' /\ UNCHANGED given /\ SamePaths
        BY <1>1
      <3> QED BY <2>1, <3>1, <3>2, <3>3, <3>4, CacheStays
    <2>4. CASE KeepsModule(result)
      <3>1. PICK w : w = v
        OBVIOUS
      <3>2. /\ w \in 1 .. Len(chunks') /\ chunks'[w].live /\ value' = w /\ Len(cache') = Len(cache) + 1
            /\ \A i \in 1 .. Len(cache) : cache'[i] = cache[i]
            /\ cache'[Len(cache) + 1] = [path |-> chunks'[w].path, value |-> w]
            /\ \A j \in Runs' : runs'[j].chunk # w
        BY <1>2, <2>4, <3>1
      <3>3. Cached(chunks'[w].path) => chunks'[w].path \in reentered
        <4>1. chunks'[w].path = chunks[runs[Len(runs)].chunk].path /\ Loaded(runs[Len(runs)].chunk)
          BY <1>2, <2>4, <3>1 DEF v, KeepsModule
        <4> QED BY <1>1, <1>2, <4>1 DEF RunsHaveChunks
      <3>4. \A c \in 1 .. Len(chunks') :
              chunks'[c].path # Text /\ chunks'[c].live /\ chunks'[c].path \notin Binary =>
                \/ \E i \in Runs' : runs'[i].chunk = c
                \/ c \in 1 .. Len(chunks) /\ InCache(c)
                \/ c = w
        BY <2>2, <3>1
      <3>5. UNCHANGED <<given, reentered>> /\ SamePaths
        BY <1>1
      <3> QED BY <2>1, <3>2, <3>3, <3>4, <3>5, CacheAppended
    <2> QED BY <2>3, <2>4
  <1> QED BY <1>4, <1>6, <1>7 DEF PathInv

-----------------------------------------------------------------------------
(* Every step.                                                             *)

LEMMA HandleErrorPath ==
  ASSUME PathInv, mode \in {"code", "native"}, HandleError
  PROVE  PathInv'
  <1>1. runs # <<>>
    BY DEF PathInv, RunsHaveChunks
  <1>2. CASE tries = <<>>
    BY <1>1, <1>2, LeftPath DEF HandleError
  <1>3. CASE tries # <<>>
    <2>1. UNCHANGED <<chunks, runs, cache, value, given, reentered>> /\ mode' \in {"lost", "code"}
      BY <1>3 DEF HandleError
    <2> QED BY <2>1, PathUntouched
  <1> QED BY <1>2, <1>3

LEMMA ReturnPath ==
  ASSUME PathInv, Return \/ HostHalt
  PROVE  PathInv'
  <1>1. runs # <<>> /\ UNCHANGED given
    BY DEF PathInv, RunsHaveChunks, Return, HostHalt
  <1>2. CASE \E depth : RunEnds("done", depth)
    BY <1>1, <1>2, LeftPath
  <1>3. CASE UNCHANGED <<chunks, runs, cache, value, reentered>> /\ mode' \in {mode, "lost"}
    BY <1>1, <1>3, PathUntouched
  <1> QED BY <1>2, <1>3 DEF Return, HostHalt

LEMMA HostRunPath ==
  ASSUME PathInv, NEW dir \in Dirs \cup {NoDir}, HostRun(dir)
  PROVE  PathInv'
  <1>1. Program(dir) \in Chunk /\ Program(dir).live /\ Program(dir).path = Text
    BY DEF Program, Chunk
  <1>2. PathTypes /\ mode = "host" /\ reentered \subseteq reentered'
    BY DEF HostRun, PathInv
  <1>3. CASE Len(frames) >= FramesMax
    <2>1. PICK m : m = [Program(dir) EXCEPT !.live = FALSE]
      OBVIOUS
    <2>2. m \in Chunk /\ ~m.live
      BY <1>1, <2>1 DEF Chunk
    <2>3. chunks' = Append(chunks, m) /\ UNCHANGED <<runs, cache, value, given, mode>>
      BY <1>3, <2>1 DEF HostRun
    <2>4. ChunkAdded(m)
      BY <1>2, <2>2, <2>3, AppendedChunk
    <2> QED BY <1>2, <2>2, <2>3, <2>4, AddedPath
  <1>4. CASE ~(Len(frames) >= FramesMax)
    <2>1. EnterRun("program", Program(dir), FALSE)
      BY <1>4 DEF HostRun
    <2>2. MayEnter("program", Program(dir), FALSE)
      BY <1>1, <1>2 DEF MayEnter
    <2> QED BY <1>1, <2>1, <2>2, EnteredPath
  <1> QED BY <1>3, <1>4

LEMMA IncludeRunsPath ==
  ASSUME PathInv, NEW name \in Names, IncludeRuns(name)
  PROVE  PathInv'
  <1> DEFINE p == PathOf(name)
             module == [path |-> p, dir |-> DirOf(p), live |-> TRUE]
  <1>1. /\ mode = "code" /\ p \in Paths \ Binary /\ ~Cached(p)
        /\ reentered' = IF Executing(p) THEN reentered \cup {p} ELSE reentered
        /\ IF Len(frames) >= FramesMax
           THEN /\ NativeGives(Nothing)
                /\ chunks' = Append(chunks, [module EXCEPT !.live = FALSE])
                /\ UNCHANGED <<runs, cache, given>>
           ELSE EnterRun("include", module, FALSE)
    BY DEF IncludeRuns
  <1>2. module \in Chunk /\ module.live /\ module.path = p
    BY <1>1, LoadingAssumption DEF Chunk
  <1>3. PathTypes /\ reentered \subseteq reentered' /\ (Executing(p) => p \in reentered')
    BY <1>1 DEF PathInv
  <1> HIDE DEF module, p
  <1>4. CASE Len(frames) >= FramesMax
    <2>1. PICK m : m = [module EXCEPT !.live = FALSE]
      OBVIOUS
    <2>2. m \in Chunk /\ ~m.live
      BY <1>2, <2>1 DEF Chunk
    <2>3. /\ value' \in {value, Nothing} /\ mode' = "native"
          /\ chunks' = Append(chunks, m) /\ UNCHANGED <<runs, cache, given>>
      BY <1>1, <1>4, <2>1 DEF NativeGives
    <2>4. ChunkAdded(m)
      BY <1>3, <2>2, <2>3, AppendedChunk
    <2> QED BY <1>1, <1>3, <2>2, <2>3, <2>4, AddedPath
  <1>5. CASE ~(Len(frames) >= FramesMax)
    <2>1. MayEnter("include", module, FALSE)
      BY <1>1, <1>2, <1>3 DEF MayEnter
    <2> QED BY <1>1, <1>2, <1>5, <2>1, EnteredPath
  <1> QED BY <1>4, <1>5

LEMMA IncludesPath ==
  ASSUME PathInv, NEW name \in Names,
         IncludeFails(name) \/ IncludeCached(name) \/ IncludeBinary(name)
  PROVE  PathInv'
  <1> DEFINE p == PathOf(name)
  <1>1. CASE IncludeFails(name)
    <2>1. /\ mode = "code" /\ mode' \in {"lost", "native"} /\ value' \in {value, Nothing}
          /\ UNCHANGED <<chunks, runs, cache, given, reentered>>
      BY <1>1 DEF IncludeFails, NativeGives
    <2> QED BY <2>1, PathUntouched
  <1>2. CASE IncludeCached(name)
    <2>1. /\ mode = "code" /\ Cached(p) /\ value' = CacheFind(p) /\ mode' = "native"
          /\ UNCHANGED <<chunks, runs, cache, given, reentered>>
      BY <1>2 DEF IncludeCached, NativeGives, history
    <2>2. PICK v : v = CacheFind(p)
      OBVIOUS
    <2>3. v \in 1 .. Len(chunks) /\ InCache(v) /\ v \in Nat
      BY <2>1, <2>2, FoundInCache, PathFacts DEF PathInv
    <2> HIDE DEF p
    <2> QED BY <2>1, <2>2, <2>3, PathKept
  <1>3. CASE IncludeBinary(name)
    <2> DEFINE m == [path |-> p, dir |-> DirOf(p), live |-> TRUE]
               n == Len(chunks) + 1
               entry == [path |-> p, value |-> n]
    <2>1. /\ mode = "code" /\ p \in Binary /\ ~Cached(p)
          /\ chunks' = Append(chunks, m)
          /\ \/ cache' = Append(cache, entry) /\ value' = n
             \/ value' = Nothing /\ UNCHANGED cache
          /\ mode' = "native"
          /\ UNCHANGED <<runs, given, reentered>>
      BY <1>3 DEF IncludeBinary, NativeGives, history
    <2>2. PathTypes /\ Len(chunks) \in Nat /\ cache \in Seq(Entry)
      BY PathFacts DEF PathInv, PathTypes
    <2>3. m \in Chunk /\ m.live /\ m.path = p
      BY <2>1, <2>2, LoadingAssumption DEF Chunk
    <2>4. entry \in Entry
      BY <2>1, <2>2, LoadingAssumption DEF Entry
    <2> HIDE DEF p, m
    <2>5. ChunkAdded(m)
      BY <2>1, <2>2, <2>3, AppendedChunk
    <2>6. cache' = Append(cache, entry) =>
            /\ cache' \in Seq(Entry) /\ Len(cache') = Len(cache) + 1
            /\ \A i \in 1 .. Len(cache) : cache'[i] = cache[i]
            /\ cache'[Len(cache) + 1] = entry
      BY <2>2, <2>4, AppendFacts
    <2>7. entry = [path |-> m.path, value |-> Len(chunks) + 1] /\ n = Len(chunks) + 1
      BY <2>3
    <2> HIDE DEF entry, n
    <2>8. \/ UNCHANGED cache /\ value' \in {value, Nothing}
          \/ /\ UNCHANGED reentered /\ m.path \in Binary /\ m.live /\ ~Cached(m.path)
             /\ value' = Len(chunks) + 1
             /\ cache' \in Seq(Entry) /\ Len(cache') = Len(cache) + 1
             /\ \A i \in 1 .. Len(cache) : cache'[i] = cache[i]
             /\ cache'[Len(cache) + 1] = [path |-> m.path, value |-> Len(chunks) + 1]
      BY <2>1, <2>3, <2>6, <2>7
    <2>9. m.path \in Binary /\ reentered \subseteq reentered'
      BY <2>1, <2>3
    <2> QED BY <2>1, <2>3, <2>5, <2>8, <2>9, AddedPath
  <1> QED BY <1>1, <1>2, <1>3

LEMMA EvalPath ==
  ASSUME PathInv, EvalFails \/ \E sandbox \in BOOLEAN : EvalRuns(sandbox)
  PROVE  PathInv'
  <1>1. CASE EvalFails
    BY <1>1, PathUntouched DEF EvalFails, NativeGives, history
  <1>2. ASSUME NEW sandbox \in BOOLEAN, mode = "code", EnterRun("eval", Program(NoDir), sandbox),
               UNCHANGED history
        PROVE  PathInv'
    <2>1. Program(NoDir) \in Chunk /\ Program(NoDir).live /\ Program(NoDir).path = Text
      BY DEF Program, Chunk
    <2>2. MayEnter("eval", Program(NoDir), sandbox)
      BY <1>2, <2>1 DEF MayEnter, history
    <2> QED BY <1>2, <2>1, <2>2, EnteredPath
  <1> QED BY <1>1, <1>2 DEF EvalRuns

LEMMA NativeReturnPath ==
  ASSUME PathInv, NativeReturn
  PROVE  PathInv'
  <1>1. CASE has_error
    BY <1>1, HandleErrorPath DEF NativeReturn
  <1>2. CASE ~has_error
    <2>1. PICK v : v = IF value # Nothing /\ Loaded(value) THEN value ELSE Nothing
      OBVIOUS
    <2>2. /\ mode = "native" /\ mode' = "code" /\ value' = Nothing
          /\ given' \subseteq given \cup ({v} \ {Nothing})
          /\ UNCHANGED <<chunks, runs, cache, reentered>>
      BY <1>2, <2>1 DEF NativeReturn, history
    <2>3. v \in Nat /\ (v # Nothing => v \in 1 .. Len(chunks) /\ InCache(v))
      <3>1. value \in Nat /\ (value # Nothing =>
                /\ value \in 1 .. Len(chunks)
                /\ InCache(value) \/ (~Loaded(value) /\ ~chunks[value].live))
        BY DEF PathInv, PathTypes, CacheIsRight
      <3>2. CASE value # Nothing /\ Loaded(value)
        BY <2>1, <3>1, <3>2
      <3>3. CASE ~(value # Nothing /\ Loaded(value))
        BY <2>1, <3>3 DEF Nothing
      <3> QED BY <3>2, <3>3
    <2> QED BY <2>2, <2>3, PathKept
  <1> QED BY <1>1, <1>2

LEMMA CallPath ==
  ASSUME PathInv, NEW c, Call(c)
  PROVE  PathInv'
  <1>1. mode = "code"
    BY DEF Call
  <1>2. CASE HandleError
    BY <1>1, <1>2, HandleErrorPath
  <1>3. CASE /\ UNCHANGED <<chunks, runs, cache, value, given, reentered>>
             /\ mode' \in {mode, "lost"}
    BY <1>1, <1>3, PathUntouched
  <1> QED BY <1>2, <1>3 DEF Call, history

LEMMA PathStep ==
  ASSUME PathInv, [Next]_vars
  PROVE  PathInv'
  <1>1. CASE HostParseError \/ TryBegin \/ TryEnd \/ LeaveTry \/ Declare \/ Ended \/ UNCHANGED vars
    <2>1. UNCHANGED <<chunks, runs, cache, value, given, reentered, mode>>
      BY <1>1 DEF HostParseError, TryBegin, TryEnd, LeaveTry, Declare, Ended, vars, history
    <2> QED BY <2>1, PathUntouched
  <1>2. CASE HostHalt \/ Return
    BY <1>2, ReturnPath
  <1>3. CASE \E d \in Dirs \cup {NoDir} : HostRun(d)
    BY <1>3, HostRunPath
  <1>4. CASE Throw
    BY <1>4, HandleErrorPath DEF Throw
  <1>5. CASE \E c \in 1 .. Len(chunks) : Call(c)
    BY <1>5, CallPath
  <1>6. CASE \E n \in Names : IncludeFails(n) \/ IncludeCached(n) \/ IncludeBinary(n)
    BY <1>6, IncludesPath
  <1>7. CASE \E n \in Names : IncludeRuns(n)
    BY <1>7, IncludeRunsPath
  <1>8. CASE EvalFails \/ \E s \in BOOLEAN : EvalRuns(s)
    BY <1>8, EvalPath
  <1>9. CASE NativeReturn
    BY <1>9, NativeReturnPath
  <1> QED BY <1>1, <1>2, <1>3, <1>4, <1>5, <1>6, <1>7, <1>8, <1>9 DEF Next

LEMMA PathInit ==
  ASSUME Init
  PROVE  PathInv
  <1>1. /\ chunks = <<>> /\ runs = <<>> /\ cache = <<>> /\ given = {} /\ value = Nothing
        /\ mode = "host"
    BY DEF Init
  <1>2. \A S : <<>> \in Seq(S) /\ Len(<<>>) = 0
    BY EmptySeq
  <1>3. PathTypes
    BY <1>1, <1>2 DEF PathTypes, Nothing
  <1>4. Runs = {} /\ \A i \in 1 .. 0 : FALSE
    BY <1>1, <1>2 DEF Runs
  <1>5. RunsHaveChunks
    BY <1>1, <1>4 DEF RunsHaveChunks
  <1>6. CacheIsRight
    BY <1>1, <1>2, <1>4 DEF CacheIsRight
  <1> QED BY <1>3, <1>5, <1>6 DEF PathInv

LEMMA PathInvHolds == Spec => []PathInv
  <1>1. Init => PathInv
    BY PathInit
  <1>2. PathInv /\ [Next]_vars => PathInv'
    BY PathStep
  <1> QED BY <1>1, <1>2, PTL DEF Spec

\* One value for each canonical path that is not included while its module
\* runs, whatever the names, the directories and the failures before and
\* whatever else programs do (cache_find and cache_append of
\* source/lib/include.c), and no script module in memory that is neither
\* running nor in the cache.
THEOREM PathsHaveOneValue == Spec => []OneValuePerPath
  <1>1. PathInv => OneValuePerPath
    <2> SUFFICES ASSUME PathInv
                 PROVE  OneValuePerPath
      OBVIOUS
    <2>1. CacheIsRight
      BY DEF PathInv
    <2>2. ASSUME NEW a \in given, NEW b \in given, chunks[a].path = chunks[b].path,
                 chunks[a].path \notin reentered
          PROVE  a = b
      <3>1. PICK i \in 1 .. Len(cache) : cache[i] = [path |-> chunks[a].path, value |-> a]
        BY <2>1 DEF CacheIsRight, InCache
      <3>2. PICK j \in 1 .. Len(cache) : cache[j] = [path |-> chunks[b].path, value |-> b]
        BY <2>1 DEF CacheIsRight, InCache
      <3>3. i = j
        BY <2>1, <2>2, <3>1, <3>2 DEF CacheIsRight
      <3> QED BY <3>1, <3>2, <3>3
    <2>3. \A i, j \in 1 .. Len(cache) :
            cache[i].path = cache[j].path /\ cache[i].path \notin reentered => i = j
      BY <2>1 DEF CacheIsRight
    <2>4. \A c \in 1 .. Len(chunks) :
             (Loaded(c) /\ chunks[c].live /\ chunks[c].path \notin Binary)
               => \/ \E i \in 1 .. Len(runs) : runs[i].chunk = c
                  \/ \E i \in 1 .. Len(cache) : cache[i] = [path |-> chunks[c].path, value |-> c]
      BY <2>1 DEF CacheIsRight, InCache, Runs
    <2> QED BY <2>2, <2>3, <2>4 DEF OneValuePerPath
  <1>2. Spec => []PathInv
    BY PathInvHolds
  <1> QED BY <1>1, <1>2, PTL

-----------------------------------------------------------------------------
(* The vm_run calls, their globals, frames and handlers, as long as no     *)
(* error is caught across a vm_run and no TRY left open.                   *)

Run   == [kind: {"program", "include", "eval"}, chunk: Nat, stop: Nat, saved_stop: Int,
          sandbox: BOOLEAN, saved_globals: Nat]
Frame == [chunk: Nat, top: BOOLEAN, env: Nat]
Env   == [live: BOOLEAN, fns: SUBSET Nat]
Modes == {"host", "code", "native", "lost"}

Types ==
    /\ frames \in Seq(Frame) /\ runs \in Seq(Run) /\ tries \in Seq(Nat) /\ envs \in Seq(Env)
    /\ eval_stop \in Int /\ globals \in Nat /\ has_error \in BOOLEAN /\ mode \in Modes

\* Each vm_run is entered at a greater depth than the one around it.
RunsNest ==
    /\ \A i \in Runs : /\ runs[i].saved_stop = IF i <= 2 THEN NoStop ELSE runs[i - 1].stop
                       /\ i = 1 => ~runs[i].sandbox
    /\ \A i, j \in Runs : i < j => runs[i].stop < runs[j].stop
    /\ eval_stop = IF Len(runs) <= 1 THEN NoStop ELSE run.stop

\* The globals the i-th vm_run began with; the host's for 0.
EnvOf(i) == IF i = Len(runs) THEN globals ELSE runs[i + 1].saved_globals

\* A sandbox has globals that are newer than all around it.
GlobalsNest ==
    /\ EnvOf(0) = 1
    /\ \A i \in 0 .. Len(runs) : EnvOf(i) \in 1 .. Len(envs) /\ envs[EnvOf(i)].live
    /\ \A i, j \in 0 .. Len(runs) : i <= j => EnvOf(i) <= EnvOf(j)
    /\ \A i \in 0 .. Len(runs), j \in Runs : i < j /\ runs[j].sandbox => EnvOf(i) < EnvOf(j)
    /\ \A j \in Runs : ~runs[j].sandbox => EnvOf(j - 1) = EnvOf(j)

\* Handlers are those of the program that runs, older ones below newer ones.
TriesNest ==
    /\ left = {}
    /\ \A i, j \in 1 .. Len(tries) : i <= j => tries[i] <= tries[j]
    /\ \A i \in 1 .. Len(tries) :
         runs # <<>> /\ runs[1].stop < tries[i] /\ tries[i] <= Len(frames)

\* An error no handler takes is on its way out of every vm_run.
Doomed == has_error /\ tries = <<>> /\ mode = "native"

\* The frames of each vm_run lie on those of the one around it, the lowest its
\* own and the others of functions; they have its globals.
FramesFit ==
    /\ \A i \in Runs :
         /\ runs[i].stop < Len(frames)
         /\ frames[runs[i].stop + 1].top /\ frames[runs[i].stop + 1].chunk = runs[i].chunk
         /\ \A k \in runs[i].stop + 1 .. Len(frames) :
              i = Len(runs) \/ k <= runs[i + 1].stop => frames[k].env = EnvOf(i)
    /\ runs # <<>> => \A k \in runs[1].stop + 1 .. Len(frames) :
         frames[k].top => \E i \in Runs : k = runs[i].stop + 1

LoadInv == Types /\ RunsNest /\ GlobalsNest /\ TriesNest /\ (~Doomed => FramesFit)

LEMMA StateFacts ==
  ASSUME Types
  PROVE  /\ Len(frames) \in Nat /\ \A k \in 1 .. Len(frames) : frames[k] \in Frame
         /\ Len(runs) \in Nat /\ \A i \in Runs : runs[i] \in Run /\ runs[i].stop \in Nat
         /\ Len(tries) \in Nat /\ \A i \in 1 .. Len(tries) : tries[i] \in Nat
         /\ Len(envs) \in Nat /\ \A e \in 1 .. Len(envs) : envs[e] \in Env
         /\ runs = <<>> <=> Len(runs) = 0
         /\ tries = <<>> <=> Len(tries) = 0
         /\ run = runs[Len(runs)] /\ top = frames[Len(frames)] /\ Last(tries) = tries[Len(tries)]
  <1>1. \A i \in Runs : runs[i] \in Run
    BY SeqFacts DEF Types, Runs
  <1>2. \A i \in Runs : runs[i].stop \in Nat
    BY <1>1 DEF Run
  <1> QED BY <1>1, <1>2, SeqFacts DEF Types, run, top, Last

\* Steps within one vm_run.
SameRuns == /\ UNCHANGED <<runs, eval_stop, globals>>
            /\ Len(envs') = Len(envs)
            /\ \A e \in 1 .. Len(envs) : envs'[e].live = envs[e].live

LEMMA SameRunsKeep ==
  ASSUME RunsNest, GlobalsNest, SameRuns
  PROVE  RunsNest' /\ GlobalsNest' /\ (\A i : EnvOf(i)' = EnvOf(i)) /\ Runs' = Runs
  <1>1. (\A i : EnvOf(i)' = EnvOf(i)) /\ Runs' = Runs /\ run' = run
    BY DEF EnvOf, SameRuns, Runs, run
  <1>2. RunsNest'
    BY <1>1 DEF RunsNest, SameRuns
  <1>3. GlobalsNest'
    BY <1>1 DEF GlobalsNest, SameRuns
  <1> QED BY <1>1, <1>2, <1>3

LEMMA InnerStep ==
  ASSUME LoadInv, SameRuns, Types', TriesNest', FramesFit'
  PROVE  LoadInv'
  BY SameRunsKeep DEF LoadInv

\* Steps that touch neither frames nor handlers.
LEMMA QuietKeeps ==
  ASSUME LoadInv, SameRuns, UNCHANGED <<frames, tries, left>>, Doomed => Doomed',
         envs' \in Seq(Env), has_error' \in BOOLEAN, mode' \in Modes
  PROVE  LoadInv'
  <1>1. RunsNest' /\ GlobalsNest' /\ (\A i : EnvOf(i)' = EnvOf(i)) /\ Runs' = Runs
    BY SameRunsKeep DEF LoadInv
  <1>2. Types'
    BY DEF LoadInv, Types, SameRuns
  <1>3. TriesNest'
    BY DEF LoadInv, TriesNest, SameRuns
  <1>4. FramesFit => FramesFit'
    BY <1>1 DEF FramesFit, SameRuns
  <1> QED BY <1>1, <1>2, <1>3, <1>4 DEF LoadInv

LEMMA EnvsUntouched ==
  ASSUME UNCHANGED <<runs, eval_stop, globals, envs>>
  PROVE  SameRuns
  BY DEF SameRuns

\* What the running code can rely on.
LEMMA InCode ==
  ASSUME LoadInv, PathInv, mode = "code"
  PROVE  /\ ~Doomed /\ FramesFit
         /\ runs # <<>> /\ Len(runs) \in Runs /\ 1 \in Runs /\ run = runs[Len(runs)]
         /\ run.stop \in Nat /\ runs[1].stop \in Nat /\ runs[1].stop <= run.stop
         /\ run.stop < Len(frames)
         /\ Len(frames) \in Nat \ {0} /\ top = frames[Len(frames)] /\ Len(runs) \in Nat \ {0}
         /\ top.env = globals /\ globals \in 1 .. Len(envs) /\ envs[globals].live
  <1>1. ~Doomed /\ FramesFit
    BY DEF LoadInv, Doomed
  <1>2. /\ Len(frames) \in Nat /\ Len(runs) \in Nat /\ \A i \in Runs : runs[i].stop \in Nat
        /\ runs = <<>> <=> Len(runs) = 0
        /\ run = runs[Len(runs)] /\ top = frames[Len(frames)]
    BY StateFacts DEF LoadInv
  <1>3. runs # <<>> /\ Len(runs) \in Runs /\ 1 \in Runs
    BY <1>2 DEF PathInv, RunsHaveChunks, Runs
  <1>4. run.stop \in Nat /\ runs[1].stop \in Nat /\ run.stop < Len(frames)
    BY <1>1, <1>2, <1>3 DEF FramesFit
  <1>5. runs[1].stop <= run.stop
    <2>1. 1 = Len(runs) \/ 1 < Len(runs)
      <3>1. \A n \in Nat : n = 0 \/ 1 = n \/ 1 < n
        OBVIOUS
      <3> QED BY <1>2, <1>3, <3>1
    <2>2. CASE 1 < Len(runs)
      BY <1>2, <1>3, <1>4, <2>2 DEF LoadInv, RunsNest
    <2> QED BY <1>2, <1>4, <2>1, <2>2
  <1>6. EnvOf(Len(runs)) = globals
    BY DEF EnvOf
  <1>7. globals \in 1 .. Len(envs) /\ envs[globals].live
    <2>1. Len(runs) \in 0 .. Len(runs)
      BY <1>2
    <2> QED BY <1>6, <2>1 DEF LoadInv, GlobalsNest
  <1>8. top.env = globals
    <2>1. Len(frames) \in run.stop + 1 .. Len(frames)
      BY <1>2, <1>4
    <2> QED BY <1>1, <1>2, <1>3, <1>6, <2>1 DEF FramesFit
  <1>9. Len(frames) \in Nat \ {0} /\ Len(runs) \in Nat \ {0}
    BY <1>2, <1>3, <1>4
  <1> QED BY <1>1, <1>2, <1>3, <1>4, <1>5, <1>7, <1>8, <1>9

\* Fewer frames, but not so few that a vm_run loses its own.
LEMMA FramesCut ==
  ASSUME Types, RunsNest, GlobalsNest, FramesFit, SameRuns, NEW n \in Nat, n <= Len(frames),
         runs # <<>> => run.stop < n,
         Len(frames') = n, \A k \in 1 .. n : frames'[k] = frames[k]
  PROVE  FramesFit'
  <1>1. /\ Len(frames) \in Nat /\ Len(runs) \in Nat /\ \A i \in Runs : runs[i].stop \in Nat
        /\ runs = <<>> <=> Len(runs) = 0
        /\ run = runs[Len(runs)]
    BY StateFacts
  <1>2. runs' = runs /\ Runs' = Runs /\ \A i : EnvOf(i)' = EnvOf(i)
    BY SameRunsKeep DEF SameRuns
  <1>3. \A i \in Runs : runs[i].stop < n
    <2>1. \A i \in Runs : (i = Len(runs) \/ i < Len(runs)) /\ Len(runs) \in Runs /\ runs # <<>>
      BY <1>1 DEF Runs
    <2> QED BY <1>1, <2>1 DEF RunsNest
  <1>4. ASSUME NEW i \in Runs
        PROVE  /\ runs[i].stop < n
               /\ frames'[runs[i].stop + 1].top /\ frames'[runs[i].stop + 1].chunk = runs[i].chunk
               /\ \A k \in runs[i].stop + 1 .. n :
                    i = Len(runs) \/ k <= runs[i + 1].stop => frames'[k].env = EnvOf(i)
    <2>1. runs[i].stop + 1 \in 1 .. n
      BY <1>1, <1>3
    <2>2. \A k \in runs[i].stop + 1 .. n : k \in 1 .. n /\ k \in runs[i].stop + 1 .. Len(frames)
      BY <1>1, <1>3
    <2> QED BY <1>3, <2>1, <2>2 DEF FramesFit
  <1>5. ASSUME runs # <<>>, NEW k \in runs[1].stop + 1 .. n
        PROVE  frames'[k].top => \E i \in Runs : k = runs[i].stop + 1
    <2>1. 1 \in Runs
      BY <1>1, <1>5 DEF Runs
    <2>2. k \in 1 .. n /\ k \in runs[1].stop + 1 .. Len(frames)
      BY <1>1, <1>3, <2>1
    <2> QED BY <1>5, <2>2 DEF FramesFit
  <1> QED BY <1>2, <1>4, <1>5 DEF FramesFit

LEMMA TryBeginKeeps ==
  ASSUME LoadInv, PathInv, TryBegin
  PROVE  LoadInv'
  <1>1. /\ mode = "code" /\ tries' = Append(tries, Len(frames))
        /\ UNCHANGED <<frames, runs, eval_stop, left, envs, globals, has_error, mode>>
    BY DEF TryBegin
  <1>2. /\ FramesFit /\ runs # <<>> /\ run.stop < Len(frames) /\ Len(frames) \in Nat
        /\ runs[1].stop < Len(frames) /\ runs[1].stop \in Nat
    BY <1>1, InCode
  <1>3. /\ tries' \in Seq(Nat) /\ Len(tries') = Len(tries) + 1 /\ Len(tries) \in Nat
        /\ \A i \in 1 .. Len(tries) : tries'[i] = tries[i] /\ tries[i] \in Nat
        /\ tries'[Len(tries) + 1] = Len(frames)
    BY <1>1, <1>2, AppendFacts, StateFacts DEF LoadInv, Types
  <1>4. SameRuns /\ Types'
    BY <1>1, <1>3, EnvsUntouched DEF LoadInv, Types
  <1>5. TriesNest'
    <2>1. \A i \in 1 .. Len(tries') : i \in 1 .. Len(tries) \/ i = Len(tries) + 1
      BY <1>3
    <2> QED BY <1>1, <1>2, <1>3, <2>1 DEF LoadInv, TriesNest
  <1>6. FramesFit'
    BY <1>1, <1>2, <1>4, FramesCut DEF LoadInv
  <1> QED BY <1>4, <1>5, <1>6, InnerStep

LEMMA Greatest ==
  ASSUME NEW S, NEW n \in S, \A y \in S : n >= y, \A x \in S : (\A y \in S : x >= y) => x = n
  PROVE  Max(S) = n
  <1>1. \E x \in S : \A y \in S : x >= y
    OBVIOUS
  <1>2. Max(S) \in S /\ \A y \in S : Max(S) >= y
    BY <1>1, Zenon DEF Max
  <1> QED BY <1>2

\* With none left open the newest handler is that of the block that ends.
LEMMA TryEndKeeps ==
  ASSUME LoadInv, PathInv, TryEnd
  PROVE  LoadInv'
  <1>1. /\ mode = "code" /\ OwnTries # {} /\ tries' = Front(tries)
        /\ left' = (left \cup {Max(OwnTries)}) \ {Len(tries)}
        /\ UNCHANGED <<frames, runs, eval_stop, envs, globals, has_error, mode>>
    BY DEF TryEnd
  <1>2. FramesFit /\ run.stop < Len(frames) /\ Len(frames) \in Nat
    BY <1>1, InCode
  <1>3. tries # <<>> /\ Len(tries) \in OwnTries /\ Max(OwnTries) = Len(tries)
    <2>1. /\ left = {} /\ Len(tries) \in Nat /\ \A i \in 1 .. Len(tries) : tries[i] \in Nat
          /\ tries = <<>> <=> Len(tries) = 0
      BY StateFacts DEF LoadInv, TriesNest
    <2>2. PICK i \in 1 .. Len(tries) : tries[i] = Len(frames)
      BY <1>1 DEF OwnTries
    <2>3. Len(tries) \in 1 .. Len(tries) /\ i <= Len(tries)
      BY <2>1
    <2>4. tries[Len(tries)] = Len(frames)
      BY <1>2, <2>1, <2>2, <2>3 DEF LoadInv, TriesNest
    <2>5. OwnTries \subseteq 1 .. Len(tries) /\ Len(tries) \in OwnTries
      BY <2>1, <2>3, <2>4 DEF OwnTries
    <2>6. \A x \in OwnTries : (\A y \in OwnTries : x >= y) => x = Len(tries)
      BY <2>1, <2>5
    <2>7. \A y \in OwnTries : Len(tries) >= y
      BY <2>1, <2>5
    <2>8. Max(OwnTries) = Len(tries)
      BY <2>5, <2>6, <2>7, Greatest
    <2>9. tries # <<>>
      BY <2>1, <2>3
    <2> QED BY <2>5, <2>8, <2>9
  <1>4. left' = {}
    BY <1>1, <1>3 DEF LoadInv, TriesNest
  <1>5. /\ tries' \in Seq(Nat) /\ Len(tries') = Len(tries) - 1 /\ Len(tries) \in Nat \ {0}
        /\ \A i \in 1 .. Len(tries') : i \in 1 .. Len(tries) /\ tries'[i] = tries[i]
    BY <1>1, <1>3, FrontFacts DEF LoadInv, Types
  <1>6. SameRuns /\ Types'
    BY <1>1, <1>5, EnvsUntouched DEF LoadInv, Types
  <1>7. TriesNest'
    BY <1>1, <1>4, <1>5 DEF LoadInv, TriesNest
  <1>8. FramesFit'
    BY <1>1, <1>2, <1>6, FramesCut DEF LoadInv
  <1> QED BY <1>6, <1>7, <1>8, InnerStep

\* The handler lies in the innermost vm_run, which goes on with its code.
LEMMA HandlerKeeps ==
  ASSUME LoadInv, tries # <<>>, Last(tries) > run.stop,
         frames' = SubSeq(frames, 1, Last(tries)), tries' = Front(tries),
         left' = left \ {Len(tries)}, has_error' = FALSE, mode' = "code",
         UNCHANGED <<runs, eval_stop, envs, globals>>
  PROVE  LoadInv'
  <1> DEFINE n == Last(tries)
  <1>1. /\ tries' \in Seq(Nat) /\ Len(tries') = Len(tries) - 1 /\ Len(tries) \in Nat \ {0}
        /\ \A i \in 1 .. Len(tries') : i \in 1 .. Len(tries) /\ tries'[i] = tries[i]
        /\ n = tries[Len(tries)] /\ n \in Nat
    BY FrontFacts DEF LoadInv, Types
  <1>2. Len(tries) \in 1 .. Len(tries) /\ \A i \in 1 .. Len(tries') : i <= Len(tries)
    BY <1>1
  <1>3. n <= Len(frames) /\ runs # <<>> /\ FramesFit /\ left' = {}
    BY <1>1, <1>2 DEF LoadInv, TriesNest, Doomed
  <1>4. /\ frames' \in Seq(Frame) /\ Len(frames') = n
        /\ \A k \in 1 .. n : frames'[k] = frames[k]
    <2>1. PICK l : l = SubSeq(frames, 1, n)
      OBVIOUS
    <2>2. frames \in Seq(Frame) /\ frames' = l
      BY <2>1 DEF LoadInv, Types
    <2> HIDE DEF n
    <2>3. l \in Seq(Frame) /\ Len(l) = n /\ \A k \in 1 .. n : l[k] = frames[k]
      BY <1>1, <1>3, <2>1, <2>2, PrefixFacts
    <2> QED BY <2>2, <2>3
  <1>5. SameRuns /\ Types'
    BY <1>1, <1>4, EnvsUntouched DEF LoadInv, Types, Modes
  <1>6. TriesNest'
    <2>1. \A i \in 1 .. Len(tries') : tries[i] <= n
      BY <1>1, <1>2 DEF LoadInv, TriesNest
    <2> QED BY <1>1, <1>3, <1>4, <2>1 DEF LoadInv, TriesNest
  <1> HIDE DEF n
  <1>7. run.stop < n
    <2>1. run.stop \in Nat
      <3>1. Len(runs) \in Runs
        BY <1>3, StateFacts DEF LoadInv, Runs
      <3> QED BY <3>1, StateFacts DEF LoadInv
    <2> QED BY <1>1, <2>1 DEF n
  <1>8. FramesFit'
    BY <1>1, <1>3, <1>4, <1>5, <1>7, FramesCut DEF LoadInv
  <1> QED BY <1>5, <1>6, <1>8, InnerStep

\* A frame is pushed on those of the innermost vm_run, not its first.
LEMMA CallKeeps ==
  ASSUME LoadInv, PathInv, mode = "code", NEW c \in Nat,
         frames' = Append(frames, [chunk |-> c, top |-> FALSE, env |-> globals]),
         UNCHANGED <<runs, eval_stop, tries, left, envs, globals, has_error, mode>>
  PROVE  LoadInv'
  <1> DEFINE f == [chunk |-> c, top |-> FALSE, env |-> globals]
             n == Len(frames)
  <1>1. /\ FramesFit /\ run.stop < n /\ n \in Nat
        /\ runs[1].stop <= run.stop /\ run.stop \in Nat
        /\ runs # <<>> /\ Len(runs) \in Runs /\ 1 \in Runs /\ run = runs[Len(runs)]
    BY InCode
  <1>2. /\ Types /\ RunsNest /\ GlobalsNest /\ Len(runs) \in Nat
        /\ \A i \in Runs : runs[i].stop \in Nat
        /\ \A i \in 1 .. Len(tries) : tries[i] \in Nat
    BY StateFacts DEF LoadInv
  <1>3. f \in Frame /\ ~f.top /\ f.env = globals
    BY <1>2 DEF Frame, Types
  <1>4. /\ frames' \in Seq(Frame) /\ Len(frames') = n + 1
        /\ \A k \in 1 .. n : frames'[k] = frames[k]
        /\ frames'[n + 1] = f
    BY <1>2, <1>3, AppendFacts DEF Types
  <1> HIDE DEF f
  <1>5. SameRuns /\ Types'
    BY <1>2, <1>4, EnvsUntouched DEF Types
  <1>6. TriesNest'
    BY <1>1, <1>2, <1>4 DEF LoadInv, TriesNest
  <1>7. ASSUME NEW i \in Runs
        PROVE  /\ runs[i].stop < n + 1
               /\ frames'[runs[i].stop + 1].top /\ frames'[runs[i].stop + 1].chunk = runs[i].chunk
               /\ \A k \in runs[i].stop + 1 .. n + 1 :
                    i = Len(runs) \/ k <= runs[i + 1].stop => frames'[k].env = EnvOf(i)
    <2>1. /\ runs[i].stop \in Nat /\ runs[i].stop < n /\ runs[i].stop + 1 \in 1 .. n
          /\ \A k \in runs[i].stop + 1 .. n : k \in 1 .. n
      BY <1>1, <1>2 DEF FramesFit
    <2>2. /\ frames[runs[i].stop + 1].top /\ frames[runs[i].stop + 1].chunk = runs[i].chunk
          /\ \A k \in runs[i].stop + 1 .. n :
               i = Len(runs) \/ k <= runs[i + 1].stop => frames[k].env = EnvOf(i)
      BY <1>1 DEF FramesFit
    <2>3. ASSUME NEW k \in runs[i].stop + 1 .. n + 1, i = Len(runs) \/ k <= runs[i + 1].stop
          PROVE  frames'[k].env = EnvOf(i)
      <3>1. CASE k \in runs[i].stop + 1 .. n
        BY <1>4, <2>1, <2>2, <2>3, <3>1
      <3>2. CASE k = n + 1
        <4>1. i = Len(runs) \/ i + 1 \in Runs
          BY <1>2 DEF Runs
        <4>2. i + 1 \in Runs => runs[i + 1].stop < n /\ runs[i + 1].stop \in Nat
          BY <1>1, <1>2 DEF FramesFit
        <4>3. i = Len(runs)
          BY <1>1, <2>3, <3>2, <4>1, <4>2
        <4> QED BY <1>3, <1>4, <3>2, <4>3 DEF EnvOf
      <3> QED BY <1>1, <2>1, <3>1, <3>2
    <2> QED BY <1>1, <1>4, <2>1, <2>2, <2>3
  <1>8. ASSUME NEW k \in runs[1].stop + 1 .. n + 1, frames'[k].top
        PROVE  \E i \in Runs : k = runs[i].stop + 1
    <2>1. k # n + 1
      BY <1>3, <1>4, <1>8
    <2>2. k \in runs[1].stop + 1 .. n /\ k \in 1 .. n
      BY <1>1, <1>2, <2>1
    <2> QED BY <1>1, <1>4, <1>8, <2>2 DEF FramesFit
  <1>9. Runs' = Runs /\ \A i : EnvOf(i)' = EnvOf(i)
    BY <1>2, <1>5, SameRunsKeep
  <1>10. FramesFit'
    BY <1>4, <1>7, <1>8, <1>9 DEF FramesFit
  <1> QED BY <1>5, <1>6, <1>10, InnerStep

\* A function returns: the frame below is still its own vm_run's.
LEMMA ReturnInside ==
  ASSUME LoadInv, PathInv, mode = "code", Len(frames) - 1 > run.stop, OwnTries = {},
         frames' = Front(frames), left' = left \cup OwnTries,
         UNCHANGED <<runs, eval_stop, tries, envs, globals, has_error, mode>>
  PROVE  LoadInv'
  <1>1. FramesFit /\ Len(frames) \in Nat \ {0} /\ runs # <<>> /\ run.stop \in Nat
    BY InCode
  <1>2. /\ Types /\ frames' \in Seq(Frame) /\ Len(frames') = Len(frames) - 1
        /\ \A k \in 1 .. Len(frames) - 1 : frames'[k] = frames[k]
    <2>1. Types /\ frames \in Seq(Frame) /\ frames # <<>>
      BY <1>1, SeqFacts DEF LoadInv, Types
    <2> QED BY <2>1, FrontFacts
  <1>3. SameRuns /\ Types'
    BY <1>2, EnvsUntouched DEF Types
  <1>4. TriesNest'
    <2>1. \A i \in 1 .. Len(tries) : tries[i] \in Nat /\ tries[i] # Len(frames)
      BY <1>2, StateFacts DEF OwnTries, LoadInv, TriesNest
    <2> QED BY <1>1, <1>2, <2>1 DEF LoadInv, TriesNest
  <1>5. Len(frames) - 1 \in Nat /\ Len(frames) - 1 <= Len(frames) /\ run.stop < Len(frames) - 1
    BY <1>1
  <1>6. FramesFit'
    BY <1>1, <1>2, <1>3, <1>5, FramesCut DEF LoadInv
  <1> QED BY <1>3, <1>4, <1>6, InnerStep

\* Functions added to the current globals.
LEMMA FunctionsAdded ==
  ASSUME envs \in Seq(Env), globals \in 1 .. Len(envs), NEW S \in SUBSET Nat
  PROVE  \A more : more = [envs EXCEPT ![globals].fns = @ \cup S] =>
           /\ more \in Seq(Env) /\ Len(more) = Len(envs)
           /\ \A e \in 1 .. Len(envs) :
                /\ more[e].live = envs[e].live
                /\ more[e].fns = IF e = globals THEN envs[e].fns \cup S ELSE envs[e].fns
  <1>1. \A e \in 1 .. Len(envs) : envs[e] \in Env
    BY SeqFacts
  <1>2. PICK new : new = [envs[globals] EXCEPT !.fns = @ \cup S]
    OBVIOUS
  <1>3. new \in Env /\ new.live = envs[globals].live /\ new.fns = envs[globals].fns \cup S
    BY <1>1, <1>2 DEF Env
  <1>4. [envs EXCEPT ![globals].fns = @ \cup S] = [envs EXCEPT ![globals] = new]
    BY <1>2
  <1>5. \A more : more = [envs EXCEPT ![globals] = new] =>
          /\ more \in Seq(Env) /\ Len(more) = Len(envs)
          /\ \A e \in 1 .. Len(envs) : more[e] = IF e = globals THEN new ELSE envs[e]
    BY <1>3, ExceptFacts
  <1> QED BY <1>3, <1>4, <1>5

\* The current globals are among envs.
LEMMA GlobalsExist ==
  ASSUME LoadInv
  PROVE  globals \in 1 .. Len(envs) /\ globals = EnvOf(Len(runs))
  <1>1. Len(runs) \in 0 .. Len(runs) /\ EnvOf(Len(runs)) = globals
    BY StateFacts DEF LoadInv, EnvOf
  <1> QED BY <1>1 DEF LoadInv, GlobalsNest

LEMMA FunctionsAddedKeep ==
  ASSUME LoadInv, NEW S \in SUBSET Nat, envs' = [envs EXCEPT ![globals].fns = @ \cup S],
         UNCHANGED <<frames, runs, eval_stop, tries, left, globals>>,
         has_error' \in BOOLEAN, mode' \in Modes, Doomed => Doomed'
  PROVE  LoadInv'
  <1>1. envs \in Seq(Env) /\ globals \in 1 .. Len(envs)
    BY GlobalsExist DEF LoadInv, Types
  <1>2. /\ envs' \in Seq(Env) /\ Len(envs') = Len(envs)
        /\ \A e \in 1 .. Len(envs) : envs'[e].live = envs[e].live
    <2>1. \A more : more = [envs EXCEPT ![globals].fns = @ \cup S] =>
            /\ more \in Seq(Env) /\ Len(more) = Len(envs)
            /\ \A e \in 1 .. Len(envs) :
                 /\ more[e].live = envs[e].live
                 /\ more[e].fns = IF e = globals THEN envs[e].fns \cup S ELSE envs[e].fns
      BY <1>1, FunctionsAdded
    <2> QED BY <2>1
  <1>3. SameRuns
    BY <1>2 DEF SameRuns
  <1> QED BY <1>2, <1>3, QuietKeeps

\* What EnterRun does, in facts about the new state.
Entered(kind, sandbox) ==
    LET n == Len(runs) + 1 IN
    /\ runs' \in Seq(Run) /\ Len(runs') = n /\ \A i \in Runs : runs'[i] = runs[i]
    /\ runs'[n].chunk = Len(chunks) + 1
    /\ runs'[n].stop = Len(frames) /\ runs'[n].saved_stop = eval_stop
    /\ runs'[n].sandbox = sandbox /\ runs'[n].saved_globals = globals
    /\ frames' \in Seq(Frame) /\ Len(frames') = Len(frames) + 1
    /\ \A k \in 1 .. Len(frames) : frames'[k] = frames[k]
    /\ frames'[Len(frames) + 1].chunk = Len(chunks) + 1
    /\ frames'[Len(frames) + 1].top
    /\ frames'[Len(frames) + 1].env = globals'
    /\ eval_stop' = IF kind = "program" THEN eval_stop ELSE Len(frames)
    /\ envs' \in Seq(Env) /\ \A e \in 1 .. Len(envs) : envs'[e] = envs[e]
    /\ globals' = IF sandbox THEN Len(envs) + 1 ELSE globals
    /\ sandbox  => /\ Len(envs') = Len(envs) + 1
                   /\ envs'[Len(envs) + 1].live /\ envs'[Len(envs) + 1].fns = {}
    /\ ~sandbox => Len(envs') = Len(envs)
    /\ mode' = "code"
    /\ UNCHANGED <<tries, left, has_error>>

LEMMA EnterRunEnters ==
  ASSUME LoadInv, PathInv, NEW kind \in {"program", "include", "eval"}, NEW sandbox \in BOOLEAN,
         NEW m, EnterRun(kind, m, sandbox)
  PROVE  Entered(kind, sandbox)
  <1> DEFINE home == IF sandbox THEN Len(envs) + 1 ELSE globals
             r == [kind |-> kind, chunk |-> Len(chunks) + 1, stop |-> Len(frames),
                   saved_stop |-> eval_stop, sandbox |-> sandbox, saved_globals |-> globals]
             f == [chunk |-> Len(chunks) + 1, top |-> TRUE, env |-> home]
             v == [live |-> TRUE, fns |-> {}]
  <1>1. /\ Len(chunks) \in Nat /\ Len(frames) \in Nat /\ Len(runs) \in Nat /\ Len(envs) \in Nat
        /\ frames \in Seq(Frame) /\ runs \in Seq(Run) /\ envs \in Seq(Env)
        /\ eval_stop \in Int /\ globals \in Nat
    BY StateFacts, PathFacts DEF LoadInv, Types, PathInv
  <1>2. home \in Nat
    BY <1>1
  <1>3. r \in Run /\ f \in Frame /\ v \in Env
    BY <1>1, <1>2 DEF Run, Frame, Env
  <1>4. /\ runs' = Append(runs, r) /\ frames' = Append(frames, f)
        /\ eval_stop' = IF kind = "program" THEN eval_stop ELSE Len(frames)
        /\ globals' = home
        /\ envs' = IF sandbox THEN Append(envs, v) ELSE envs
        /\ mode' = "code"
        /\ UNCHANGED <<tries, left, has_error>>
    BY DEF EnterRun
  <1>5. /\ r.chunk = Len(chunks) + 1 /\ r.stop = Len(frames)
        /\ r.saved_stop = eval_stop /\ r.sandbox = sandbox /\ r.saved_globals = globals
        /\ f.chunk = Len(chunks) + 1 /\ f.top /\ f.env = home
        /\ v.live /\ v.fns = {}
    OBVIOUS
  <1>6. home = IF sandbox THEN Len(envs) + 1 ELSE globals
    OBVIOUS
  <1> HIDE DEF r, f, v, home
  <1>7. /\ runs' \in Seq(Run) /\ Len(runs') = Len(runs) + 1 /\ \A i \in Runs : runs'[i] = runs[i]
        /\ runs'[Len(runs) + 1] = r
    BY <1>1, <1>3, <1>4, AppendFacts DEF Runs
  <1>8. /\ frames' \in Seq(Frame) /\ Len(frames') = Len(frames) + 1
        /\ \A k \in 1 .. Len(frames) : frames'[k] = frames[k]
        /\ frames'[Len(frames) + 1] = f
    BY <1>1, <1>3, <1>4, AppendFacts
  <1>9. /\ envs' \in Seq(Env) /\ \A e \in 1 .. Len(envs) : envs'[e] = envs[e]
        /\ sandbox  => Len(envs') = Len(envs) + 1 /\ envs'[Len(envs) + 1] = v
        /\ ~sandbox => Len(envs') = Len(envs)
    BY <1>1, <1>3, <1>4, AppendFacts
  <1> QED BY <1>4, <1>5, <1>6, <1>7, <1>8, <1>9 DEF Entered

\* Where a vm_run can be entered.
MayNest(kind, sandbox) ==
    /\ mode \in {"host", "code"}
    /\ kind = "program" <=> mode = "host"
    /\ kind = "program" => ~sandbox

LEMMA EnteredFrom ==
  ASSUME LoadInv, PathInv, NEW kind, NEW sandbox, MayNest(kind, sandbox)
  PROVE  /\ FramesFit
         /\ kind = "program" <=> runs = <<>>
         /\ runs = <<>> => Len(tries) = 0 /\ tries = <<>>
         /\ runs # <<>> => run.stop < Len(frames) /\ run.stop \in Nat
         /\ globals \in 1 .. Len(envs) /\ envs[globals].live
  <1>1. mode = "host" <=> runs = <<>>
    BY DEF PathInv, RunsHaveChunks, MayNest
  <1>2. Types /\ Len(tries) \in Nat /\ (tries = <<>> <=> Len(tries) = 0)
    BY StateFacts DEF LoadInv
  <1>3. runs = <<>> => Len(tries) = 0 /\ tries = <<>>
    BY <1>2 DEF LoadInv, TriesNest
  <1>4. runs # <<>> => run.stop < Len(frames) /\ run.stop \in Nat
    <2>1. runs # <<>> => mode = "code"
      BY <1>1 DEF MayNest
    <2> QED BY <2>1, InCode
  <1>5. globals \in 1 .. Len(envs) /\ envs[globals].live
    <2>1. globals \in 1 .. Len(envs) /\ globals = EnvOf(Len(runs)) /\ Len(runs) \in 0 .. Len(runs)
      BY GlobalsExist, <1>2, StateFacts
    <2> QED BY <2>1 DEF LoadInv, GlobalsNest
  <1> QED BY <1>1, <1>3, <1>4, <1>5 DEF LoadInv, MayNest, Doomed

\* The vm_run calls around it are as they were.
LEMMA EnteredEnvs ==
  ASSUME Types, NEW kind, NEW sandbox, Entered(kind, sandbox)
  PROVE  /\ Len(runs) \in Nat /\ Len(runs') = Len(runs) + 1
         /\ \A i \in 0 .. Len(runs) : EnvOf(i)' = EnvOf(i)
         /\ \A i : i = Len(runs) + 1 => EnvOf(i)' = globals'
         /\ \A i \in Runs' : i \in Runs \/ i = Len(runs) + 1
         /\ \A i \in Runs : i \in Runs' /\ i # Len(runs) + 1 /\ runs'[i] = runs[i]
         /\ Len(runs) + 1 \in Runs'
         /\ \A i \in 0 .. Len(runs') : i \in 0 .. Len(runs) \/ i = Len(runs) + 1
  <1>1. /\ Len(runs) \in Nat /\ Len(runs') = Len(runs) + 1 /\ \A i \in Runs : runs'[i] = runs[i]
        /\ runs'[Len(runs) + 1].saved_globals = globals
    BY StateFacts DEF Entered
  <1>2. \A i \in 0 .. Len(runs) : EnvOf(i)' = EnvOf(i)
    <2> SUFFICES ASSUME NEW i \in 0 .. Len(runs)
                 PROVE  EnvOf(i)' = EnvOf(i)
      OBVIOUS
    <2>1. i # Len(runs') /\ (i = Len(runs) \/ i + 1 \in Runs)
      BY <1>1 DEF Runs
    <2>2. CASE i = Len(runs)
      BY <1>1, <2>1, <2>2 DEF EnvOf
    <2>3. CASE i # Len(runs) /\ i + 1 \in Runs
      BY <1>1, <2>1, <2>3 DEF EnvOf
    <2> QED BY <2>1, <2>2, <2>3
  <1>3. \A i : i = Len(runs) + 1 => EnvOf(i)' = globals'
    BY <1>1 DEF EnvOf
  <1>4. /\ \A i \in Runs' : i \in Runs \/ i = Len(runs) + 1
        /\ \A i \in Runs : i \in Runs' /\ i # Len(runs) + 1
        /\ Len(runs) + 1 \in Runs'
        /\ \A i \in 0 .. Len(runs') : i \in 0 .. Len(runs) \/ i = Len(runs) + 1
    BY <1>1 DEF Runs
  <1> QED BY <1>1, <1>2, <1>3, <1>4

LEMMA EnteredTypes ==
  ASSUME Types, NEW kind, NEW sandbox \in BOOLEAN, Entered(kind, sandbox)
  PROVE  Types'
  <1>1. Len(frames) \in Nat /\ globals \in Nat /\ Len(envs) \in Nat /\ eval_stop \in Int
    BY StateFacts DEF Types
  <1>2. eval_stop' = IF kind = "program" THEN eval_stop ELSE Len(frames)
    BY DEF Entered
  <1>3. globals' = IF sandbox THEN Len(envs) + 1 ELSE globals
    BY DEF Entered
  <1>4. eval_stop' \in Int /\ globals' \in Nat
    BY <1>1, <1>2, <1>3
  <1> QED BY <1>4 DEF Types, Entered, Modes

LEMMA EnteredNest ==
  ASSUME LoadInv, PathInv, NEW kind, NEW sandbox, Entered(kind, sandbox), MayNest(kind, sandbox)
  PROVE  RunsNest'
  <1> DEFINE n == Len(runs) + 1
  <1>1. /\ Types /\ RunsNest /\ FramesFit
        /\ kind = "program" <=> runs = <<>>
        /\ kind = "program" => ~sandbox
        /\ runs = <<>> <=> Len(runs) = 0
        /\ Len(frames) \in Nat
        /\ run = runs[Len(runs)]
        /\ \A i \in Runs : runs[i].stop \in Nat
    BY EnteredFrom, StateFacts DEF LoadInv, MayNest
  <1>2. /\ Len(runs) \in Nat /\ Len(runs') = n
        /\ \A i \in Runs' : i \in Runs \/ i = n
        /\ \A i \in Runs : i \in Runs' /\ i # n /\ runs'[i] = runs[i]
        /\ n \in Runs'
    BY <1>1, EnteredEnvs
  <1>3. /\ runs'[n].stop = Len(frames) /\ runs'[n].saved_stop = eval_stop
        /\ runs'[n].sandbox = sandbox
        /\ eval_stop' = IF kind = "program" THEN eval_stop ELSE Len(frames)
    BY DEF Entered
  <1> HIDE DEF n
  <1>4. \A i \in Runs : runs[i].stop < Len(frames)
    BY <1>1 DEF FramesFit
  <1>5. ASSUME NEW i \in Runs'
        PROVE  /\ runs'[i].saved_stop = IF i <= 2 THEN NoStop ELSE runs'[i - 1].stop
               /\ i = 1 => ~runs'[i].sandbox
    <2>1. CASE i \in Runs
      <3>1. ~(i <= 2) => i - 1 \in Runs
        BY <1>2, <2>1 DEF Runs
      <3> QED BY <1>1, <1>2, <2>1, <3>1 DEF RunsNest
    <2>2. CASE i = n
      <3>1. eval_stop = IF Len(runs) <= 1 THEN NoStop ELSE run.stop
        BY <1>1 DEF RunsNest
      <3>2. /\ Len(runs) <= 1 <=> i <= 2
            /\ ~(i <= 2) => i - 1 = Len(runs) /\ Len(runs) \in Runs
            /\ i = 1 => Len(runs) = 0
        BY <1>2, <2>2 DEF n, Runs
      <3>3. ~(i <= 2) => runs'[i - 1] = run
        BY <1>1, <1>2, <3>2
      <3> QED BY <1>1, <1>3, <2>2, <3>1, <3>2, <3>3
    <2> QED BY <1>2, <2>1, <2>2
  <1>6. ASSUME NEW i \in Runs', NEW j \in Runs', i < j
        PROVE  runs'[i].stop < runs'[j].stop
    <2>1. i \in Runs
      BY <1>2, <1>6 DEF n, Runs
    <2>2. CASE j \in Runs
      BY <1>1, <1>2, <1>6, <2>1, <2>2 DEF RunsNest
    <2>3. CASE j = n
      BY <1>2, <1>3, <1>4, <2>1, <2>3
    <2> QED BY <1>2, <2>2, <2>3
  <1>7. eval_stop' = IF Len(runs') <= 1 THEN NoStop ELSE run'.stop
    <2>1. run'.stop = Len(frames)
      BY <1>2, <1>3 DEF run, Last
    <2>2. kind = "program" <=> Len(runs') <= 1
      BY <1>1, <1>2 DEF n
    <2>3. Len(runs) = 0 => eval_stop = NoStop
      BY <1>1 DEF RunsNest
    <2> QED BY <1>1, <1>3, <2>1, <2>2, <2>3
  <1> QED BY <1>5, <1>6, <1>7 DEF RunsNest

LEMMA EnteredTries ==
  ASSUME LoadInv, PathInv, NEW kind, NEW sandbox, Entered(kind, sandbox), MayNest(kind, sandbox)
  PROVE  TriesNest'
  <1>1. /\ Types /\ TriesNest /\ Len(frames) \in Nat
        /\ \A i \in 1 .. Len(tries) : tries[i] \in Nat
        /\ Len(runs) \in Nat /\ (runs = <<>> <=> Len(runs) = 0)
        /\ runs = <<>> => Len(tries) = 0
        /\ UNCHANGED <<tries, left>>
        /\ Len(frames') = Len(frames) + 1
    BY EnteredFrom, StateFacts DEF LoadInv, Entered
  <1>2. runs # <<>> => runs'[1] = runs[1]
    BY <1>1 DEF Entered, Runs
  <1>3. runs' # <<>>
    <2>1. runs' \in Seq(Run) /\ Len(runs') # 0
      BY <1>1 DEF Entered
    <2> QED BY <2>1, SeqFacts
  <1>4. \A i \in 1 .. Len(tries) : runs'[1].stop < tries[i] /\ tries[i] <= Len(frames')
    BY <1>1, <1>2 DEF TriesNest
  <1> QED BY <1>1, <1>3, <1>4 DEF TriesNest

LEMMA EnteredGlobals ==
  ASSUME LoadInv, PathInv, NEW kind, NEW sandbox \in BOOLEAN, Entered(kind, sandbox),
         MayNest(kind, sandbox)
  PROVE  GlobalsNest'
  <1> DEFINE n == Len(runs) + 1
             Before(i) == EnvOf(i)
  <1>1. /\ Types /\ RunsNest /\ GlobalsNest /\ Len(envs) \in Nat
        /\ globals \in 1 .. Len(envs) /\ envs[globals].live
    BY EnteredFrom, StateFacts DEF LoadInv
  <1>2. /\ Len(runs) \in Nat /\ Len(runs') = n
        /\ \A i \in 0 .. Len(runs) : EnvOf(i)' = Before(i)
        /\ \A i : i = n => EnvOf(i)' = globals'
        /\ \A i \in 0 .. Len(runs') : i \in 0 .. Len(runs) \/ i = n
        /\ \A i \in Runs' : i \in Runs \/ i = n
        /\ \A i \in Runs : runs'[i] = runs[i]
    BY <1>1, EnteredEnvs
  <1>3. /\ \A e \in 1 .. Len(envs) : e \in 1 .. Len(envs') /\ envs'[e] = envs[e]
        /\ globals' = IF sandbox THEN Len(envs) + 1 ELSE globals
        /\ globals' \in 1 .. Len(envs') /\ envs'[globals'].live
        /\ globals <= globals' /\ (sandbox => globals < globals')
        /\ runs'[n].sandbox = sandbox
    BY <1>1 DEF Entered
  <1>4. \A i \in 0 .. Len(runs) : /\ Before(i) \in 1 .. Len(envs) /\ Before(i) \in Nat
                                  /\ envs[Before(i)].live
                                  /\ Before(i) <= globals
    <2>1. Before(Len(runs)) = globals /\ Len(runs) \in 0 .. Len(runs)
      BY <1>2 DEF EnvOf
    <2> QED BY <1>1, <1>2, <2>1 DEF GlobalsNest
  <1>5. globals \in Nat /\ globals' \in Nat
    BY <1>1, <1>3
  <1> HIDE DEF Before, n
  <1>6. EnvOf(0)' = 1
    <2>1. 0 \in 0 .. Len(runs) /\ Before(0) = 1
      BY <1>1, <1>2 DEF GlobalsNest, Before
    <2>2. \A i \in 0 .. Len(runs) : i = 0 => EnvOf(i)' = 1
      BY <1>2, <2>1
    <2> QED BY <2>1, <2>2
  <1>7. \A i \in 0 .. Len(runs') : EnvOf(i)' \in 1 .. Len(envs') /\ envs'[EnvOf(i)'].live
    <2> SUFFICES ASSUME NEW i \in 0 .. Len(runs')
                 PROVE  EnvOf(i)' \in 1 .. Len(envs') /\ envs'[EnvOf(i)'].live
      OBVIOUS
    <2>1. CASE i \in 0 .. Len(runs)
      <3>1. EnvOf(i)' = Before(i) /\ Before(i) \in 1 .. Len(envs) /\ envs[Before(i)].live
        BY <1>2, <1>4, <2>1
      <3> QED BY <1>3, <3>1
    <2>2. CASE i = n
      BY <1>2, <1>3, <2>2
    <2> QED BY <1>2, <2>1, <2>2
  <1>8. \A i, j \in 0 .. Len(runs') : i <= j => EnvOf(i)' <= EnvOf(j)'
    <2> SUFFICES ASSUME NEW i \in 0 .. Len(runs'), NEW j \in 0 .. Len(runs'), i <= j
                 PROVE  EnvOf(i)' <= EnvOf(j)'
      OBVIOUS
    <2>1. CASE j \in 0 .. Len(runs)
      <3>1. i \in 0 .. Len(runs)
        BY <1>2, <2>1
      <3>2. Before(i) <= Before(j)
        BY <1>1, <2>1, <3>1 DEF GlobalsNest, Before
      <3> QED BY <1>2, <2>1, <3>1, <3>2
    <2>2. CASE j = n
      <3>1. CASE i \in 0 .. Len(runs)
        <4>1. EnvOf(i)' = Before(i) /\ Before(i) <= globals /\ EnvOf(j)' = globals' /\ Before(i) \in Nat
          BY <1>2, <1>4, <2>2, <3>1
        <4> QED BY <1>3, <1>5, <4>1
      <3>2. CASE i = n
        BY <1>2, <1>5, <2>2, <3>2
      <3> QED BY <1>2, <3>1, <3>2
    <2> QED BY <1>2, <2>1, <2>2
  <1>9. \A i \in 0 .. Len(runs'), j \in Runs' : i < j /\ runs'[j].sandbox => EnvOf(i)' < EnvOf(j)'
    <2> SUFFICES ASSUME NEW i \in 0 .. Len(runs'), NEW j \in Runs', i < j, runs'[j].sandbox
                 PROVE  EnvOf(i)' < EnvOf(j)'
      OBVIOUS
    <2>0. i \in 0 .. Len(runs)
      BY <1>2 DEF Runs, n
    <2>1. CASE j \in Runs
      <3>1. Before(i) < Before(j) /\ j \in 0 .. Len(runs)
        BY <1>1, <1>2, <2>0, <2>1 DEF GlobalsNest, Runs, Before
      <3> QED BY <1>2, <2>0, <3>1
    <2>2. CASE j = n
      <3>1. EnvOf(i)' = Before(i) /\ Before(i) <= globals /\ EnvOf(j)' = globals' /\ Before(i) \in Nat
        BY <1>2, <1>4, <2>0, <2>2
      <3>2. sandbox
        BY <1>3, <2>2
      <3> QED BY <1>3, <1>5, <3>1, <3>2
    <2> QED BY <1>2, <2>1, <2>2
  <1>10. \A j \in Runs' : ~runs'[j].sandbox => (\A i : i = j - 1 => EnvOf(i)' = EnvOf(j)')
    <2> SUFFICES ASSUME NEW j \in Runs', ~runs'[j].sandbox, NEW i, i = j - 1
                 PROVE  EnvOf(i)' = EnvOf(j)'
      OBVIOUS
    <2>1. CASE j \in Runs
      <3>1. Before(i) = Before(j) /\ j \in 0 .. Len(runs) /\ i \in 0 .. Len(runs)
        <4>1. EnvOf(j - 1) = EnvOf(j)
          BY <1>1, <1>2, <2>1 DEF GlobalsNest
        <4> QED BY <1>2, <2>1, <4>1 DEF Runs, Before
      <3> QED BY <1>2, <3>1
    <2>2. CASE j = n
      <3>1. i = Len(runs) /\ i \in 0 .. Len(runs) /\ Before(i) = globals /\ ~sandbox
        BY <1>2, <1>3, <2>2 DEF n, Before, EnvOf
      <3> QED BY <1>2, <1>3, <2>2, <3>1
    <2> QED BY <1>2, <2>1, <2>2
  <1>11. (\A j \in Runs : ~runs[j].sandbox => EnvOf(j - 1) = EnvOf(j))'
    BY <1>10
  <1> QED BY <1>6, <1>7, <1>8, <1>9, <1>11 DEF GlobalsNest

LEMMA EnteredFrames ==
  ASSUME LoadInv, PathInv, NEW kind, NEW sandbox, Entered(kind, sandbox), MayNest(kind, sandbox)
  PROVE  FramesFit'
  <1> DEFINE n == Len(runs) + 1
             d == Len(frames)
             Before(i) == EnvOf(i)
  <1>1. /\ Types /\ RunsNest /\ FramesFit /\ d \in Nat
        /\ runs = <<>> <=> Len(runs) = 0
        /\ \A i \in Runs : runs[i].stop \in Nat
    BY EnteredFrom, StateFacts DEF LoadInv
  <1>2. /\ Len(runs) \in Nat /\ Len(runs') = n
        /\ \A i \in 0 .. Len(runs) : EnvOf(i)' = Before(i)
        /\ \A i : i = n => EnvOf(i)' = globals'
        /\ \A i \in Runs' : i \in Runs \/ i = n
        /\ \A i \in Runs : i \in Runs' /\ runs'[i] = runs[i] /\ i \in 0 .. Len(runs)
        /\ n \in Runs'
    BY <1>1, EnteredEnvs DEF Runs
  <1>3. /\ runs'[n].chunk = Len(chunks) + 1 /\ runs'[n].stop = d
        /\ Len(frames') = d + 1 /\ \A k \in 1 .. d : frames'[k] = frames[k]
        /\ frames'[d + 1].chunk = Len(chunks) + 1 /\ frames'[d + 1].top
        /\ frames'[d + 1].env = globals'
    BY DEF Entered
  <1>4. \A i \in Runs : runs[i].stop \in Nat /\ runs[i].stop < d
    BY <1>1 DEF FramesFit
  <1> HIDE DEF Before, n, d
  <1>7. ASSUME NEW i \in Runs'
        PROVE  /\ runs'[i].stop < d + 1
               /\ frames'[runs'[i].stop + 1].top
               /\ frames'[runs'[i].stop + 1].chunk = runs'[i].chunk
               /\ \A k \in runs'[i].stop + 1 .. d + 1 :
                    i = n \/ k <= runs'[i + 1].stop => frames'[k].env = EnvOf(i)'
    <2>1. CASE i \in Runs
      <3>1. /\ runs'[i] = runs[i] /\ runs[i].stop \in Nat /\ runs[i].stop < d /\ EnvOf(i)' = Before(i)
            /\ runs[i].stop + 1 \in 1 .. d
        BY <1>1, <1>2, <1>4, <2>1
      <3>2. /\ frames[runs[i].stop + 1].top /\ frames[runs[i].stop + 1].chunk = runs[i].chunk
            /\ \A k \in runs[i].stop + 1 .. d :
                 i = Len(runs) \/ k <= runs[i + 1].stop => frames[k].env = Before(i)
        BY <1>1, <2>1 DEF FramesFit, Before, d
      <3>3. ASSUME NEW k \in runs'[i].stop + 1 .. d + 1, i = n \/ k <= runs'[i + 1].stop
            PROVE  frames'[k].env = EnvOf(i)'
        <4>1. i # n /\ k <= runs'[i + 1].stop
          BY <1>2, <2>1, <3>3 DEF n, Runs
        <4>2. CASE i = Len(runs)
          <5>1. runs'[i + 1].stop = d
            BY <1>3, <4>2 DEF n
          <5>2. k \in 1 .. d /\ k \in runs[i].stop + 1 .. d
            BY <1>1, <3>1, <4>1, <5>1
          <5> QED BY <1>3, <3>1, <3>2, <4>2, <5>2
        <4>3. CASE i # Len(runs)
          <5>1. i + 1 \in Runs
            BY <1>2, <2>1, <4>3 DEF Runs
          <5>2. runs'[i + 1] = runs[i + 1] /\ runs[i + 1].stop < d /\ runs[i + 1].stop \in Nat
            BY <1>2, <1>4, <5>1
          <5>3. k \in 1 .. d /\ k \in runs[i].stop + 1 .. d /\ k <= runs[i + 1].stop
            BY <1>1, <3>1, <4>1, <5>2
          <5> QED BY <1>3, <3>1, <3>2, <5>3
        <4> QED BY <4>2, <4>3
      <3>4. runs[i].stop < d + 1
        BY <1>1, <3>1
      <3> QED BY <1>3, <3>1, <3>2, <3>3, <3>4
    <2>2. CASE i = n
      <3>1. \A k \in d + 1 .. d + 1 : k = d + 1
        BY <1>1
      <3>2. EnvOf(i)' = globals' /\ d < d + 1
        BY <1>1, <1>2, <2>2
      <3> QED BY <1>3, <2>2, <3>1, <3>2
    <2> QED BY <1>2, <2>1, <2>2
  <1>8. ASSUME NEW k \in runs'[1].stop + 1 .. d + 1, frames'[k].top
        PROVE  \E i \in Runs' : k = runs'[i].stop + 1
    <2>1. CASE k = d + 1
      BY <1>2, <1>3, <2>1
    <2>2. CASE k # d + 1
      <3>0. runs # <<>> /\ 1 \in Runs
        <4>1. CASE Len(runs) = 0
          BY <1>1, <1>3, <2>2, <4>1 DEF n
        <4> QED BY <1>1, <1>2, <4>1 DEF Runs
      <3>1. k \in 1 .. d /\ k \in runs[1].stop + 1 .. d
        BY <1>1, <1>2, <1>4, <2>2, <3>0
      <3>2. frames[k].top => \E i \in Runs : k = runs[i].stop + 1
        BY <1>1, <3>0, <3>1 DEF FramesFit, d
      <3> QED BY <1>2, <1>3, <1>8, <3>1, <3>2
    <2> QED BY <2>1, <2>2
  <1>9. (\A i \in Runs :
           /\ runs[i].stop < Len(frames)
           /\ frames[runs[i].stop + 1].top /\ frames[runs[i].stop + 1].chunk = runs[i].chunk
           /\ \A k \in runs[i].stop + 1 .. Len(frames) :
                i = Len(runs) \/ k <= runs[i + 1].stop => frames[k].env = EnvOf(i))'
    BY <1>2, <1>3, <1>7
  <1> QED BY <1>3, <1>8, <1>9 DEF FramesFit

LEMMA EnterRunKeeps ==
  ASSUME LoadInv, PathInv, NEW kind \in {"program", "include", "eval"}, NEW sandbox \in BOOLEAN,
         NEW m, EnterRun(kind, m, sandbox), MayNest(kind, sandbox)
  PROVE  LoadInv'
  <1>1. Entered(kind, sandbox)
    BY EnterRunEnters
  <1>2. Types' /\ RunsNest' /\ TriesNest'
    BY <1>1, EnteredTypes, EnteredNest, EnteredTries DEF LoadInv
  <1>3. GlobalsNest' /\ FramesFit'
    BY <1>1, EnteredGlobals, EnteredFrames
  <1> QED BY <1>2, <1>3 DEF LoadInv

\* What RunEnds does to the vm_run calls and the globals.
Left ==
    LET n == Len(runs) - 1 IN
    /\ runs' \in Seq(Run) /\ Len(runs') = n /\ Runs' = 1 .. n
    /\ \A i \in 1 .. n : runs'[i] = runs[i]
    /\ eval_stop' = run.saved_stop
    /\ envs' \in Seq(Env) /\ Len(envs') = Len(envs)
    /\ \A e \in 1 .. Len(envs) : (e = globals /\ run.sandbox) \/ envs'[e] = envs[e]
    /\ run.sandbox => envs'[globals].fns = {}
    /\ globals' = IF run.sandbox THEN run.saved_globals ELSE globals

LEMMA Innermost ==
  ASSUME LoadInv, runs # <<>>
  PROVE  /\ Len(runs) \in Nat \ {0} /\ Len(runs) \in Runs /\ run = runs[Len(runs)] /\ run \in Run
         /\ \A i \in 1 .. Len(runs) - 1 : i \in Runs /\ i < Len(runs) /\ i # Len(runs)
         /\ \A i \in Runs : i \in 1 .. Len(runs) - 1 \/ i = Len(runs)
         /\ Len(envs) \in Nat /\ globals \in 1 .. Len(envs) /\ globals = EnvOf(Len(runs))
  <1>1. /\ Len(runs) \in Nat \ {0} /\ run = runs[Len(runs)] /\ Len(envs) \in Nat
        /\ \A i \in Runs : runs[i] \in Run
    BY StateFacts DEF LoadInv
  <1>2. /\ Len(runs) \in Runs
        /\ \A i \in 1 .. Len(runs) - 1 : i \in Runs /\ i < Len(runs) /\ i # Len(runs)
        /\ \A i \in Runs : i \in 1 .. Len(runs) - 1 \/ i = Len(runs)
    BY <1>1 DEF Runs
  <1> QED BY <1>1, <1>2, GlobalsExist

LEMMA RunEndsLeaves ==
  ASSUME LoadInv, runs # <<>>, NEW result, NEW depth, RunEnds(result, depth)
  PROVE  Left
  <1> DEFINE empty == [live |-> FALSE, fns |-> {}]
  <1>1. envs \in Seq(Env) /\ runs \in Seq(Run) /\ globals \in 1 .. Len(envs)
    BY Innermost DEF LoadInv, Types
  <1>2. /\ runs' = Front(runs)
        /\ eval_stop' = run.saved_stop
        /\ run.sandbox => envs' = [envs EXCEPT ![globals] = empty] /\ globals' = run.saved_globals
        /\ ~run.sandbox => UNCHANGED <<envs, globals>>
    BY DEF RunEnds, LeavesSandbox
  <1>3. empty \in Env /\ empty.fns = {}
    BY DEF Env
  <1> HIDE DEF empty
  <1>4. /\ runs' \in Seq(Run) /\ Len(runs') = Len(runs) - 1
        /\ \A i \in 1 .. Len(runs) - 1 : runs'[i] = runs[i]
    <2>1. /\ Front(runs) \in Seq(Run) /\ Len(Front(runs)) = Len(runs) - 1
          /\ \A i \in 1 .. Len(Front(runs)) : Front(runs)[i] = runs[i]
      BY <1>1, FrontFacts
    <2> QED BY <1>2, <2>1
  <1>5. /\ envs' \in Seq(Env) /\ Len(envs') = Len(envs)
        /\ \A e \in 1 .. Len(envs) : (e = globals /\ run.sandbox) \/ envs'[e] = envs[e]
        /\ run.sandbox => envs'[globals].fns = {}
    <2>1. \A t : t = [envs EXCEPT ![globals] = empty] =>
            /\ t \in Seq(Env) /\ Len(t) = Len(envs)
            /\ \A e \in 1 .. Len(envs) : t[e] = IF e = globals THEN empty ELSE envs[e]
      BY <1>1, <1>3, ExceptFacts
    <2>2. CASE run.sandbox
      BY <1>1, <1>2, <1>3, <2>1, <2>2
    <2>3. CASE ~run.sandbox
      BY <1>1, <1>2, <2>3
    <2> QED BY <2>2, <2>3
  <1>6. globals' = IF run.sandbox THEN run.saved_globals ELSE globals
    BY <1>2
  <1> QED BY <1>2, <1>4, <1>5, <1>6 DEF Left, Runs

LEMMA LeftNest ==
  ASSUME LoadInv, runs # <<>>, Left
  PROVE  RunsNest'
  <1> DEFINE n == Len(runs) - 1
  <1>1. /\ Types /\ RunsNest
        /\ Len(runs) \in Nat \ {0} /\ n \in Nat /\ Len(runs) \in Runs /\ run = runs[Len(runs)]
        /\ \A i \in 1 .. n : i \in Runs /\ i < Len(runs)
    BY Innermost DEF LoadInv
  <1>2. Runs' = 1 .. n /\ Len(runs') = n /\ \A i \in 1 .. n : runs'[i] = runs[i]
    BY DEF Left
  <1>3. ASSUME NEW i \in 1 .. n
        PROVE  /\ runs'[i].saved_stop = IF i <= 2 THEN NoStop ELSE runs'[i - 1].stop
               /\ i = 1 => ~runs'[i].sandbox
    <2>1. ~(i <= 2) => i - 1 \in 1 .. n
      BY <1>1
    <2> QED BY <1>1, <1>2, <2>1 DEF RunsNest
  <1>4. ASSUME NEW i \in 1 .. n, NEW j \in 1 .. n, i < j
        PROVE  runs'[i].stop < runs'[j].stop
    BY <1>1, <1>2, <1>4 DEF RunsNest
  <1>5. eval_stop' = IF Len(runs') <= 1 THEN NoStop ELSE run'.stop
    <2>1. eval_stop' = IF Len(runs) <= 2 THEN NoStop ELSE runs[n].stop
      BY <1>1 DEF Left, RunsNest
    <2>2. run' = runs'[n]
      BY <1>2 DEF run, Last
    <2>3. ~(n <= 1) => n \in 1 .. n
      BY <1>1
    <2>4. n <= 1 <=> Len(runs) <= 2
      BY <1>1
    <2> QED BY <1>1, <1>2, <2>1, <2>2, <2>3, <2>4
  <1> HIDE DEF n
  <1> QED BY <1>2, <1>3, <1>4, <1>5 DEF RunsNest

LEMMA LeftGlobals ==
  ASSUME LoadInv, runs # <<>>, Left
  PROVE  GlobalsNest' /\ \A i \in 0 .. Len(runs) - 1 : EnvOf(i)' = EnvOf(i)
  <1> DEFINE n == Len(runs) - 1
             Before(i) == EnvOf(i)
  <1>1. /\ GlobalsNest /\ Len(runs) \in Nat \ {0} /\ n \in Nat /\ Len(runs) \in Runs
        /\ run = runs[Len(runs)] /\ Len(envs) \in Nat
        /\ \A i \in 1 .. n : i \in Runs
        /\ \A i \in 0 .. n : i \in 0 .. Len(runs) /\ i < Len(runs)
        /\ Runs' = 1 .. n /\ Len(runs') = n /\ \A i \in 1 .. n : runs'[i] = runs[i]
        /\ globals = Before(Len(runs)) /\ globals \in 1 .. Len(envs)
    <2>1. /\ GlobalsNest /\ Len(runs) \in Nat \ {0} /\ Len(runs) \in Runs
          /\ run = runs[Len(runs)] /\ Len(envs) \in Nat
          /\ \A i \in 1 .. n : i \in Runs
          /\ globals = Before(Len(runs)) /\ globals \in 1 .. Len(envs)
      BY Innermost DEF LoadInv
    <2>2. n \in Nat /\ \A i \in 0 .. n : i \in 0 .. Len(runs) /\ i < Len(runs)
      BY <2>1
    <2>3. Runs' = 1 .. n /\ Len(runs') = n /\ \A i \in 1 .. n : runs'[i] = runs[i]
      BY DEF Left, Runs
    <2> QED BY <2>1, <2>2, <2>3
  <1>2. \A i \in 0 .. n : EnvOf(i)' = Before(i)
    <2> SUFFICES ASSUME NEW i \in 0 .. n
                 PROVE  EnvOf(i)' = Before(i)
      OBVIOUS
    <2>1. CASE i = n
      <3>1. Before(i) = run.saved_globals
        BY <1>1, <2>1 DEF EnvOf
      <3>2. EnvOf(i)' = globals'
        BY <1>1, <2>1 DEF EnvOf
      <3>3. ~run.sandbox => Before(i) = globals
        <4>1. ~run.sandbox => EnvOf(Len(runs) - 1) = EnvOf(Len(runs))
          BY <1>1 DEF GlobalsNest
        <4> QED BY <1>1, <2>1, <4>1
      <3> QED BY <3>1, <3>2, <3>3 DEF Left
    <2>2. CASE i # n
      <3>1. i + 1 \in 1 .. n /\ i # Len(runs) /\ i # Len(runs')
        BY <1>1, <2>2
      <3> QED BY <1>1, <3>1 DEF EnvOf
    <2> QED BY <2>1, <2>2
  <1>3. \A i \in 0 .. n : /\ Before(i) \in 1 .. Len(envs') /\ Before(i) \in Nat
                          /\ envs'[Before(i)].live
    <2> SUFFICES ASSUME NEW i \in 0 .. n
                 PROVE  /\ Before(i) \in 1 .. Len(envs') /\ Before(i) \in Nat
                        /\ envs'[Before(i)].live
      OBVIOUS
    <2>1. Before(i) \in 1 .. Len(envs) /\ envs[Before(i)].live
      BY <1>1 DEF GlobalsNest
    <2>2. run.sandbox => Before(i) < globals
      BY <1>1 DEF GlobalsNest
    <2>3. Before(i) \in Nat /\ (run.sandbox => Before(i) # globals)
      BY <1>1, <2>1, <2>2
    <2> QED BY <2>1, <2>3 DEF Left
  <1> HIDE DEF Before, n
  <1>4. EnvOf(0)' = 1
    <2>1. 0 \in 0 .. n /\ Before(0) = 1
      BY <1>1 DEF GlobalsNest, Before
    <2>2. \A i \in 0 .. n : i = 0 => EnvOf(i)' = 1
      BY <1>2, <2>1
    <2> QED BY <2>1, <2>2
  <1>5. \A i \in 0 .. n : EnvOf(i)' \in 1 .. Len(envs') /\ envs'[EnvOf(i)'].live
    BY <1>2, <1>3
  <1>6. \A i, j \in 0 .. n : i <= j => EnvOf(i)' <= EnvOf(j)'
    <2>1. \A i, j \in 0 .. n : i <= j => Before(i) <= Before(j)
      BY <1>1 DEF GlobalsNest, Before
    <2> QED BY <1>2, <2>1
  <1>7. \A i \in 0 .. n, j \in 1 .. n : i < j /\ runs'[j].sandbox => EnvOf(i)' < EnvOf(j)'
    <2>1. \A i \in 0 .. n, j \in 1 .. n : i < j /\ runs[j].sandbox => Before(i) < Before(j)
      BY <1>1 DEF GlobalsNest, Before
    <2>2. \A j \in 1 .. n : j \in 0 .. n
      BY <1>1
    <2> QED BY <1>1, <1>2, <2>1, <2>2
  <1>8. \A j \in 1 .. n : ~runs'[j].sandbox => (\A i : i = j - 1 => EnvOf(i)' = EnvOf(j)')
    <2> SUFFICES ASSUME NEW j \in 1 .. n, ~runs'[j].sandbox, NEW i, i = j - 1
                 PROVE  EnvOf(i)' = EnvOf(j)'
      OBVIOUS
    <2>1. EnvOf(j - 1) = EnvOf(j)
      BY <1>1 DEF GlobalsNest
    <2>2. Before(i) = Before(j) /\ i \in 0 .. n /\ j \in 0 .. n
      BY <1>1, <2>1 DEF Before
    <2> QED BY <1>2, <2>2
  <1>9. (\A j \in Runs : ~runs[j].sandbox => EnvOf(j - 1) = EnvOf(j))'
    BY <1>1, <1>8
  <1>10. (\A i \in 0 .. Len(runs), j \in Runs : i < j /\ runs[j].sandbox => EnvOf(i) < EnvOf(j))'
    BY <1>1, <1>7
  <1>11. (\A i, j \in 0 .. Len(runs) : i <= j => EnvOf(i) <= EnvOf(j))'
    BY <1>1, <1>6
  <1>12. (\A i \in 0 .. Len(runs) : EnvOf(i) \in 1 .. Len(envs) /\ envs[EnvOf(i)].live)'
    BY <1>1, <1>5
  <1>13. GlobalsNest'
    BY <1>4, <1>9, <1>10, <1>11, <1>12 DEF GlobalsNest
  <1> QED BY <1>2, <1>13 DEF n, Before

LEMMA LeftTypes ==
  ASSUME LoadInv, runs # <<>>, Left, UNCHANGED tries,
         frames' \in Seq(Frame), has_error' \in BOOLEAN, mode' \in Modes
  PROVE  Types'
  <1>1. Types /\ run \in Run
    BY Innermost DEF LoadInv
  <1>2. eval_stop' \in Int /\ globals' \in Nat
    BY <1>1 DEF Left, Types, Run
  <1> QED BY <1>1, <1>2 DEF Types, Left

\* An error that no handler takes.
LEMMA ErrorLeaves ==
  ASSUME LoadInv, PathInv, runs # <<>>, tries = <<>>, NEW depth,
         RunEnds("error", depth), has_error' = TRUE, UNCHANGED <<frames, tries, left>>
  PROVE  LoadInv'
  <1>1. Left
    BY RunEndsLeaves
  <1>2. mode' \in {"host", "native"} /\ (mode' = "host" => Len(runs) = 1)
    BY ChunksLeft DEF RunEnds
  <1>3. Types'
    <2>1. frames' \in Seq(Frame)
      BY DEF LoadInv, Types
    <2> QED BY <1>1, <1>2, <2>1, LeftTypes DEF Modes
  <1>4. RunsNest' /\ GlobalsNest'
    BY <1>1, LeftNest, LeftGlobals
  <1>5. TriesNest'
    <2>1. Len(tries') = 0 /\ left' = {}
      BY StateFacts DEF LoadInv, TriesNest
    <2> QED BY <2>1 DEF TriesNest
  <1>6. ~Doomed' => FramesFit'
    <2> SUFFICES ASSUME ~Doomed'
                 PROVE  FramesFit'
      OBVIOUS
    <2>1. Len(runs) = 1
      BY <1>2 DEF Doomed
    <2>2. Len(runs') = 0 /\ runs' \in Seq(Run)
      BY <1>1, <2>1 DEF Left
    <2>3. Runs' = {} /\ runs' = <<>>
      BY <2>2, SeqFacts DEF Runs
    <2> QED BY <2>3 DEF FramesFit
  <1> QED BY <1>3, <1>4, <1>5, <1>6 DEF LoadInv

LEMMA HandleErrorKeeps ==
  ASSUME LoadInv, PathInv, mode \in {"code", "native"}, HandleError, mode' # "lost",
         "catch_across" \notin strayed'
  PROVE  LoadInv'
  <1>1. runs # <<>>
    BY DEF PathInv, RunsHaveChunks
  <1>2. CASE tries = <<>>
    <2>1. /\ RunEnds("error", Len(frames)) /\ has_error' = TRUE /\ UNCHANGED <<frames, tries, left>>
      BY <1>2 DEF HandleError
    <2> QED BY <1>1, <1>2, <2>1, ErrorLeaves
  <1>3. CASE tries # <<>>
    <2>1. /\ frames' = SubSeq(frames, 1, Last(tries)) /\ tries' = Front(tries)
          /\ left' = left \ {Len(tries)} /\ has_error' = FALSE /\ mode' = "code"
          /\ UNCHANGED <<runs, eval_stop, envs, globals>>
          /\ ~(Last(tries) <= run.stop)
      BY <1>3 DEF HandleError, StraysIf
    <2>2. Last(tries) \in Nat /\ run.stop \in Nat
      <3>1. Last(tries) \in Nat
        BY <1>3, FrontFacts DEF LoadInv, Types
      <3>2. Len(runs) \in Runs /\ run = runs[Len(runs)]
        BY <1>1, Innermost
      <3> QED BY <3>1, <3>2, StateFacts DEF LoadInv
    <2>3. Last(tries) > run.stop
      BY <2>1, <2>2
    <2> QED BY <1>3, <2>1, <2>3, HandlerKeeps
  <1> QED BY <1>2, <1>3

\* The program's own code is on top only when nothing is nested in it.
LEMMA ProgramIsAlone ==
  ASSUME LoadInv, PathInv, mode = "code", InProgram
  PROVE  Len(runs) = 1 /\ runs[1].stop \in Nat /\ Len(frames) = runs[1].stop + 1
  <1>1. /\ FramesFit /\ RunsNest /\ 1 \in Runs /\ Len(runs) \in Runs
        /\ top = frames[Len(frames)] /\ run = runs[Len(runs)] /\ Len(frames) \in Nat
        /\ runs[1].stop <= run.stop /\ run.stop < Len(frames) /\ run.stop \in Nat
        /\ runs[1].stop \in Nat /\ Len(runs) \in Nat \ {0} /\ runs # <<>>
    BY InCode DEF LoadInv
  <1>2. Len(frames) \in runs[1].stop + 1 .. Len(frames)
    BY <1>1
  <1>3. PICK i \in Runs : Len(frames) = runs[i].stop + 1
    BY <1>1, <1>2 DEF FramesFit, InProgram
  <1>4. runs[i].chunk = runs[1].chunk
    BY <1>1, <1>3 DEF FramesFit, InProgram
  <1>5. i = 1
    BY <1>1, <1>4 DEF PathInv, RunsHaveChunks
  <1>6. Len(runs) = 1
    <2>1. 1 < Len(runs) => runs[1].stop < run.stop
      BY <1>1 DEF RunsNest
    <2>2. ~(runs[1].stop < run.stop)
      BY <1>1, <1>3, <1>5
    <2>3. \A n \in Nat \ {0} : 1 = n \/ 1 < n
      OBVIOUS
    <2> QED BY <1>1, <2>1, <2>2, <2>3
  <1> QED BY <1>1, <1>3, <1>5, <1>6

\* The program comes to its end, the TRY blocks of its own code too.
LEMMA ProgramEnds ==
  ASSUME LoadInv, PathInv, mode = "code", Len(runs) = 1, Len(frames) = runs[1].stop + 1,
         OwnTries = {}, left' = {}, UNCHANGED <<tries, has_error>>,
         NEW depth, RunEnds("done", depth), frames' \in Seq(Frame)
  PROVE  LoadInv'
  <1>1. runs # <<>> /\ Types /\ TriesNest /\ runs[1].stop \in Nat /\ run = runs[1]
    BY InCode DEF LoadInv
  <1>2. Left
    BY <1>1, RunEndsLeaves
  <1>3. mode' = "host"
    <2>1. run.kind = "program"
      BY <1>1, ChunksLeft
    <2> QED BY <2>1 DEF RunEnds
  <1>4. Types'
    BY <1>1, <1>2, <1>3, LeftTypes DEF Types, Modes
  <1>5. RunsNest' /\ GlobalsNest'
    BY <1>1, <1>2, LeftNest, LeftGlobals
  <1>6. Len(tries) = 0
    <2>1. Len(tries) \in Nat /\ \A i \in 1 .. Len(tries) : tries[i] \in Nat
      BY <1>1, StateFacts
    <2>2. \A i \in 1 .. Len(tries) : tries[i] # Len(frames)
      BY <1>1 DEF OwnTries, TriesNest
    <2>3. ~(1 \in 1 .. Len(tries))
      BY <1>1, <2>1, <2>2 DEF TriesNest
    <2> QED BY <2>1, <2>3
  <1>7. TriesNest'
    BY <1>6 DEF TriesNest
  <1>8. FramesFit'
    <2>1. Len(runs') = 0 /\ runs' \in Seq(Run)
      BY <1>2 DEF Left
    <2>2. Runs' = {} /\ runs' = <<>>
      BY <2>1, SeqFacts DEF Runs
    <2> QED BY <2>2 DEF FramesFit
  <1> QED BY <1>4, <1>5, <1>7, <1>8 DEF LoadInv


\* An include or an eval comes to its end.
LEMMA ReturnLeaves ==
  ASSUME LoadInv, PathInv, mode = "code", Len(runs) # 1, Len(frames) - 1 = run.stop,
         OwnTries = {}, left' = left \cup OwnTries, frames' = Front(frames),
         RunEnds("done", run.stop), UNCHANGED <<tries, has_error>>
  PROVE  LoadInv'
  <1> DEFINE n == Len(runs) - 1
             s == run.stop
             Before(i) == EnvOf(i)
  <1>1. /\ Types /\ RunsNest /\ TriesNest /\ FramesFit /\ runs # <<>>
        /\ s \in Nat /\ Len(frames) = s + 1 /\ Len(frames) \in Nat \ {0}
        /\ \A i \in Runs : runs[i].stop \in Nat
        /\ runs[1].stop <= s /\ 1 \in Runs
    <2>1. Types /\ RunsNest /\ TriesNest
      BY DEF LoadInv
    <2>2. /\ FramesFit /\ runs # <<>> /\ s \in Nat
          /\ Len(frames) \in Nat \ {0} /\ runs[1].stop <= s /\ 1 \in Runs
      BY InCode
    <2>3. \A i \in Runs : runs[i].stop \in Nat
      BY <2>1, StateFacts
    <2>4. Len(frames) = s + 1
      BY <2>2
    <2> QED BY <2>1, <2>2, <2>3, <2>4
  <1>2. /\ Len(runs) \in Nat \ {0} /\ Len(runs) \in Runs /\ run = runs[Len(runs)]
        /\ \A i \in 1 .. n : i \in Runs /\ i < Len(runs)
        /\ \A i \in Runs : i \in 1 .. n \/ i = Len(runs)
    BY <1>1, Innermost
  <1>3. Left /\ mode' = "native"
    <2>1. run.kind # "program"
      BY <1>1, ChunksLeft
    <2> QED BY <1>1, <2>1, RunEndsLeaves DEF RunEnds
  <1>4. /\ frames' \in Seq(Frame) /\ Len(frames') = s
        /\ \A k \in 1 .. s : frames'[k] = frames[k]
        /\ \A k \in 1 .. s : k \in 1 .. Len(frames)
    <2>1. frames \in Seq(Frame) /\ frames # <<>>
      BY <1>1, SeqFacts DEF Types
    <2>2. frames' \in Seq(Frame) /\ Len(frames') = Len(frames) - 1
          /\ \A k \in 1 .. Len(frames') : frames'[k] = frames[k]
      BY <2>1, FrontFacts
    <2>3. Len(frames') = s
      BY <1>1, <2>2
    <2> QED BY <1>1, <2>2, <2>3
  <1>5. Types'
    <2>1. has_error' \in BOOLEAN
      BY <1>1 DEF Types
    <2> QED BY <1>1, <1>3, <1>4, <2>1, LeftTypes DEF Modes
  <1>6. RunsNest' /\ GlobalsNest'
    BY <1>1, <1>3, LeftNest, LeftGlobals
  <1>7. /\ Runs' = 1 .. n /\ Len(runs') = n /\ \A i \in 1 .. n : runs'[i] = runs[i]
        /\ \A i \in 1 .. n : EnvOf(i)' = Before(i)
        /\ n \in Nat \ {0} /\ runs' # <<>> /\ runs'[1] = runs[1] /\ 1 \in 1 .. n
    <2>1. Runs' = 1 .. n /\ Len(runs') = n /\ \A i \in 1 .. n : runs'[i] = runs[i]
      BY <1>3 DEF Left
    <2>2. \A i \in 1 .. n : i \in 0 .. Len(runs) - 1
      BY <1>2
    <2>3. \A i \in 1 .. n : EnvOf(i)' = Before(i)
      BY <1>1, <1>3, <2>2, LeftGlobals
    <2>4. n \in Nat \ {0} /\ 1 \in 1 .. n
      <3>1. \A x \in Nat \ {0} : x # 1 => x - 1 \in Nat \ {0} /\ 1 \in 1 .. x - 1
        OBVIOUS
      <3> QED BY <1>2, <3>1
    <2>5. runs' # <<>>
      <3>1. runs' \in Seq(Run) /\ Len(runs') # 0
        BY <1>3, <2>1, <2>4 DEF Left
      <3> QED BY <3>1, SeqFacts
    <2> QED BY <2>1, <2>3, <2>4, <2>5
  <1> HIDE DEF n, s, Before
  <1>8. TriesNest'
    <2>1. /\ Len(tries) \in Nat /\ \A i \in 1 .. Len(tries) : tries[i] \in Nat
          /\ \A i \in 1 .. Len(tries) : tries[i] # Len(frames)
      BY <1>1, StateFacts DEF OwnTries, TriesNest
    <2>2. \A i \in 1 .. Len(tries) : runs'[1].stop < tries'[i] /\ tries'[i] <= Len(frames')
      BY <1>1, <1>4, <1>7, <2>1 DEF TriesNest
    <2> QED BY <1>1, <1>7, <2>2 DEF TriesNest
  <1>9. \A i \in 1 .. n : runs[i].stop < s
    BY <1>1, <1>2 DEF RunsNest, s
  <1>10. ASSUME NEW i \in 1 .. n
         PROVE  /\ runs'[i].stop < s
                /\ frames'[runs'[i].stop + 1].top
                /\ frames'[runs'[i].stop + 1].chunk = runs'[i].chunk
                /\ \A k \in runs'[i].stop + 1 .. s :
                     i = n \/ k <= runs'[i + 1].stop => frames'[k].env = EnvOf(i)'
    <2>1. /\ i \in Runs /\ runs'[i] = runs[i] /\ EnvOf(i)' = Before(i)
          /\ runs[i].stop \in Nat /\ runs[i].stop < s
      BY <1>1, <1>2, <1>7, <1>9
    <2>2. /\ runs[i].stop + 1 \in 1 .. s
          /\ \A k \in runs[i].stop + 1 .. s : k \in 1 .. s /\ k \in runs[i].stop + 1 .. Len(frames)
      BY <1>1, <2>1
    <2>3. /\ frames[runs[i].stop + 1].top /\ frames[runs[i].stop + 1].chunk = runs[i].chunk
          /\ \A k \in runs[i].stop + 1 .. Len(frames) :
               i = Len(runs) \/ k <= runs[i + 1].stop => frames[k].env = Before(i)
      BY <1>1, <2>1 DEF FramesFit, Before
    <2>4. ASSUME NEW k \in runs[i].stop + 1 .. s, i = n \/ k <= runs'[i + 1].stop
          PROVE  k <= runs[i + 1].stop
      <3>1. CASE i = n
        <4>1. runs[i + 1].stop = s
          BY <1>2, <3>1 DEF n, s
        <4> QED BY <1>1, <4>1
      <3>2. CASE i # n
        <4>1. i + 1 \in 1 .. n
          BY <1>7, <3>2
        <4> QED BY <1>7, <2>4, <3>2, <4>1
      <3> QED BY <3>1, <3>2
    <2> QED BY <1>4, <2>1, <2>2, <2>3, <2>4
  <1>11. ASSUME NEW k \in runs'[1].stop + 1 .. s, frames'[k].top
         PROVE  \E i \in 1 .. n : k = runs'[i].stop + 1
    <2>1. /\ k \in 1 .. s /\ k \in runs[1].stop + 1 .. Len(frames) /\ frames'[k] = frames[k]
      BY <1>1, <1>4, <1>7
    <2>2. PICK i \in Runs : k = runs[i].stop + 1
      BY <1>1, <1>11, <2>1 DEF FramesFit
    <2>3. i # Len(runs)
      BY <1>1, <1>2, <2>1, <2>2 DEF s
    <2> QED BY <1>2, <1>7, <2>2, <2>3
  <1>12. FramesFit'
    BY <1>4, <1>7, <1>10, <1>11 DEF FramesFit
  <1> QED BY <1>5, <1>6, <1>8, <1>12 DEF LoadInv

\* What OP_RETURN ends: the program, the innermost include or eval, or a
\* function in it.
LEMMA ReturnEnds ==
  ASSUME LoadInv, PathInv, Return
  PROVE  \/ Len(runs) = 1 /\ Len(frames) = runs[1].stop + 1 /\ RunEnds("done", Len(frames) - 1)
         \/ Len(runs) # 1 /\ Len(frames) - 1 = run.stop /\ RunEnds("done", run.stop)
         \/ /\ Len(frames) - 1 > run.stop
            /\ UNCHANGED <<chunks, runs, eval_stop, envs, globals, value, mode>>
         \/ mode' = "lost" /\ "second_text_returns" \in strayed'
  <1> DEFINE count == Len(frames) - 1
             ends == count = 0 \/ (eval_stop # NoStop /\ count = eval_stop)
  <1>1. mode = "code"
    BY DEF Return
  <1>2. /\ FramesFit /\ RunsNest /\ runs # <<>> /\ Len(runs) \in Runs /\ 1 \in Runs
        /\ run = runs[Len(runs)]
        /\ run.stop \in Nat /\ runs[1].stop \in Nat /\ runs[1].stop <= run.stop
        /\ run.stop < Len(frames) /\ Len(frames) \in Nat \ {0} /\ Len(runs) \in Nat \ {0}
        /\ top = frames[Len(frames)]
    BY <1>1, InCode DEF LoadInv
  <1>3. \A n \in Nat \ {0} : n = 1 \/ 1 < n
    OBVIOUS
  <1>4. ASSUME ends
        PROVE  \/ Len(runs) = 1 /\ Len(frames) = runs[1].stop + 1
               \/ Len(runs) # 1 /\ count = run.stop
    <2>1. CASE Len(runs) = 1
      <3>1. count = 0
        BY <1>2, <1>4, <2>1 DEF RunsNest
      <3>2. Len(frames) = runs[1].stop + 1
        <4>1. \A l \in Nat \ {0}, r, t \in Nat : l - 1 = 0 /\ r <= t /\ t < l => l = r + 1
          OBVIOUS
        <4> QED BY <1>2, <3>1, <4>1
      <3> QED BY <2>1, <3>2
    <2>2. CASE Len(runs) # 1
      <3>1. 1 < Len(runs) /\ runs[1].stop < run.stop
        BY <1>2, <1>3, <2>2 DEF RunsNest
      <3>2. count # 0
        BY <1>2, <3>1
      <3>3. count = run.stop
        BY <1>2, <1>4, <3>1, <3>2 DEF RunsNest
      <3> QED BY <2>2, <3>3
    <2> QED BY <2>1, <2>2
  <1>5. ASSUME ~ends, ~InProgram
        PROVE  count > run.stop
    <2>1. count # run.stop
      <3>1. CASE Len(runs) = 1
        <4> SUFFICES ASSUME count = run.stop
                     PROVE  FALSE
          OBVIOUS
        <4>1. Len(frames) = runs[1].stop + 1
          BY <1>2, <3>1
        <4>2. frames[runs[1].stop + 1].top /\ frames[runs[1].stop + 1].chunk = runs[1].chunk
          BY <1>2 DEF FramesFit
        <4> QED BY <1>2, <1>5, <4>1, <4>2 DEF InProgram
      <3>2. CASE Len(runs) # 1
        <4>1. eval_stop = run.stop
          <5>1. ~(Len(runs) <= 1)
            <6>1. \A n \in Nat \ {0} : n # 1 => ~(n <= 1)
              OBVIOUS
            <6> QED BY <1>2, <3>2, <6>1
          <5> QED BY <1>2, <5>1 DEF RunsNest
        <4>2. eval_stop # NoStop
          <5>1. eval_stop \in Nat
            BY <1>2, <4>1
          <5> QED BY <5>1 DEF NoStop
        <4> QED BY <1>5, <4>1, <4>2
      <3> QED BY <3>1, <3>2
    <2> QED BY <1>2, <2>1
  <1> QED BY <1>4, <1>5 DEF Return

LEMMA ReturnKeeps ==
  ASSUME LoadInv, PathInv, Return, mode' # "lost", "leave_try" \notin strayed'
  PROVE  LoadInv'
  <1>1. /\ mode = "code" /\ frames' = Front(frames) /\ left' = left \cup OwnTries
        /\ UNCHANGED <<tries, has_error, given>>
    BY DEF Return
  <1>2. Types /\ Len(frames) \in Nat \ {0}
    BY <1>1, InCode DEF LoadInv
  <1>3. OwnTries = {} /\ left' = {}
    <2>1. OwnTries = {}
      BY DEF Return, StraysIf
    <2> QED BY <1>1, <2>1 DEF LoadInv, TriesNest
  <1>4. CASE /\ Len(runs) = 1 /\ Len(frames) = runs[1].stop + 1
             /\ RunEnds("done", Len(frames) - 1)
    <2>1. frames' \in Seq(Frame)
      BY <1>1, <1>2, SeqFacts, FrontFacts DEF Types
    <2> QED BY <1>1, <1>3, <1>4, <2>1, ProgramEnds
  <1>5. CASE Len(runs) # 1 /\ Len(frames) - 1 = run.stop /\ RunEnds("done", run.stop)
    BY <1>1, <1>3, <1>5, ReturnLeaves
  <1>6. CASE /\ Len(frames) - 1 > run.stop
             /\ UNCHANGED <<chunks, runs, eval_stop, envs, globals, value, mode>>
    BY <1>1, <1>3, <1>6, ReturnInside
  <1> QED BY <1>4, <1>5, <1>6, ReturnEnds

\* OP_HALT ends the program with its frame still there.
LEMMA HostHaltKeeps ==
  ASSUME LoadInv, PathInv, HostHalt
  PROVE  LoadInv'
  <1>1. /\ mode = "code" /\ InProgram /\ OwnTries = {} /\ RunEnds("done", Len(frames))
        /\ UNCHANGED <<frames, tries, left, has_error>>
    BY DEF HostHalt
  <1>2. Len(runs) = 1 /\ Len(frames) = runs[1].stop + 1
    BY <1>1, ProgramIsAlone
  <1>3. left' = {} /\ frames' \in Seq(Frame)
    BY <1>1 DEF LoadInv, TriesNest, Types
  <1> QED BY <1>1, <1>2, <1>3, ProgramEnds

LEMMA CallStepKeeps ==
  ASSUME LoadInv, PathInv, NEW c \in 1 .. Len(chunks), Call(c), mode' # "lost",
         "catch_across" \notin strayed'
  PROVE  LoadInv'
  <1>1. mode = "code" /\ c \in Nat
    BY PathFacts DEF Call, PathInv
  <1>2. CASE HandleError
    BY <1>1, <1>2, HandleErrorKeeps
  <1>3. CASE /\ frames' = Append(frames, [chunk |-> c, top |-> FALSE, env |-> globals])
             /\ UNCHANGED <<runs, eval_stop, tries, left, envs, globals, has_error, mode>>
    BY <1>1, <1>3, CallKeeps
  <1> QED BY <1>2, <1>3 DEF Call

LEMMA NativeReturnKeeps ==
  ASSUME LoadInv, PathInv, NativeReturn, mode' # "lost", "catch_across" \notin strayed'
  PROVE  LoadInv'
  <1>1. CASE has_error
    BY <1>1, HandleErrorKeeps DEF NativeReturn
  <1>2. CASE ~has_error
    <2>1. /\ envs' = [envs EXCEPT ![globals].fns = @ \cup ({value} \ {Nothing})]
          /\ UNCHANGED <<frames, runs, eval_stop, tries, left, globals, has_error>>
          /\ mode' = "code" /\ ~Doomed
      BY <1>2 DEF NativeReturn, Doomed
    <2>2. {value} \ {Nothing} \in SUBSET Nat /\ has_error' \in BOOLEAN /\ mode' \in Modes
      BY <2>1 DEF PathInv, PathTypes, LoadInv, Types, Modes
    <2> QED BY <2>1, <2>2, FunctionsAddedKeep
  <1> QED BY <1>1, <1>2

LEMMA DeclareKeeps ==
  ASSUME LoadInv, PathInv, Declare
  PROVE  LoadInv'
  <1>1. /\ envs' = [envs EXCEPT ![globals].fns = @ \cup {top.chunk}] /\ mode = "code"
        /\ UNCHANGED <<frames, runs, eval_stop, tries, left, globals, has_error, mode>>
    BY DEF Declare
  <1>2. {top.chunk} \in SUBSET Nat
    <2>1. Len(frames) \in 1 .. Len(frames) /\ top = frames[Len(frames)]
      BY <1>1, InCode
    <2> QED BY <2>1, StateFacts DEF LoadInv, Frame
  <1>3. has_error' \in BOOLEAN /\ mode' \in Modes /\ ~Doomed
    BY <1>1 DEF LoadInv, Types, Doomed
  <1> QED BY <1>1, <1>2, <1>3, FunctionsAddedKeep

\* As long as no error was caught across a vm_run and no TRY left open.
Kept == strayed \cap {"catch_across", "leave_try"} = {} /\ mode # "lost"

LEMMA StraysStay ==
  ASSUME [Next]_vars
  PROVE  strayed \subseteq strayed' /\ (mode = "lost" => mode' = "lost")
  <1>1. HandleError => strayed \subseteq strayed'
    BY DEF HandleError, StraysIf
  <1>2. \A kind, chunk, sandbox : strayed \subseteq strayed' =>
          (EnterRun(kind, chunk, sandbox) => strayed \subseteq strayed')
    OBVIOUS
  <1>3. CASE HostParseError \/ HostHalt \/ \E d \in Dirs \cup {NoDir} : HostRun(d)
    BY <1>3 DEF HostParseError, HostHalt, HostRun, history
  <1>4. CASE Throw \/ TryBegin \/ TryEnd \/ LeaveTry \/ Declare
    BY <1>1, <1>4 DEF Throw, TryBegin, TryEnd, LeaveTry, Declare, StraysIf, history
  <1>5. CASE Return
    BY <1>5 DEF Return, StraysIf
  <1>6. CASE \E c \in 1 .. Len(chunks) : Call(c)
    BY <1>1, <1>6 DEF Call, history
  <1>7. CASE \E n \in Names : \/ IncludeFails(n) \/ IncludeCached(n)
                              \/ IncludeRuns(n) \/ IncludeBinary(n)
    BY <1>7 DEF IncludeFails, IncludeCached, IncludeRuns, IncludeBinary, history
  <1>8. CASE EvalFails \/ \E s \in BOOLEAN : EvalRuns(s)
    BY <1>8 DEF EvalFails, EvalRuns, history
  <1>9. CASE NativeReturn
    BY <1>1, <1>9 DEF NativeReturn, history
  <1>10. CASE Ended \/ UNCHANGED vars
    BY <1>10 DEF Ended, vars, history
  <1>11. mode = "lost" => Ended \/ UNCHANGED vars
    BY DEF Next, HostParseError, HostHalt, HostRun, Throw, TryBegin, TryEnd, LeaveTry, Declare,
           Return, Call, IncludeFails, IncludeCached, IncludeRuns, IncludeBinary, EvalFails,
           EvalRuns, NativeReturn
  <1> QED BY <1>3, <1>4, <1>5, <1>6, <1>7, <1>8, <1>9, <1>10, <1>11 DEF Next, Ended, vars

\* Texts, modules and evals begin, or fail to.
LEMMA EntersKeep ==
  ASSUME LoadInv, PathInv, mode' # "lost",
         \/ \E d \in Dirs \cup {NoDir} : HostRun(d)
         \/ \E n \in Names : IncludeRuns(n)
         \/ \E s \in BOOLEAN : EvalRuns(s)
  PROVE  LoadInv'
  <1>1. CASE /\ UNCHANGED <<frames, runs, eval_stop, tries, left, envs, globals>>
             /\ has_error' = TRUE /\ mode \in {"host", "code"} /\ mode' \in {mode, "native"}
    <2>1. /\ SameRuns /\ ~Doomed /\ envs' \in Seq(Env) /\ has_error' \in BOOLEAN
          /\ mode' \in Modes
      BY <1>1, EnvsUntouched DEF Doomed, LoadInv, Types, Modes
    <2> QED BY <1>1, <2>1, QuietKeeps
  <1>2. ASSUME NEW d \in Dirs \cup {NoDir}, HostRun(d)
        PROVE  LoadInv'
    <2>1. mode = "host"
      BY <1>2 DEF HostRun
    <2>2. CASE EnterRun("program", Program(d), FALSE)
      BY <2>1, <2>2, EnterRunKeeps DEF MayNest
    <2> QED BY <1>1, <1>2, <2>1, <2>2 DEF HostRun
  <1>3. ASSUME NEW n \in Names, IncludeRuns(n)
        PROVE  LoadInv'
    <2>1. mode = "code"
      BY <1>3 DEF IncludeRuns
    <2>2. ASSUME NEW m, EnterRun("include", m, FALSE)
          PROVE  LoadInv'
      BY <2>1, <2>2, EnterRunKeeps DEF MayNest
    <2> QED BY <1>1, <1>3, <2>1, <2>2 DEF IncludeRuns, NativeGives
  <1>4. ASSUME NEW s \in BOOLEAN, EvalRuns(s)
        PROVE  LoadInv'
    <2>1. mode = "code"
      BY <1>4 DEF EvalRuns
    <2>2. ASSUME NEW m, EnterRun("eval", m, s)
          PROVE  LoadInv'
      BY <2>1, <2>2, EnterRunKeeps DEF MayNest
    <2> QED BY <1>1, <1>4, <2>1, <2>2 DEF EvalRuns, EvalFails, NativeGives
  <1> QED BY <1>2, <1>3, <1>4

LEMMA LoadStep ==
  ASSUME Kept => LoadInv, PathInv, [Next]_vars, Kept'
  PROVE  LoadInv'
  <1>1. /\ LoadInv /\ mode # "lost" /\ mode' # "lost"
        /\ "catch_across" \notin strayed' /\ "leave_try" \notin strayed'
    BY StraysStay DEF Kept
  <1>2. CASE /\ UNCHANGED <<frames, runs, eval_stop, tries, left, envs, globals>>
             /\ has_error' \in BOOLEAN
             /\ mode \in {"host", "code"} /\ mode' \in {mode, "native"}
    <2>1. SameRuns /\ ~Doomed /\ envs' \in Seq(Env) /\ mode' \in Modes
      BY <1>1, <1>2, EnvsUntouched DEF Doomed, LoadInv, Types, Modes
    <2> QED BY <1>1, <1>2, <2>1, QuietKeeps
  <1>3. CASE HostParseError
    BY <1>2, <1>3 DEF HostParseError
  <1>4. CASE \E n \in Names : IncludeFails(n) \/ IncludeCached(n) \/ IncludeBinary(n)
    <2>1. has_error \in BOOLEAN
      BY <1>1 DEF LoadInv, Types
    <2> QED BY <1>1, <1>2, <1>4, <2>1
            DEF IncludeFails, IncludeCached, IncludeBinary, NativeGives
  <1>5. CASE EvalFails
    BY <1>2, <1>5 DEF EvalFails, NativeGives
  <1>6. CASE Ended \/ UNCHANGED vars
    <2>1. UNCHANGED <<frames, runs, eval_stop, tries, left, envs, globals, has_error, mode>>
      BY <1>6 DEF Ended, vars
    <2>2. SameRuns /\ envs' \in Seq(Env) /\ has_error' \in BOOLEAN /\ mode' \in Modes
      BY <1>1, <2>1, EnvsUntouched DEF LoadInv, Types
    <2>3. Doomed => Doomed'
      BY <2>1 DEF Doomed
    <2> QED BY <1>1, <2>1, <2>2, <2>3, QuietKeeps
  <1>7. CASE \/ \E d \in Dirs \cup {NoDir} : HostRun(d)
             \/ \E n \in Names : IncludeRuns(n)
             \/ \E s \in BOOLEAN : EvalRuns(s)
    BY <1>1, <1>7, EntersKeep
  <1>8. CASE HostHalt
    BY <1>1, <1>8, HostHaltKeeps
  <1>9. CASE Throw
    BY <1>1, <1>9, HandleErrorKeeps DEF Throw
  <1>10. CASE TryBegin \/ TryEnd
    BY <1>1, <1>10, TryBeginKeeps, TryEndKeeps
  <1>11. ~LeaveTry
    BY <1>1 DEF LeaveTry
  <1>12. CASE Declare
    BY <1>1, <1>12, DeclareKeeps
  <1>13. CASE Return
    BY <1>1, <1>13, ReturnKeeps
  <1>14. CASE \E c \in 1 .. Len(chunks) : Call(c)
    BY <1>1, <1>14, CallStepKeeps
  <1>15. CASE NativeReturn
    BY <1>1, <1>15, NativeReturnKeeps
  <1> QED BY <1>3, <1>4, <1>5, <1>6, <1>7, <1>8, <1>9, <1>10, <1>11, <1>12, <1>13, <1>14, <1>15
          DEF Next

LEMMA InitFits ==
  ASSUME Init
  PROVE  LoadInv
  <1> DEFINE e == [live |-> TRUE, fns |-> {}]
  <1>1. /\ frames = <<>> /\ runs = <<>> /\ tries = <<>> /\ left = {}
        /\ eval_stop = NoStop /\ envs = <<e>> /\ globals = 1 /\ has_error = FALSE /\ mode = "host"
    BY DEF Init
  <1>2. \A S : <<>> \in Seq(S) /\ Len(<<>>) = 0
    BY EmptySeq
  <1>3. e \in Env /\ e.live
    BY DEF Env
  <1> HIDE DEF e
  <1>4. envs \in Seq(Env) /\ Len(envs) = 1 /\ envs[1].live
    <2>1. <<e>> \in Seq(Env) /\ Len(<<e>>) = 1 /\ <<e>>[1] = e
      BY <1>3
    <2> QED BY <1>1, <1>3, <2>1
  <1>5. Types
    <2>1. NoStop \in Int /\ 1 \in Nat
      BY DEF NoStop
    <2>2. has_error \in BOOLEAN /\ mode \in Modes
      BY <1>1, Zenon DEF Modes
    <2> QED BY <1>1, <1>2, <1>4, <2>1, <2>2 DEF Types
  <1>6. Runs = {}
    BY <1>1, <1>2 DEF Runs
  <1>7. RunsNest
    BY <1>1, <1>2, <1>6 DEF RunsNest
  <1>8. Len(runs) = 0 /\ Len(tries) = 0 /\ \A i \in 1 .. Len(tries) : FALSE
    BY <1>1, <1>2
  <1>9. \A i \in 0 .. Len(runs) : i = 0 /\ EnvOf(i) = 1
    BY <1>1, <1>8 DEF EnvOf
  <1>10. GlobalsNest
    <2>1. 0 \in 0 .. Len(runs)
      BY <1>8
    <2> QED BY <1>4, <1>6, <1>9, <2>1 DEF GlobalsNest
  <1>11. TriesNest
    BY <1>1, <1>8 DEF TriesNest
  <1>12. FramesFit
    BY <1>1, <1>6 DEF FramesFit
  <1> QED BY <1>5, <1>7, <1>10, <1>11, <1>12 DEF LoadInv

LEMMA LoadInvHolds == Spec => []((Kept => LoadInv) /\ PathInv)
  <1>1. Init => (Kept => LoadInv) /\ PathInv
    BY InitFits, PathInit
  <1>2. (Kept => LoadInv) /\ PathInv /\ [Next]_vars => ((Kept => LoadInv) /\ PathInv)'
    BY LoadStep, PathStep
  <1> QED BY <1>1, <1>2, PTL DEF Spec

\* Whatever programs do, as long as no error is caught across a vm_run and no
\* TRY is left open, the code that runs next does so in its own vm_run, with
\* its own globals, and ends it at its own depth (sandbox_exit and
\* eval_stop_frame in source/lib/eval.c, source/lib/include.c and vm_run), and
\* a host gets its own globals back.
THEOREM CodeResumes == Spec => []CodeResumesWhereItWas
  <1>1. (Kept => LoadInv) /\ PathInv => CodeResumesWhereItWas
    <2> SUFFICES ASSUME Kept => LoadInv, PathInv, strayed \cap {"catch_across", "leave_try"} = {}
                 PROVE  /\ CaughtByCaller
                        /\ mode = "code" => globals = top.env /\ envs[globals].live
                        /\ mode \in {"code", "native"} =>
                             eval_stop = IF Len(runs) <= 1 THEN NoStop ELSE run.stop
                        /\ mode = "host" => globals = 1 /\ tries = <<>> /\ eval_stop = NoStop
      BY DEF CodeResumesWhereItWas
    <2>1. mode # "lost" => LoadInv
      BY DEF Kept
    <2>2. mode = "code" => /\ CaughtByCaller /\ globals = top.env /\ envs[globals].live
      <3> SUFFICES ASSUME mode = "code"
                   PROVE  CaughtByCaller /\ globals = top.env /\ envs[globals].live
        OBVIOUS
      <3>1. run.stop < Len(frames) /\ Len(frames) \in Nat /\ run.stop \in Nat
            /\ globals = top.env /\ envs[globals].live
        BY <2>1, InCode
      <3> QED BY <3>1 DEF CaughtByCaller
    <2>3. mode \in {"code", "native"} => eval_stop = IF Len(runs) <= 1 THEN NoStop ELSE run.stop
      BY <2>1 DEF LoadInv, RunsNest
    <2>4. mode = "host" => globals = 1 /\ tries = <<>> /\ eval_stop = NoStop
      <3> SUFFICES ASSUME mode = "host"
                   PROVE  globals = 1 /\ tries = <<>> /\ eval_stop = NoStop
        OBVIOUS
      <3>1. /\ runs = <<>> /\ Types /\ TriesNest /\ RunsNest /\ GlobalsNest
        BY <2>1 DEF PathInv, RunsHaveChunks, LoadInv
      <3>2. Len(runs) = 0 /\ Len(tries) \in Nat /\ (tries = <<>> <=> Len(tries) = 0)
        BY <3>1, StateFacts
      <3>3. ~(1 \in 1 .. Len(tries)) => tries = <<>>
        BY <3>2
      <3> QED BY <3>1, <3>2, <3>3 DEF TriesNest, RunsNest, GlobalsNest, EnvOf
    <2>5. mode # "code" => CaughtByCaller
      BY DEF CaughtByCaller
    <2> QED BY <2>2, <2>3, <2>4, <2>5
  <1> QED BY <1>1, LoadInvHolds, PTL

-----------------------------------------------------------------------------
(* Chunks and their functions, as long as nothing has strayed.             *)

\* No vm_run has its chunk among the frames below it; the frames of the program
\* and of what is nested in it are of chunks in memory, those of texts of such
\* as are running, with the globals they run with.
FramesLive ==
    /\ \A i \in Runs : \A k \in 1 .. runs[i].stop : frames[k].chunk # runs[i].chunk
    /\ runs # <<>> => \A k \in runs[1].stop + 1 .. Len(frames) :
         /\ chunks[frames[k].chunk].live
         /\ ~Loaded(frames[k].chunk) =>
              \E j \in Runs : runs[j].chunk = frames[k].chunk /\ EnvOf(j) = frames[k].env

\* A function that is found in globals is of a module, which stays, or of a text
\* that owns these globals: the program, or one that runs in a sandbox.
FunctionFits(e, c) ==
    /\ c \in 1 .. Len(chunks)
    /\ Loaded(c) => chunks[c].live
    /\ ~Loaded(c) => \/ runs = <<>> /\ e = 1
                     \/ \E i \in Runs : /\ runs[i].chunk = c /\ EnvOf(i) = e
                                        /\ i = 1 \/ runs[i].sandbox

FunctionsFit == \A e \in 1 .. Len(envs) : \A c \in envs[e].fns : FunctionFits(e, c)

FramesKnown == \A k \in 1 .. Len(frames) : frames[k].chunk \in 1 .. Len(chunks)

\* An error no handler takes leaves the frames of what it has passed.
Escaping == has_error /\ tries = <<>>

Live ==
    /\ FramesKnown
    /\ has_error => mode # "code"
    /\ value # Nothing => Loaded(value)
    /\ ~Escaping => FramesLive /\ FunctionsFit

\* The chunks there were are what they were.
ChunksGrow == /\ Len(chunks) \in Nat /\ Len(chunks') \in Nat /\ Len(chunks) <= Len(chunks')
              /\ \A c \in 1 .. Len(chunks) : chunks'[c] = chunks[c]

LEMMA GrownChunk ==
  ASSUME ChunksGrow, NEW c \in 1 .. Len(chunks)
  PROVE  c \in 1 .. Len(chunks') /\ chunks'[c] = chunks[c] /\ (Loaded(c)' <=> Loaded(c))
  BY DEF ChunksGrow, Loaded

LEMMA ChunksUntouched ==
  ASSUME PathTypes, UNCHANGED chunks
  PROVE  ChunksGrow
  BY PathFacts DEF ChunksGrow

\* What is added to globals fits.
LEMMA FunctionsKept ==
  ASSUME FunctionsFit, ChunksGrow, UNCHANGED <<runs, globals>>, Len(envs') = Len(envs),
         \A e \in 1 .. Len(envs) : \A c \in envs'[e].fns :
           c \in envs[e].fns \/ FunctionFits(e, c)
  PROVE  FunctionsFit'
  <1>1. Runs' = Runs /\ \A i : EnvOf(i)' = EnvOf(i)
    BY DEF Runs, EnvOf
  <1> SUFFICES ASSUME NEW e \in 1 .. Len(envs), NEW c \in envs'[e].fns
               PROVE  FunctionFits(e, c)'
    BY DEF FunctionsFit
  <1>2. FunctionFits(e, c)
    BY DEF FunctionsFit
  <1>3. c \in 1 .. Len(chunks') /\ chunks'[c] = chunks[c] /\ (Loaded(c)' <=> Loaded(c))
    BY <1>2, GrownChunk DEF FunctionFits
  <1> QED BY <1>1, <1>2, <1>3 DEF FunctionFits

\* No frame is new.
LEMMA FramesStay ==
  ASSUME Types, PathInv, FramesKnown, FramesLive, ChunksGrow, UNCHANGED <<runs, globals>>,
         NEW n \in Nat, n <= Len(frames), \A i \in Runs : runs[i].stop <= n,
         Len(frames') = n, \A k \in 1 .. n : frames'[k] = frames[k]
  PROVE  FramesLive'
  <1>1. Runs' = Runs /\ \A i : EnvOf(i)' = EnvOf(i)
    BY DEF Runs, EnvOf
  <1>2. /\ Len(frames) \in Nat /\ \A i \in Runs : runs[i].stop \in Nat
        /\ runs # <<>> => 1 \in Runs
    BY StateFacts DEF Runs
  <1>3. \A k \in 1 .. n : k \in 1 .. Len(frames) /\ frames'[k] = frames[k]
    BY <1>2
  <1>4. \A i \in Runs' : \A k \in 1 .. runs'[i].stop : frames'[k].chunk # runs'[i].chunk
    <2>1. \A i \in Runs : \A k \in 1 .. runs[i].stop : k \in 1 .. n
      BY <1>2
    <2> QED BY <1>1, <1>3, <2>1 DEF FramesLive
  <1>5. ASSUME runs # <<>>, NEW k \in runs[1].stop + 1 .. n
        PROVE  /\ chunks'[frames'[k].chunk].live
               /\ chunks'[frames'[k].chunk].path = Text =>
                    \E j \in Runs : runs[j].chunk = frames'[k].chunk /\ EnvOf(j) = frames'[k].env
    <2>1. k \in 1 .. n /\ k \in runs[1].stop + 1 .. Len(frames)
      BY <1>2, <1>5
    <2>2. frames'[k] = frames[k] /\ frames[k].chunk \in 1 .. Len(chunks)
      BY <1>3, <2>1 DEF FramesKnown
    <2>3. /\ chunks'[frames[k].chunk] = chunks[frames[k].chunk]
          /\ Loaded(frames[k].chunk)' <=> Loaded(frames[k].chunk)
      BY <2>2, GrownChunk
    <2> QED BY <1>5, <2>1, <2>2, <2>3 DEF FramesLive, Loaded
  <1>6. (runs # <<>> => \A k \in runs[1].stop + 1 .. Len(frames) :
           /\ chunks[frames[k].chunk].live
           /\ ~Loaded(frames[k].chunk) =>
                \E j \in Runs : runs[j].chunk = frames[k].chunk /\ EnvOf(j) = frames[k].env)'
    BY <1>1, <1>5 DEF Loaded
  <1> QED BY <1>4, <1>6 DEF FramesLive

LEMMA FramesStayKnown ==
  ASSUME FramesKnown, ChunksGrow, Len(frames) \in Nat, NEW n \in Nat, n <= Len(frames),
         Len(frames') = n, \A k \in 1 .. n : frames'[k] = frames[k]
  PROVE  FramesKnown'
  BY GrownChunk DEF FramesKnown

\* Steps that touch neither frames nor functions.
LEMMA QuietLive ==
  ASSUME LoadInv, PathInv, Live, ChunksGrow, UNCHANGED <<frames, runs, globals, envs>>,
         Escaping => Escaping', ~Escaping => FramesFit,
         has_error' => mode' # "code", value' # Nothing => Loaded(value)'
  PROVE  Live'
  <1>1. Types /\ Len(frames) \in Nat /\ FramesKnown
    BY StateFacts DEF LoadInv, Live
  <1>2. FramesKnown'
    BY <1>1, FramesStayKnown
  <1>3. ASSUME ~Escaping'
        PROVE  FramesLive' /\ FunctionsFit'
    <2>1. FramesLive /\ FunctionsFit /\ FramesFit
      BY <1>3 DEF Live
    <2>2. \A i \in Runs : runs[i].stop <= Len(frames)
      BY <1>1, <2>1, StateFacts DEF FramesFit
    <2>3. FramesLive'
      BY <1>1, <2>1, <2>2, FramesStay
    <2>4. FunctionsFit'
      BY <2>1, FunctionsKept
    <2> QED BY <2>3, <2>4
  <1>4. (value # Nothing => Loaded(value))'
    OBVIOUS
  <1> QED BY <1>2, <1>3, <1>4 DEF Live

\* Some of the frames of the innermost vm_run go.
LEMMA CutLive ==
  ASSUME LoadInv, PathInv, Live, ~Escaping, FramesFit, runs # <<>>,
         UNCHANGED <<chunks, runs, globals, envs, value>>,
         NEW n \in Nat, n <= Len(frames), run.stop < n,
         Len(frames') = n, \A k \in 1 .. n : frames'[k] = frames[k],
         has_error' => mode' # "code"
  PROVE  Live'
  <1>1. /\ Types /\ RunsNest /\ Len(frames) \in Nat /\ FramesKnown /\ FramesLive /\ FunctionsFit
        /\ \A i \in Runs : runs[i].stop \in Nat
        /\ Len(runs) \in Runs /\ run = runs[Len(runs)] /\ ChunksGrow
        /\ \A i \in Runs : i \in 1 .. Len(runs) - 1 \/ i = Len(runs)
        /\ \A i \in 1 .. Len(runs) - 1 : i \in Runs /\ i < Len(runs)
    BY StateFacts, Innermost, ChunksUntouched DEF LoadInv, Live, PathInv
  <1>2. \A i \in Runs : runs[i].stop <= n
    BY <1>1 DEF RunsNest
  <1>3. FramesLive' /\ FramesKnown'
    BY <1>1, <1>2, FramesStay, FramesStayKnown
  <1>4. FunctionsFit'
    BY <1>1, FunctionsKept
  <1>5. (value # Nothing => Loaded(value))'
    BY DEF Live, Loaded
  <1> QED BY <1>3, <1>4, <1>5 DEF Live

LEMMA LiveInCode ==
  ASSUME LoadInv, PathInv, Live, mode = "code"
  PROVE  /\ ~has_error /\ ~Escaping /\ FramesFit /\ FramesKnown /\ FramesLive /\ FunctionsFit
         /\ top.chunk \in 1 .. Len(chunks) /\ chunks[top.chunk].live
         /\ ~Loaded(top.chunk) => \E j \in Runs : runs[j].chunk = top.chunk /\ EnvOf(j) = globals
  <1>1. ~has_error /\ ~Escaping /\ FramesKnown /\ FramesLive /\ FunctionsFit
    BY DEF Live, Escaping
  <1>2. /\ FramesFit /\ runs # <<>> /\ runs[1].stop \in Nat /\ runs[1].stop <= run.stop
        /\ run.stop \in Nat /\ run.stop < Len(frames) /\ Len(frames) \in Nat
        /\ top = frames[Len(frames)] /\ top.env = globals
    BY InCode
  <1>3. Len(frames) \in 1 .. Len(frames) /\ Len(frames) \in runs[1].stop + 1 .. Len(frames)
    BY <1>2
  <1> QED BY <1>1, <1>2, <1>3 DEF FramesKnown, FramesLive

\* A function found in the globals is of a chunk in memory, and if it is a
\* text's the globals are its own.
LEMMA CallableIsAlive ==
  ASSUME LoadInv, PathInv, Live, mode = "code", NEW c \in envs[globals].fns
  PROVE  /\ c \in 1 .. Len(chunks) /\ chunks[c].live
         /\ ~Loaded(c) => \E i \in Runs : runs[i].chunk = c /\ EnvOf(i) = globals
  <1>1. FunctionFits(globals, c)
    BY LiveInCode, InCode DEF FunctionsFit
  <1>2. runs # <<>> /\ \A i \in Runs : chunks[runs[i].chunk].live
    BY InCode DEF PathInv, RunsHaveChunks
  <1> QED BY <1>1, <1>2 DEF FunctionFits

LEMMA PushLive ==
  ASSUME LoadInv, PathInv, Live, mode = "code", NEW c \in envs[globals].fns,
         frames' = Append(frames, [chunk |-> c, top |-> FALSE, env |-> globals]),
         UNCHANGED <<chunks, runs, globals, envs, value, has_error, mode>>
  PROVE  Live'
  <1> DEFINE f == [chunk |-> c, top |-> FALSE, env |-> globals]
             n == Len(frames)
  <1>1. /\ Types /\ FramesFit /\ FramesKnown /\ FramesLive /\ FunctionsFit /\ ~has_error
        /\ n \in Nat /\ \A i \in Runs : runs[i].stop \in Nat
        /\ ChunksGrow
    BY LiveInCode, StateFacts, ChunksUntouched DEF LoadInv, PathInv
  <1>2. /\ c \in 1 .. Len(chunks) /\ chunks[c].live
        /\ ~Loaded(c) => \E i \in Runs : runs[i].chunk = c /\ EnvOf(i) = globals
    BY CallableIsAlive
  <1>3. f \in Frame /\ f.chunk = c /\ f.env = globals
    BY <1>1, <1>2, PathFacts DEF Frame, Types, PathInv
  <1>4. /\ Len(frames') = n + 1 /\ frames'[n + 1] = f
        /\ \A k \in 1 .. n : frames'[k] = frames[k]
    BY <1>1, <1>3, AppendFacts DEF Types
  <1> HIDE DEF f
  <1>5. \A k \in 1 .. n + 1 : k \in 1 .. n \/ k = n + 1
    BY <1>1
  <1>6. FramesKnown'
    BY <1>1, <1>2, <1>3, <1>4, <1>5 DEF FramesKnown
  <1>7. Runs' = Runs /\ \A i : EnvOf(i)' = EnvOf(i)
    BY DEF Runs, EnvOf
  <1>8. \A i \in Runs : \A k \in 1 .. runs[i].stop : frames'[k].chunk # runs[i].chunk
    <2>1. \A i \in Runs : \A k \in 1 .. runs[i].stop : k \in 1 .. n
      BY <1>1 DEF FramesFit
    <2> QED BY <1>1, <1>4, <2>1 DEF FramesLive
  <1>9. ASSUME runs # <<>>, NEW k \in runs[1].stop + 1 .. n + 1
        PROVE  /\ chunks[frames'[k].chunk].live
               /\ ~Loaded(frames'[k].chunk) =>
                    \E j \in Runs : runs[j].chunk = frames'[k].chunk /\ EnvOf(j) = frames'[k].env
    <2>1. CASE k = n + 1
      BY <1>2, <1>3, <1>4, <2>1
    <2>2. CASE k # n + 1
      <3>1. 1 \in Runs
        BY <1>1, <1>9, StateFacts DEF Runs
      <3>2. k \in 1 .. n /\ k \in runs[1].stop + 1 .. Len(frames)
        BY <1>1, <2>2, <3>1
      <3> QED BY <1>1, <1>4, <1>9, <3>2 DEF FramesLive
    <2> QED BY <2>1, <2>2
  <1>10. FramesLive'
    BY <1>4, <1>7, <1>8, <1>9 DEF FramesLive, Loaded
  <1>11. FunctionsFit'
    BY <1>1, FunctionsKept
  <1>12. (value # Nothing => Loaded(value))'
    BY DEF Live, Loaded
  <1> QED BY <1>1, <1>6, <1>10, <1>11, <1>12 DEF Live

LEMMA CallLive ==
  ASSUME LoadInv, PathInv, Live, NEW c \in 1 .. Len(chunks), Call(c)
  PROVE  (mode' # "lost" /\ Live') \/ HandleError
  <1>1. mode = "code" /\ c \in envs[globals].fns
    BY DEF Call
  <1>2. chunks[c].live
    BY <1>1, CallableIsAlive
  <1>3. CASE /\ frames' = Append(frames, [chunk |-> c, top |-> FALSE, env |-> globals])
             /\ UNCHANGED <<chunks, runs, globals, envs, value, has_error, mode>>
    BY <1>1, <1>3, PushLive
  <1> QED BY <1>2, <1>3 DEF Call

\* Functions are added to the current globals.
LEMMA AddLive ==
  ASSUME LoadInv, PathInv, Live, ~has_error, FramesFit, NEW S \in SUBSET Nat,
         \A c \in S : FunctionFits(globals, c),
         envs' = [envs EXCEPT ![globals].fns = @ \cup S],
         UNCHANGED <<chunks, frames, runs, globals, has_error>>,
         value' \in {value, Nothing}
  PROVE  Live'
  <1>1. /\ Types /\ FramesKnown /\ FramesLive /\ FunctionsFit /\ ChunksGrow /\ Len(frames) \in Nat
        /\ \A i \in Runs : runs[i].stop <= Len(frames)
    <2>1. /\ Types /\ FramesKnown /\ FramesLive /\ FunctionsFit /\ ChunksGrow
      BY ChunksUntouched DEF LoadInv, Live, Escaping, PathInv
    <2>2. Len(frames) \in Nat /\ \A i \in Runs : runs[i].stop <= Len(frames)
      BY <2>1, StateFacts DEF FramesFit
    <2> QED BY <2>1, <2>2
  <1>2. /\ Len(envs') = Len(envs)
        /\ \A e \in 1 .. Len(envs) : \A c \in envs'[e].fns : c \in envs[e].fns \/ FunctionFits(e, c)
    <2>1. envs \in Seq(Env) /\ globals \in 1 .. Len(envs)
      BY GlobalsExist DEF LoadInv, Types
    <2>2. \A more : more = [envs EXCEPT ![globals].fns = @ \cup S] =>
            /\ more \in Seq(Env) /\ Len(more) = Len(envs)
            /\ \A e \in 1 .. Len(envs) :
                 /\ more[e].live = envs[e].live
                 /\ more[e].fns = IF e = globals THEN envs[e].fns \cup S ELSE envs[e].fns
      BY <2>1, FunctionsAdded
    <2>3. /\ Len(envs') = Len(envs)
          /\ \A e \in 1 .. Len(envs) :
               envs'[e].fns = IF e = globals THEN envs[e].fns \cup S ELSE envs[e].fns
      BY <2>2
    <2> QED BY <2>3
  <1>3. FunctionsFit'
    BY <1>1, <1>2, FunctionsKept
  <1>4. FramesKnown' /\ FramesLive'
    BY <1>1, FramesStay, FramesStayKnown
  <1>5. (value # Nothing => Loaded(value))'
    BY DEF Live, Loaded
  <1> QED BY <1>3, <1>4, <1>5 DEF Live

\* What a text declares that owns the globals.
LEMMA DeclareLive ==
  ASSUME LoadInv, PathInv, Live, Declare, strayed' = {}
  PROVE  Live'
  <1>1. /\ mode = "code"
        /\ Loaded(top.chunk) \/ run.sandbox \/ run.kind = "program"
        /\ envs' = [envs EXCEPT ![globals].fns = @ \cup {top.chunk}]
        /\ UNCHANGED <<chunks, frames, runs, globals, has_error, value>>
    BY DEF Declare, StraysIf
  <1>2. /\ ~has_error /\ FramesFit
        /\ top.chunk \in 1 .. Len(chunks) /\ chunks[top.chunk].live
        /\ ~Loaded(top.chunk) => \E j \in Runs : runs[j].chunk = top.chunk /\ EnvOf(j) = globals
    BY <1>1, LiveInCode
  <1>3. /\ RunsNest /\ GlobalsNest /\ Len(runs) \in Nat /\ Len(runs) \in Runs
        /\ run = runs[Len(runs)] /\ RunsHaveChunks
    BY <1>1, InCode, StateFacts DEF LoadInv, PathInv
  <1>4. FunctionFits(globals, top.chunk)
    <2>1. CASE Loaded(top.chunk)
      BY <1>2, <2>1 DEF FunctionFits
    <2>2. CASE ~Loaded(top.chunk)
      <3>1. PICK j \in Runs : runs[j].chunk = top.chunk /\ EnvOf(j) = globals
        BY <1>2, <2>2
      <3>2. j = 1 \/ runs[j].sandbox
        <4>1. CASE run.kind = "program"
          <5>1. Len(runs) = 1
            BY <1>3, <4>1 DEF RunsHaveChunks
          <5> QED BY <1>3, <5>1 DEF Runs
        <4>2. CASE run.sandbox
          <5>1. EnvOf(Len(runs)) = globals
            BY DEF EnvOf
          <5>2. j \in 0 .. Len(runs) /\ (j = Len(runs) \/ j < Len(runs))
            BY <1>3 DEF Runs
          <5>3. ~(EnvOf(j) < EnvOf(j))
            <6>1. EnvOf(j) \in Nat
              BY <3>1 DEF LoadInv, Types
            <6> QED BY <6>1
          <5>4. j < Len(runs) => EnvOf(j) < EnvOf(Len(runs))
            BY <1>3, <4>2, <5>2 DEF GlobalsNest
          <5> QED BY <1>3, <3>1, <4>2, <5>1, <5>2, <5>3, <5>4
        <4> QED BY <1>1, <2>2, <4>1, <4>2
      <3> QED BY <1>2, <2>2, <3>1, <3>2 DEF FunctionFits
    <2> QED BY <2>1, <2>2
  <1>5. {top.chunk} \in SUBSET Nat /\ \A c \in {top.chunk} : FunctionFits(globals, c)
    BY <1>2, <1>4, PathFacts DEF PathInv
  <1> QED BY <1>1, <1>2, <1>5, AddLive

\* A module an include gives.
LEMMA GivenLive ==
  ASSUME LoadInv, PathInv, Live, NativeReturn, ~has_error
  PROVE  mode' # "lost" /\ Live'
  <1>1. /\ envs' = [envs EXCEPT ![globals].fns = @ \cup ({value} \ {Nothing})]
        /\ UNCHANGED <<chunks, frames, runs, globals, has_error>>
        /\ value' = Nothing /\ mode' = "code"
    BY DEF NativeReturn
  <1>2. FramesFit
    BY DEF LoadInv, Doomed
  <1>3. \A c \in {value} \ {Nothing} : c \in Nat /\ FunctionFits(globals, c)
    <2> SUFFICES ASSUME value # Nothing
                 PROVE  value \in Nat /\ FunctionFits(globals, value)
      OBVIOUS
    <2>1. value \in 1 .. Len(chunks) /\ Loaded(value) /\ InCache(value) /\ value \in Nat
      BY DEF Live, PathInv, PathTypes, CacheIsRight
    <2>2. PICK i \in 1 .. Len(cache) : cache[i] = [path |-> chunks[value].path, value |-> value]
      BY <2>1 DEF InCache
    <2>3. chunks[value].live
      BY <2>2 DEF PathInv, CacheIsRight
    <2> QED BY <2>1, <2>3 DEF FunctionFits
  <1> QED BY <1>1, <1>2, <1>3, AddLive

\* A text that begins owns the globals it begins with, or is nested in one that
\* does.
LEMMA EnterLive ==
  ASSUME LoadInv, PathInv, Live, ~has_error,
         NEW kind \in {"program", "include", "eval"}, NEW sandbox \in BOOLEAN,
         NEW m \in Chunk, m.live, EnterRun(kind, m, sandbox), MayNest(kind, sandbox),
         kind = "program" => \A c \in envs[globals].fns : Loaded(c)
  PROVE  Live'
  <1> DEFINE n == Len(runs) + 1
             d == Len(frames)
             new == Len(chunks) + 1
             Before(i) == EnvOf(i)
  <1>1. Entered(kind, sandbox)
    BY EnterRunEnters
  <1>2. /\ Types /\ FramesFit /\ FramesKnown /\ FramesLive /\ FunctionsFit
        /\ d \in Nat /\ \A i \in Runs : runs[i].stop \in Nat /\ runs[i].stop < d
        /\ kind = "program" <=> runs = <<>>
        /\ runs = <<>> <=> Len(runs) = 0
        /\ Len(envs) \in Nat /\ RunsHaveChunks
    BY EnteredFrom, StateFacts DEF LoadInv, Live, Escaping, FramesFit, PathInv
  <1>3. /\ Len(runs) \in Nat /\ Len(runs') = n
        /\ \A i \in 0 .. Len(runs) : EnvOf(i)' = Before(i)
        /\ \A i : i = n => EnvOf(i)' = globals'
        /\ \A i \in Runs' : i \in Runs \/ i = n
        /\ \A i \in Runs : i \in Runs' /\ runs'[i] = runs[i] /\ i \in 0 .. Len(runs)
        /\ n \in Runs'
    BY <1>1, <1>2, EnteredEnvs DEF Runs
  <1>4. /\ runs'[n].chunk = new /\ runs'[n].stop = d
        /\ Len(frames') = d + 1 /\ \A k \in 1 .. d : frames'[k] = frames[k]
        /\ frames'[d + 1].chunk = new /\ frames'[d + 1].env = globals'
        /\ \A e \in 1 .. Len(envs) : envs'[e] = envs[e]
        /\ \A e \in 1 .. Len(envs') : e \in 1 .. Len(envs) \/ envs'[e].fns = {}
        /\ UNCHANGED has_error
    BY <1>1, <1>2 DEF Entered
  <1>5. /\ ChunksGrow /\ new \in 1 .. Len(chunks') /\ chunks'[new] = m /\ new \notin 1 .. Len(chunks)
    <2>1. chunks' = Append(chunks, m)
      BY DEF EnterRun
    <2>2. ChunkAdded(m) /\ Len(chunks) \in Nat
      BY <2>1, AppendedChunk, PathFacts DEF PathInv
    <2> QED BY <2>2 DEF ChunkAdded, ChunksGrow
  <1>6. UNCHANGED value
    BY DEF EnterRun
  <1> HIDE DEF n, d, new, Before
  <1>7. \A k \in 1 .. d + 1 : k \in 1 .. d \/ k = d + 1
    BY <1>2
  <1>8. FramesKnown'
    <2>1. \A k \in 1 .. d : frames[k].chunk \in 1 .. Len(chunks')
      BY <1>2, <1>5, GrownChunk DEF FramesKnown, d
    <2> QED BY <1>4, <1>5, <1>7, <2>1 DEF FramesKnown
  <1>9. \A i \in Runs' : \A k \in 1 .. runs'[i].stop : frames'[k].chunk # runs'[i].chunk
    <2> SUFFICES ASSUME NEW i \in Runs', NEW k \in 1 .. runs'[i].stop
                 PROVE  frames'[k].chunk # runs'[i].chunk
      OBVIOUS
    <2>1. CASE i \in Runs
      <3>1. runs'[i] = runs[i] /\ k \in 1 .. d
        BY <1>2, <1>3, <2>1
      <3> QED BY <1>2, <1>4, <2>1, <3>1 DEF FramesLive
    <2>2. CASE i = n
      <3>1. k \in 1 .. d /\ runs'[i].chunk = new
        BY <1>4, <2>2
      <3> QED BY <1>2, <1>4, <1>5, <3>1 DEF FramesKnown, d
    <2> QED BY <1>3, <2>1, <2>2
  <1>10. ASSUME NEW k \in runs'[1].stop + 1 .. d + 1
         PROVE  /\ chunks'[frames'[k].chunk].live
                /\ chunks'[frames'[k].chunk].path = Text =>
                     \E j \in Runs' : runs'[j].chunk = frames'[k].chunk /\ EnvOf(j)' = frames'[k].env
    <2>1. CASE k = d + 1
      BY <1>3, <1>4, <1>5, <2>1
    <2>2. CASE k # d + 1
      <3>1. runs # <<>> /\ 1 \in Runs /\ runs'[1] = runs[1]
        <4>1. CASE Len(runs) = 0
          <5>1. runs'[1].stop = d
            BY <1>4, <4>1 DEF n
          <5> QED BY <1>2, <2>2, <5>1
        <4>2. CASE Len(runs) # 0
          <5>1. 1 \in Runs
            BY <1>3, <4>2 DEF Runs
          <5> QED BY <1>2, <1>3, <4>2, <5>1
        <4> QED BY <4>1, <4>2
      <3>2. k \in 1 .. d /\ k \in runs[1].stop + 1 .. d
        BY <1>2, <2>2, <3>1
      <3>3. /\ frames'[k] = frames[k] /\ frames[k].chunk \in 1 .. Len(chunks)
            /\ chunks[frames[k].chunk].live
            /\ ~Loaded(frames[k].chunk) =>
                 \E j \in Runs : runs[j].chunk = frames[k].chunk /\ Before(j) = frames[k].env
        BY <1>2, <1>4, <3>1, <3>2 DEF FramesLive, FramesKnown, d, Before
      <3>4. chunks'[frames[k].chunk] = chunks[frames[k].chunk]
        BY <1>5, <3>3, GrownChunk
      <3> QED BY <1>3, <3>3, <3>4 DEF Loaded
    <2> QED BY <2>1, <2>2
  <1>11. FramesLive'
    BY <1>4, <1>9, <1>10 DEF FramesLive, Loaded
  <1>12. FunctionsFit'
    <2> SUFFICES ASSUME NEW e \in 1 .. Len(envs'), NEW c \in envs'[e].fns
                 PROVE  FunctionFits(e, c)'
      BY DEF FunctionsFit
    <2>1. e \in 1 .. Len(envs) /\ c \in envs[e].fns
      BY <1>4
    <2>2. FunctionFits(e, c)
      BY <1>2, <2>1 DEF FunctionsFit
    <2>3. /\ c \in 1 .. Len(chunks') /\ chunks'[c] = chunks[c]
          /\ Loaded(c)' <=> Loaded(c)
      BY <1>5, <2>2, GrownChunk DEF FunctionFits
    <2>4. ASSUME ~Loaded(c)
          PROVE  \E i \in Runs' : /\ runs'[i].chunk = c /\ EnvOf(i)' = e
                                  /\ i = 1 \/ runs'[i].sandbox
      <3>1. ~(runs = <<>> /\ e = 1)
        <4>1. runs = <<>> => globals = 1
          BY <1>2 DEF LoadInv, GlobalsNest, EnvOf
        <4> QED BY <1>2, <2>1, <2>4, <4>1
      <3>2. PICK i \in Runs : runs[i].chunk = c /\ Before(i) = e /\ (i = 1 \/ runs[i].sandbox)
        BY <2>2, <2>4, <3>1 DEF FunctionFits, Before
      <3> QED BY <1>3, <3>2
    <2> QED BY <2>2, <2>3, <2>4 DEF FunctionFits
  <1>13. (value # Nothing => Loaded(value))'
    <2>1. ASSUME value # Nothing
          PROVE  Loaded(value)'
      <3>1. value \in 1 .. Len(chunks) /\ Loaded(value)
        BY <2>1 DEF Live, PathInv, CacheIsRight
      <3> QED BY <1>5, <1>6, <3>1, GrownChunk DEF Loaded
    <2> QED BY <1>6, <2>1
  <1> QED BY <1>4, <1>8, <1>11, <1>12, <1>13 DEF Live

\* The functions of the text that ends go with its sandbox, or stay with the
\* program's globals for the host.
LEMMA LeftFunctions ==
  ASSUME LoadInv, PathInv, FunctionsFit, runs # <<>>, NEW depth, RunEnds("done", depth)
  PROVE  FunctionsFit'
  <1>1. /\ RunsNest /\ GlobalsNest /\ Left
        /\ Len(runs) \in Nat \ {0} /\ run = runs[Len(runs)]
        /\ \A i \in Runs : i \in 1 .. Len(runs) - 1 \/ i = Len(runs)
        /\ globals = EnvOf(Len(runs)) /\ globals \in 1 .. Len(envs)
        /\ Len(runs) \in Runs
    BY Innermost, RunEndsLeaves DEF LoadInv
  <1>2. /\ \A e \in 1 .. Len(envs) : (e = globals /\ run.sandbox) \/ envs'[e] = envs[e]
        /\ run.sandbox => envs'[globals].fns = {}
        /\ Len(envs') = Len(envs)
        /\ runs' \in Seq(Run) /\ Len(runs') = Len(runs) - 1 /\ Runs' = 1 .. Len(runs) - 1
        /\ \A i \in 1 .. Len(runs) - 1 : runs'[i] = runs[i]
    BY <1>1 DEF Left
  <1>3. /\ Len(chunks') = Len(chunks)
        /\ run.kind = "include" <=> Loaded(run.chunk)
        /\ \A c \in 1 .. Len(chunks) :
             /\ chunks'[c].path = chunks[c].path
             /\ c # run.chunk \/ KeepsModule("done") => chunks'[c] = chunks[c]
    BY ChunksLeft
  <1> SUFFICES ASSUME NEW e \in 1 .. Len(envs'), NEW c \in envs'[e].fns
               PROVE  FunctionFits(e, c)'
    BY DEF FunctionsFit
  <1>4. e \in 1 .. Len(envs) /\ c \in envs[e].fns /\ ~(e = globals /\ run.sandbox)
    BY <1>2
  <1>5. FunctionFits(e, c)
    BY <1>4 DEF FunctionsFit
  <1>6. c \in 1 .. Len(chunks') /\ chunks'[c].path = chunks[c].path
    BY <1>3, <1>5 DEF FunctionFits
  <1>7. Loaded(c) => chunks'[c].live
    <2>1. Loaded(c) => c # run.chunk \/ KeepsModule("done")
      BY <1>3 DEF KeepsModule
    <2> QED BY <1>3, <1>5, <2>1 DEF FunctionFits
  <1>8. ~Loaded(c) => \/ runs' = <<>> /\ e = 1
                      \/ \E i \in Runs' : /\ runs'[i].chunk = c /\ EnvOf(i)' = e
                                          /\ i = 1 \/ runs'[i].sandbox
    <2> SUFFICES ASSUME ~Loaded(c)
                 PROVE  \/ runs' = <<>> /\ e = 1
                        \/ \E i \in Runs' : /\ runs'[i].chunk = c /\ EnvOf(i)' = e
                                            /\ i = 1 \/ runs'[i].sandbox
      OBVIOUS
    <2>1. PICK i \in Runs : runs[i].chunk = c /\ EnvOf(i) = e /\ (i = 1 \/ runs[i].sandbox)
      BY <1>5 DEF FunctionFits
    <2>2. CASE i \in 1 .. Len(runs) - 1
      <3>1. i \in Runs' /\ runs'[i] = runs[i] /\ i \in 0 .. Len(runs) - 1
        BY <1>2, <2>2
      <3>2. EnvOf(i)' = e
        BY <1>1, <2>1, <3>1, LeftGlobals
      <3> QED BY <2>1, <3>1, <3>2
    <2>3. CASE i = Len(runs)
      <3>1. i = 1
        BY <1>1, <1>4, <2>1, <2>3
      <3>2. runs' = <<>>
        <4>1. Len(runs') = 0
          BY <1>2, <2>3, <3>1
        <4> QED BY <1>2, <4>1, SeqFacts
      <3>3. e = 1
        <4>1. ~runs[1].sandbox /\ 1 \in Runs
          BY <1>1, <2>3, <3>1 DEF RunsNest
        <4>2. EnvOf(1 - 1) = EnvOf(1)
          BY <1>1, <4>1 DEF GlobalsNest
        <4> QED BY <1>1, <2>1, <3>1, <4>2 DEF GlobalsNest
      <3> QED BY <3>2, <3>3
    <2> QED BY <1>1, <2>1, <2>2, <2>3
  <1> QED BY <1>6, <1>7, <1>8 DEF FunctionFits, Loaded

\* A vm_run ends with a value only for a module, if no function is kept.
LEMMA LeftValue ==
  ASSUME PathInv, runs # <<>>, NEW result, NEW depth, RunEnds(result, depth),
         ~(value' # Nothing /\ run.kind = "eval")
  PROVE  (value # Nothing => Loaded(value))'
  <1> SUFFICES ASSUME value' # Nothing
               PROVE  chunks'[value'].path # Text
    BY DEF Loaded
  <1>1. KeepsModule(result)
    BY DEF RunEnds
  <1>2. value' = run.chunk /\ UNCHANGED chunks /\ (run.kind = "include" <=> Loaded(run.chunk))
    BY <1>1, ChunksLeft
  <1> QED BY <1>1, <1>2 DEF KeepsModule, Loaded

LEMMA LeftKnown ==
  ASSUME PathInv, runs # <<>>, FramesKnown, NEW result, NEW depth, RunEnds(result, depth),
         Len(frames) \in Nat, NEW n \in Nat, n <= Len(frames),
         Len(frames') = n, \A k \in 1 .. n : frames'[k] = frames[k]
  PROVE  FramesKnown'
  <1>1. Len(chunks') = Len(chunks) /\ \A k \in 1 .. n : k \in 1 .. Len(frames)
    BY ChunksLeft
  <1> QED BY <1>1 DEF FramesKnown

\* An error leaves a vm_run.
LEMMA EscapeLive ==
  ASSUME LoadInv, PathInv, Live, runs # <<>>, tries = <<>>, NEW depth, RunEnds("error", depth),
         has_error' = TRUE, UNCHANGED <<frames, tries>>
  PROVE  mode' # "lost" /\ Live'
  <1>1. mode' \in {"host", "native"}
    BY DEF RunEnds
  <1>2. Len(frames) \in Nat /\ FramesKnown
    BY StateFacts DEF LoadInv, Live
  <1>3. FramesKnown'
    BY <1>2, LeftKnown
  <1>4. ~(value' # Nothing /\ run.kind = "eval")
    BY DEF RunEnds, KeepsModule
  <1>5. (value # Nothing => Loaded(value))'
    BY <1>4, LeftValue
  <1>6. Escaping'
    BY DEF Escaping
  <1> QED BY <1>1, <1>3, <1>5, <1>6 DEF Live

LEMMA HandleErrorLive ==
  ASSUME LoadInv, PathInv, Live, mode \in {"code", "native"}, HandleError, strayed' = {}
  PROVE  mode' # "lost" /\ Live'
  <1>1. runs # <<>> /\ Types /\ left = {}
    BY DEF PathInv, RunsHaveChunks, LoadInv, TriesNest
  <1>2. CASE tries = <<>>
    <2>1. /\ RunEnds("error", Len(frames)) /\ has_error' = TRUE /\ UNCHANGED <<frames, tries>>
      BY <1>2 DEF HandleError
    <2> QED BY <1>1, <1>2, <2>1, EscapeLive
  <1>3. CASE tries # <<>>
    <2> DEFINE n == Last(tries)
    <2>1. /\ frames' = SubSeq(frames, 1, n) /\ has_error' = FALSE /\ mode' = "code"
          /\ UNCHANGED <<chunks, runs, envs, globals, value>>
          /\ ~(n <= run.stop)
      BY <1>1, <1>3 DEF HandleError, StraysIf
    <2>2. /\ n \in Nat /\ run.stop \in Nat /\ n <= Len(frames) /\ FramesFit /\ ~Escaping
      <3>1. Last(tries) \in Nat /\ Last(tries) = tries[Len(tries)] /\ Len(tries) \in 1 .. Len(tries)
        <4>1. Len(tries) \in Nat \ {0} /\ Last(tries) = tries[Len(tries)] /\ Last(tries) \in Nat
          BY <1>1, <1>3, FrontFacts DEF Types
        <4> QED BY <4>1
      <3>2. n <= Len(frames)
        BY <3>1 DEF LoadInv, TriesNest
      <3>3. Len(runs) \in Runs /\ run = runs[Len(runs)]
        BY <1>1, Innermost
      <3> QED BY <1>1, <1>3, <3>1, <3>2, <3>3, StateFacts DEF LoadInv, Doomed, Escaping
    <2>3. run.stop < n
      BY <2>1, <2>2
    <2>4. Len(frames') = n /\ \A k \in 1 .. n : frames'[k] = frames[k]
      <3>1. PICK l : l = SubSeq(frames, 1, n)
        OBVIOUS
      <3>2. frames \in Seq(Frame) /\ frames' = l
        BY <1>1, <2>1, <3>1 DEF Types
      <3> HIDE DEF n
      <3>3. Len(l) = n /\ \A k \in 1 .. n : l[k] = frames[k]
        BY <2>2, <3>1, <3>2, PrefixFacts
      <3> QED BY <3>2, <3>3
    <2> HIDE DEF n
    <2>5. has_error' => mode' # "code"
      BY <2>1
    <2>6. Live'
      BY <1>1, <2>1, <2>2, <2>3, <2>4, <2>5, CutLive
    <2> QED BY <2>1, <2>6
  <1> QED BY <1>2, <1>3

\* The program comes to its end, by OP_HALT or by OP_RETURN.
LEMMA ProgramEndsLive ==
  ASSUME LoadInv, PathInv, Live, mode = "code", Len(runs) = 1,
         NEW depth, RunEnds("done", depth), UNCHANGED has_error,
         NEW n \in Nat, n <= Len(frames),
         Len(frames') = n, \A k \in 1 .. n : frames'[k] = frames[k]
  PROVE  mode' # "lost" /\ Live'
  <1>1. /\ runs # <<>> /\ Types /\ Len(frames) \in Nat /\ ~has_error /\ FramesKnown /\ FunctionsFit
    BY InCode, LiveInCode DEF LoadInv
  <1>2. Left /\ run.kind = "program"
    BY <1>1, RunEndsLeaves, ChunksLeft
  <1>3. mode' = "host"
    BY <1>2 DEF RunEnds
  <1>4. FunctionsFit' /\ FramesKnown' /\ (value # Nothing => Loaded(value))'
    BY <1>1, <1>2, LeftFunctions, LeftKnown, LeftValue
  <1>5. FramesLive'
    <2>1. Len(runs') = 0 /\ runs' \in Seq(Run)
      BY <1>2 DEF Left
    <2>2. Runs' = {} /\ runs' = <<>>
      BY <2>1, SeqFacts DEF Runs
    <2> QED BY <2>2 DEF FramesLive
  <1> QED BY <1>1, <1>3, <1>4, <1>5 DEF Live

\* An include or an eval comes to its end.
LEMMA ReturnLeavesLive ==
  ASSUME LoadInv, PathInv, Live, mode = "code", Len(runs) # 1, Len(frames) - 1 = run.stop,
         RunEnds("done", run.stop), UNCHANGED has_error,
         ~(value' # Nothing /\ run.kind = "eval"),
         Len(frames') = Len(frames) - 1,
         \A k \in 1 .. Len(frames) - 1 : frames'[k] = frames[k]
  PROVE  mode' # "lost" /\ Live'
  <1> DEFINE s == run.stop
             Before(i) == EnvOf(i)
  <1>1. /\ runs # <<>> /\ Types /\ RunsNest /\ s \in Nat /\ Len(frames) = s + 1 /\ Len(frames) \in Nat
        /\ 1 \in Runs /\ runs[1].stop \in Nat
        /\ ~has_error /\ FramesKnown /\ FramesLive /\ FramesFit /\ FunctionsFit
    BY InCode, LiveInCode DEF LoadInv
  <1>2. /\ Len(runs) \in Nat \ {0} /\ Len(runs) \in Runs /\ run = runs[Len(runs)]
        /\ \A i \in Runs : i \in 1 .. Len(runs) - 1 \/ i = Len(runs)
        /\ \A i \in 1 .. Len(runs) - 1 : i \in Runs /\ i < Len(runs)
    BY <1>1, Innermost
  <1>3. Left /\ run.kind # "program"
    BY <1>1, RunEndsLeaves, ChunksLeft
  <1>4. mode' = "native"
    BY <1>3 DEF RunEnds
  <1>5. /\ Len(chunks') = Len(chunks)
        /\ \A c \in 1 .. Len(chunks) : /\ chunks'[c].path = chunks[c].path
                                       /\ c # run.chunk => chunks'[c] = chunks[c]
    BY <1>1, ChunksLeft
  <1>6. /\ Runs' = 1 .. Len(runs) - 1
        /\ \A i \in Runs' : runs'[i] = runs[i] /\ i \in Runs /\ i < Len(runs) /\ EnvOf(i)' = Before(i)
        /\ runs' # <<>> /\ 1 \in Runs' /\ runs'[1] = runs[1]
    <2>1. /\ Runs' = 1 .. Len(runs) - 1 /\ \A i \in 1 .. Len(runs) - 1 : runs'[i] = runs[i]
          /\ runs' \in Seq(Run) /\ Len(runs') = Len(runs) - 1
      BY <1>3 DEF Left
    <2>2. \A i \in 1 .. Len(runs) - 1 : i \in 0 .. Len(runs) - 1
      BY <1>2
    <2>3. 1 \in 1 .. Len(runs) - 1 /\ Len(runs) - 1 # 0
      <3>1. \A x \in Nat \ {0} : x # 1 => x - 1 # 0 /\ 1 \in 1 .. x - 1
        OBVIOUS
      <3> QED BY <1>2, <3>1
    <2>4. runs' # <<>>
      BY <2>1, <2>3, SeqFacts
    <2> QED BY <1>1, <1>2, <1>3, <2>1, <2>2, <2>3, <2>4, LeftGlobals
  <1>7. /\ Len(frames') = s /\ \A k \in 1 .. s : frames'[k] = frames[k] /\ k \in 1 .. Len(frames)
    BY <1>1
  <1> HIDE DEF s, Before
  <1>8. FunctionsFit' /\ FramesKnown' /\ (value # Nothing => Loaded(value))'
    <2>1. s <= Len(frames)
      BY <1>1
    <2> QED BY <1>1, <1>7, <2>1, LeftFunctions, LeftKnown, LeftValue
  <1>9. \A i \in Runs' : \A k \in 1 .. runs'[i].stop : frames'[k].chunk # runs'[i].chunk
    <2>1. \A i \in Runs' : runs[i].stop < s /\ runs[i].stop \in Nat
      BY <1>1, <1>2, <1>6, StateFacts DEF RunsNest, s
    <2>2. \A i \in Runs' : \A k \in 1 .. runs[i].stop : k \in 1 .. s
      BY <1>1, <2>1
    <2> QED BY <1>1, <1>6, <1>7, <2>2 DEF FramesLive
  <1>10. ASSUME NEW k \in runs[1].stop + 1 .. s
         PROVE  /\ chunks'[frames'[k].chunk].live
                /\ chunks'[frames'[k].chunk].path = Text =>
                     \E j \in Runs' : runs'[j].chunk = frames'[k].chunk /\ EnvOf(j)' = frames'[k].env
    <2>1. k \in 1 .. s /\ k \in runs[1].stop + 1 .. Len(frames)
      BY <1>1
    <2>2. /\ frames'[k] = frames[k] /\ frames[k].chunk \in 1 .. Len(chunks)
          /\ frames[k].chunk # run.chunk
          /\ chunks[frames[k].chunk].live
          /\ ~Loaded(frames[k].chunk) =>
               \E j \in Runs : runs[j].chunk = frames[k].chunk /\ Before(j) = frames[k].env
      BY <1>1, <1>2, <1>7, <2>1 DEF FramesKnown, FramesLive, s, Before
    <2>3. chunks'[frames[k].chunk] = chunks[frames[k].chunk]
      BY <1>5, <2>2
    <2>4. ASSUME ~Loaded(frames[k].chunk)
          PROVE  \E j \in Runs' : runs'[j].chunk = frames'[k].chunk /\ EnvOf(j)' = frames'[k].env
      <3>1. PICK j \in Runs : runs[j].chunk = frames[k].chunk /\ Before(j) = frames[k].env
        BY <2>2, <2>4
      <3>2. j \in Runs'
        BY <1>2, <1>6, <2>2, <3>1
      <3>3. runs'[j].chunk = frames'[k].chunk /\ EnvOf(j)' = frames'[k].env
        BY <1>6, <2>2, <3>1, <3>2
      <3> QED BY <3>2, <3>3
    <2> QED BY <2>2, <2>3, <2>4 DEF Loaded
  <1>11. FramesLive'
    BY <1>6, <1>7, <1>9, <1>10 DEF FramesLive, Loaded
  <1> QED BY <1>1, <1>4, <1>8, <1>11 DEF Live

LEMMA ReturnLive ==
  ASSUME LoadInv, PathInv, Live, Return, strayed' = {}
  PROVE  mode' # "lost" /\ Live'
  <1>1. /\ mode = "code" /\ frames' = Front(frames) /\ UNCHANGED has_error
    BY DEF Return
  <1>2. /\ runs # <<>> /\ ~has_error /\ ~Escaping /\ FramesFit
        /\ Len(frames) - 1 \in Nat /\ Len(frames) - 1 <= Len(frames)
    <2>1. runs # <<>> /\ Len(frames) \in Nat \ {0}
      BY <1>1, InCode
    <2> QED BY <1>1, <2>1, LiveInCode
  <1>3. Len(frames') = Len(frames) - 1 /\ \A k \in 1 .. Len(frames) - 1 : frames'[k] = frames[k]
    <2>1. frames \in Seq(Frame) /\ frames # <<>>
      BY <1>1, InCode, SeqFacts DEF LoadInv, Types
    <2> QED BY <1>1, <2>1, FrontFacts
  <1>4. CASE /\ Len(runs) = 1 /\ Len(frames) = runs[1].stop + 1
             /\ RunEnds("done", Len(frames) - 1)
    BY <1>1, <1>2, <1>3, <1>4, ProgramEndsLive
  <1>5. CASE Len(runs) # 1 /\ Len(frames) - 1 = run.stop /\ RunEnds("done", run.stop)
    <2>1. ~(value' # Nothing /\ run.kind = "eval")
      <3> SUFFICES ASSUME value' # Nothing, run.kind = "eval"
                   PROVE  FALSE
        OBVIOUS
      <3>1. runs' # runs
        <4>1. Left /\ Len(runs) \in Nat
          BY <1>2, <1>5, RunEndsLeaves, Innermost
        <4> QED BY <4>1 DEF Left
      <3>2. mode' # "lost"
        BY <1>5 DEF RunEnds
      <3> QED BY <3>1, <3>2 DEF Return, KeptValue, StraysIf
    <2> QED BY <1>1, <1>3, <1>5, <2>1, ReturnLeavesLive
  <1>6. CASE /\ Len(frames) - 1 > run.stop
             /\ UNCHANGED <<chunks, runs, eval_stop, envs, globals, value, mode>>
    <2>1. run.stop < Len(frames) - 1 /\ mode' # "lost" /\ ~has_error'
      BY <1>1, <1>2, <1>6, InCode
    <2> QED BY <1>1, <1>2, <1>3, <1>6, <2>1, CutLive
  <1> QED BY <1>4, <1>5, <1>6, ReturnEnds

\* Texts, modules and evals begin, or fail to.
LEMMA EntersLive ==
  ASSUME LoadInv, PathInv, Live, strayed' = {},
         \/ \E d \in Dirs \cup {NoDir} : HostRun(d)
         \/ \E n \in Names : IncludeRuns(n)
         \/ \E s \in BOOLEAN : EvalRuns(s)
  PROVE  mode' # "lost" /\ Live'
  <1>1. ASSUME NEW m \in Chunk, ChunkAdded(m) \/ UNCHANGED chunks,
               UNCHANGED <<frames, runs, tries, envs, globals>>, ~has_error,
               has_error' = TRUE, mode \in {"host", "code"}, mode' \in {"host", "native"},
               value' \in {value, Nothing}
        PROVE  mode' # "lost" /\ Live'
    <2>1. ChunksGrow
      BY <1>1, PathFacts, ChunksUntouched DEF ChunkAdded, ChunksGrow, PathInv
    <2>2. FramesFit /\ ~Escaping
      BY <1>1 DEF LoadInv, Doomed, Escaping
    <2>3. value' # Nothing => Loaded(value)'
      <3>1. value # Nothing => value \in 1 .. Len(chunks) /\ Loaded(value)
        BY DEF Live, PathInv, CacheIsRight
      <3>2. value # Nothing => chunks'[value] = chunks[value]
        BY <2>1, <3>1, GrownChunk
      <3> QED BY <1>1, <3>1, <3>2 DEF Loaded
    <2> QED BY <1>1, <2>1, <2>2, <2>3, QuietLive
  <1>2. ASSUME NEW d \in Dirs \cup {NoDir}, HostRun(d)
        PROVE  mode' # "lost" /\ Live'
    <2>1. /\ mode = "host" /\ ~has_error /\ \A c \in envs[globals].fns : Loaded(c)
      BY <1>2 DEF HostRun, HostStrays, KeptFunctions
    <2>2. Program(d) \in Chunk /\ Program(d).live /\ [Program(d) EXCEPT !.live = FALSE] \in Chunk
      BY DEF Program, Chunk
    <2>3. CASE EnterRun("program", Program(d), FALSE)
      <3>1. mode' # "lost"
        BY <2>3 DEF EnterRun
      <3>2. MayNest("program", FALSE)
        BY <2>1 DEF MayNest
      <3> QED BY <2>1, <2>2, <2>3, <3>1, <3>2, EnterLive
    <2>4. CASE /\ has_error' = TRUE
               /\ chunks' = Append(chunks, [Program(d) EXCEPT !.live = FALSE])
               /\ UNCHANGED <<frames, runs, tries, envs, globals, value, mode>>
      <3>1. ChunkAdded([Program(d) EXCEPT !.live = FALSE])
        BY <2>2, <2>4, AppendedChunk DEF PathInv
      <3> QED BY <1>1, <2>1, <2>2, <2>4, <3>1
    <2> QED BY <1>2, <2>3, <2>4 DEF HostRun
  <1>3. ASSUME NEW n \in Names, IncludeRuns(n)
        PROVE  mode' # "lost" /\ Live'
    <2> DEFINE m == [path |-> PathOf(n), dir |-> DirOf(PathOf(n)), live |-> TRUE]
               failed == [m EXCEPT !.live = FALSE]
    <2>1. mode = "code" /\ PathOf(n) \in Paths
      BY <1>3 DEF IncludeRuns
    <2>2. ~has_error
      BY <2>1, LiveInCode
    <2>3. m \in Chunk /\ m.live /\ failed \in Chunk
      BY <2>1, LoadingAssumption DEF Chunk
    <2>4. \/ EnterRun("include", m, FALSE)
          \/ /\ has_error' = TRUE /\ value' = Nothing /\ mode' = "native"
             /\ chunks' = Append(chunks, failed)
             /\ UNCHANGED <<frames, runs, tries, envs, globals>>
      BY <1>3 DEF IncludeRuns, NativeGives
    <2> HIDE DEF m, failed
    <2>5. CASE EnterRun("include", m, FALSE)
      <3>1. mode' # "lost"
        BY <2>5 DEF EnterRun
      <3>2. MayNest("include", FALSE)
        BY <2>1 DEF MayNest
      <3> QED BY <2>2, <2>3, <2>5, <3>1, <3>2, EnterLive
    <2>6. CASE ~EnterRun("include", m, FALSE)
      <3>1. ChunkAdded(failed)
        BY <2>3, <2>4, <2>6, AppendedChunk DEF PathInv
      <3> QED BY <1>1, <2>1, <2>2, <2>3, <2>4, <2>6, <3>1
    <2> QED BY <2>5, <2>6
  <1>4. ASSUME NEW s \in BOOLEAN, EvalRuns(s)
        PROVE  mode' # "lost" /\ Live'
    <2>1. mode = "code"
      BY <1>4 DEF EvalRuns
    <2>2. ~has_error
      BY <2>1, LiveInCode
    <2>3. Program(NoDir) \in Chunk /\ Program(NoDir).live
      BY DEF Program, Chunk
    <2>4. CASE EnterRun("eval", Program(NoDir), s)
      <3>1. mode' # "lost"
        BY <2>4 DEF EnterRun
      <3>2. MayNest("eval", s)
        BY <2>1 DEF MayNest
      <3> QED BY <2>2, <2>3, <2>4, <3>1, <3>2, EnterLive
    <2>5. CASE EvalFails
      <3>1. /\ has_error' = TRUE /\ value' = Nothing /\ mode' = "native"
            /\ UNCHANGED <<chunks, frames, runs, tries, envs, globals>>
        BY <2>5 DEF EvalFails, NativeGives
      <3> QED BY <1>1, <2>1, <2>2, <2>3, <3>1
    <2> QED BY <1>4, <2>4, <2>5 DEF EvalRuns
  <1> QED BY <1>2, <1>3, <1>4

\* The library functions that end without a vm_run of their own.
LEMMA IncludesLive ==
  ASSUME LoadInv, PathInv, Live, strayed' = {},
         \/ \E n \in Names : IncludeFails(n) \/ IncludeCached(n) \/ IncludeBinary(n)
         \/ EvalFails
  PROVE  mode' # "lost" /\ Live'
  <1>1. mode = "code"
    BY DEF IncludeFails, IncludeCached, IncludeBinary, EvalFails
  <1>2. ~has_error /\ ~Escaping /\ FramesFit
    BY <1>1, LiveInCode
  <1>3. ASSUME UNCHANGED <<frames, runs, tries, envs, globals>>, ChunksGrow, mode' = "native",
               value' # Nothing => Loaded(value)'
        PROVE  mode' # "lost" /\ Live'
    BY <1>2, <1>3, QuietLive
  <1>4. ASSUME NEW n \in Names, IncludeFails(n)
        PROVE  mode' # "lost" /\ Live'
    <2>1. UNCHANGED <<chunks, frames, runs, tries, envs, globals>> /\ value' = Nothing /\ mode' = "native"
      BY <1>4 DEF IncludeFails, NativeGives
    <2>2. ChunksGrow
      BY <2>1, ChunksUntouched DEF PathInv
    <2> QED BY <1>3, <2>1, <2>2
  <1>5. ASSUME NEW n \in Names, IncludeCached(n)
        PROVE  mode' # "lost" /\ Live'
    <2>1. /\ UNCHANGED <<chunks, frames, runs, tries, envs, globals>> /\ mode' = "native"
          /\ Cached(PathOf(n)) /\ value' = CacheFind(PathOf(n))
      BY <1>5 DEF IncludeCached, NativeGives
    <2>2. ChunksGrow
      BY <2>1, ChunksUntouched DEF PathInv
    <2>3. PICK v : v = CacheFind(PathOf(n))
      OBVIOUS
    <2>4. InCache(v) /\ v \in 1 .. Len(chunks)
      BY <2>1, <2>3, FoundInCache DEF PathInv
    <2>5. PICK i \in 1 .. Len(cache) : cache[i] = [path |-> chunks[v].path, value |-> v]
      BY <2>4 DEF InCache
    <2>6. Loaded(cache[i].value) /\ cache[i].value = v
      BY <2>5, CachedIsModule DEF PathInv
    <2> QED BY <1>3, <2>1, <2>2, <2>3, <2>6 DEF Loaded
  <1>6. ASSUME NEW n \in Names, IncludeBinary(n)
        PROVE  mode' # "lost" /\ Live'
    <2> DEFINE m == [path |-> PathOf(n), dir |-> DirOf(PathOf(n)), live |-> TRUE]
    <2>1. /\ UNCHANGED <<frames, runs, tries, envs, globals>> /\ mode' = "native"
          /\ PathOf(n) \in Binary /\ chunks' = Append(chunks, m)
          /\ value' \in {Nothing, Len(chunks) + 1}
      BY <1>6 DEF IncludeBinary, NativeGives
    <2>2. m \in Chunk /\ m.path # Text
      BY <2>1, LoadingAssumption DEF Chunk
    <2> HIDE DEF m
    <2>3. ChunkAdded(m)
      BY <2>1, <2>2, AppendedChunk DEF PathInv
    <2>4. ChunksGrow /\ chunks'[Len(chunks) + 1] = m
      BY <2>3, PathFacts DEF ChunkAdded, ChunksGrow, PathInv
    <2> QED BY <1>3, <2>1, <2>2, <2>4 DEF Loaded
  <1>7. CASE EvalFails
    <2>1. UNCHANGED <<chunks, frames, runs, tries, envs, globals>> /\ value' = Nothing /\ mode' = "native"
      BY <1>7 DEF EvalFails, NativeGives
    <2>2. ChunksGrow
      BY <2>1, ChunksUntouched DEF PathInv
    <2> QED BY <1>3, <2>1, <2>2
  <1> QED BY <1>4, <1>5, <1>6, <1>7

LiveInv == strayed = {} => mode # "lost" /\ Live

LEMMA LiveStep ==
  ASSUME Kept => LoadInv, PathInv, LiveInv, [Next]_vars
  PROVE  LiveInv'
  <1> SUFFICES ASSUME strayed' = {}
               PROVE  mode' # "lost" /\ Live'
    BY DEF LiveInv
  <1>1. /\ strayed = {} /\ mode # "lost" /\ Live /\ LoadInv
    BY StraysStay DEF LiveInv, Kept
  <1>2. ASSUME UNCHANGED <<chunks, frames, runs, envs, globals, value>>, Escaping => Escaping',
               ~Escaping => FramesFit, mode' = mode, has_error' => mode' # "code"
        PROVE  mode' # "lost" /\ Live'
    <2>1. ChunksGrow
      BY <1>2, ChunksUntouched DEF PathInv
    <2>2. value' # Nothing => Loaded(value)'
      BY <1>1, <1>2 DEF Live, Loaded
    <2> QED BY <1>1, <1>2, <2>1, <2>2, QuietLive
  <1>3. CASE Ended \/ UNCHANGED vars
    <2>1. UNCHANGED <<chunks, frames, runs, tries, envs, globals, value, has_error, mode>>
      BY <1>3 DEF Ended, vars
    <2>2. (Escaping => Escaping') /\ (~Escaping => FramesFit) /\ (has_error' => mode' # "code")
      BY <1>1, <2>1 DEF Escaping, LoadInv, Doomed, Live
    <2> QED BY <1>2, <2>1, <2>2
  <1>4. CASE HostParseError
    <2>1. /\ UNCHANGED <<chunks, frames, runs, tries, envs, globals, value, mode>>
          /\ mode = "host" /\ ~has_error
      BY <1>4 DEF HostParseError
    <2>2. ~Escaping /\ FramesFit
      BY <1>1, <2>1 DEF Escaping, LoadInv, Doomed
    <2> QED BY <1>2, <2>1, <2>2
  <1>5. CASE TryBegin \/ TryEnd
    <2>1. /\ UNCHANGED <<chunks, frames, runs, envs, globals, value, has_error, mode>>
          /\ mode = "code"
      BY <1>5 DEF TryBegin, TryEnd
    <2>2. ~Escaping /\ FramesFit /\ ~has_error
      BY <1>1, <2>1, LiveInCode
    <2> QED BY <1>2, <2>1, <2>2
  <1>6. ~LeaveTry
    BY DEF LeaveTry
  <1>7. CASE Declare
    <2>1. mode' # "lost"
      BY <1>1, <1>7 DEF Declare
    <2> QED BY <1>1, <1>7, <2>1, DeclareLive
  <1>8. CASE \/ \E d \in Dirs \cup {NoDir} : HostRun(d)
             \/ \E n \in Names : IncludeRuns(n)
             \/ \E s \in BOOLEAN : EvalRuns(s)
    BY <1>1, <1>8, EntersLive
  <1>9. CASE \/ \E n \in Names : IncludeFails(n) \/ IncludeCached(n) \/ IncludeBinary(n)
             \/ EvalFails
    BY <1>1, <1>9, IncludesLive
  <1>10. CASE Throw
    BY <1>1, <1>10, HandleErrorLive DEF Throw
  <1>11. CASE Return
    BY <1>1, <1>11, ReturnLive
  <1>12. CASE HostHalt
    <2>1. /\ mode = "code" /\ InProgram /\ RunEnds("done", Len(frames)) /\ UNCHANGED <<frames, has_error>>
      BY <1>12 DEF HostHalt
    <2>2. Len(runs) = 1 /\ Len(frames) \in Nat /\ Len(frames) <= Len(frames)
      BY <1>1, <2>1, ProgramIsAlone, InCode
    <2>3. Len(frames') = Len(frames) /\ \A k \in 1 .. Len(frames) : frames'[k] = frames[k]
      BY <2>1
    <2> QED BY <1>1, <2>1, <2>2, <2>3, ProgramEndsLive
  <1>13. CASE \E c \in 1 .. Len(chunks) : Call(c)
    <2>1. PICK c \in 1 .. Len(chunks) : Call(c)
      BY <1>13
    <2>2. mode = "code"
      BY <2>1 DEF Call
    <2> QED BY <1>1, <2>1, <2>2, CallLive, HandleErrorLive
  <1>14. CASE NativeReturn
    <2>1. mode = "native" /\ (has_error => HandleError)
      BY <1>14 DEF NativeReturn
    <2> QED BY <1>1, <1>14, <2>1, HandleErrorLive, GivenLive
  <1> QED BY <1>3, <1>4, <1>5, <1>6, <1>7, <1>8, <1>9, <1>10, <1>11, <1>12, <1>13, <1>14 DEF Next

LEMMA LiveInvHolds == Spec => []((Kept => LoadInv) /\ PathInv /\ LiveInv)
  <1>1. Init => LiveInv
    <2> SUFFICES ASSUME Init
                 PROVE  mode # "lost" /\ Live
      BY DEF LiveInv
    <2>1. /\ chunks = <<>> /\ frames = <<>> /\ runs = <<>> /\ value = Nothing /\ mode = "host"
          /\ envs = <<[live |-> TRUE, fns |-> {}]>>
      BY DEF Init
    <2>2. \A i \in 1 .. Len(<<>>) : FALSE
      BY EmptySeq
    <2>3. Len(envs) = 1 /\ envs[1].fns = {}
      BY <2>1
    <2>4. Runs = {} /\ FramesLive /\ FramesKnown
      BY <2>1, <2>2 DEF Runs, FramesLive, FramesKnown
    <2>5. FunctionsFit
      BY <2>3 DEF FunctionsFit
    <2> QED BY <2>1, <2>4, <2>5 DEF Live
  <1>2. (Kept => LoadInv) /\ PathInv /\ LiveInv /\ [Next]_vars => LiveInv'
    BY LiveStep
  <1> QED BY <1>1, <1>2, LoadInvHolds, PTL DEF Spec

\* As long as nothing has strayed (no function left behind by the text it is
\* in, no text run by the host after one that failed, no error caught across a
\* vm_run, no TRY left open, nothing included or returned in a later text that
\* reads the frame of an earlier one), neither the frames of the program nor
\* the functions that can be called are of a chunk that has been freed
\* (cando_dostring, exec_eval and load_script free them).
THEOREM CallsAreAlive == Spec => []CalledCodeIsAlive
  <1>1. (Kept => LoadInv) /\ PathInv /\ LiveInv => CalledCodeIsAlive
    <2> SUFFICES ASSUME Kept => LoadInv, PathInv, LiveInv, strayed = {}
                 PROVE  /\ mode # "lost"
                        /\ mode = "code" =>
                             /\ \A e \in 1 .. Len(envs) : \A c \in envs[e].fns : chunks[c].live
                             /\ \A i \in runs[1].stop + 1 .. Len(frames) : chunks[frames[i].chunk].live
      BY DEF CalledCodeIsAlive
    <2>1. mode # "lost" /\ Live /\ LoadInv
      BY DEF LiveInv, Kept
    <2> SUFFICES ASSUME mode = "code"
                 PROVE  /\ \A e \in 1 .. Len(envs) : \A c \in envs[e].fns : chunks[c].live
                        /\ \A i \in runs[1].stop + 1 .. Len(frames) : chunks[frames[i].chunk].live
      BY <2>1
    <2>2. FramesLive /\ FunctionsFit /\ runs # <<>>
      BY <2>1, LiveInCode, InCode
    <2>3. \A e \in 1 .. Len(envs) : \A c \in envs[e].fns : chunks[c].live
      <3> SUFFICES ASSUME NEW e \in 1 .. Len(envs), NEW c \in envs[e].fns
                   PROVE  chunks[c].live
        OBVIOUS
      <3>1. FunctionFits(e, c) /\ \A i \in Runs : chunks[runs[i].chunk].live
        BY <2>2 DEF FunctionsFit, PathInv, RunsHaveChunks
      <3> QED BY <2>2, <3>1 DEF FunctionFits
    <2> QED BY <2>2, <2>3 DEF FramesLive
  <1> QED BY <1>1, LiveInvHolds, PTL
=============================================================================
