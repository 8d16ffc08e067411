-------------------------------- MODULE Caches --------------------------------
(***************************************************************************)
(* The caches of openvs/cache: answers of models, kept in memory and in a  *)
(* file (response_cache.py), results of tools, kept in memory only         *)
(* (tool_cache.py), and the checkpoints of runs, kept in files only        *)
(* (execution_resume.py).  A process uses them one call at a time; it may  *)
(* be killed, also in the middle of a write.                               *)
(*                                                                         *)
(* The cache of answers is the sequence of its entries in the order of the *)
(* dictionary.  A prompt stands for the hash of model, temperature and     *)
(* prompt; the answers put are numbered.  A write that cannot begin, which *)
(* _save ignores, is left out.                                             *)
(***************************************************************************)
EXTENDS Naturals, Sequences, FiniteSets, SequencesExt, Tables

CONSTANTS
  CachedPrompts,       \* keys of the cache of answers
  ToolCalls,     \* keys of the cache of results
  MaxEntries,    \* _max_entries
  AnswerTTL, ToolTTL, \* _ttl of the two
  Steps,         \* nodes of the run that is checkpointed
  NoCacheFile, TornFile,
  MaxTime,       \* bound: time passed
  MaxPuts        \* bound: puts in all

ASSUME CacheAssumption ==
  /\ MaxEntries \in Nat \ {0} /\ AnswerTTL \in Nat /\ ToolTTL \in Nat
  /\ Steps \in Nat /\ MaxTime \in Nat /\ MaxPuts \in Nat
  /\ CachedPrompts \intersect ToolCalls = {}
  /\ \A no \in {NoCacheFile, TornFile} :   \* no file is neither a checkpoint nor a cache
       /\ no \notin Nat
       /\ \A n \in 0..MaxEntries :
            no \notin [1..n -> [key : CachedPrompts, value : Nat, at : Nat]]

VARIABLES
  now,
  answers, answerFile,  \* _cache and cache.json
  results,              \* ToolCache._cache
  checkpoint,           \* <run_id>.json: how many nodes are completed
  done,                 \* how many nodes of the run are completed
  saving,               \* what is being written: nothing, answers or checkpoint
  puts, hits,           \* puts in all; the last answer of get: [of, value, age]
  lastPut,              \* history: what was put last for a key
  gone,                 \* history: the keys invalidated, cleared or never put
  revived,              \* history: those of them that the file still has
  savedAt, cutOff       \* history: the last checkpoint written; whether one was cut off since

answerVars == <<answers, answerFile>>
resumeVars == <<checkpoint, done, savedAt, cutOff>>
pastVars   == <<lastPut, gone, revived>>
cacheVars  == <<now, answerVars, results, saving, puts, hits, pastVars, resumeVars>>

CacheKeys == CachedPrompts \union ToolCalls
NoHit     == [of |-> "nothing", value |-> 0, age |-> 0]

CacheInit ==
  /\ now = 0 /\ answers = <<>> /\ answerFile = NoCacheFile
  /\ results = << >> /\ checkpoint = NoCacheFile /\ done = 0
  /\ saving = "nothing" /\ puts = 0 /\ hits = NoHit
  /\ lastPut = [k \in CacheKeys |-> 0]
  /\ gone = CacheKeys /\ revived = {} /\ savedAt = 0 /\ cutOff = FALSE

Calling == saving = "nothing"
Time == now < MaxTime /\ now' = now + 1
        /\ UNCHANGED <<answerVars, results, saving, puts, hits, pastVars, resumeVars>>

-----------------------------------------------------------------------------
(* ResponseCache. *)
At(k)    == CHOOSE i \in DOMAIN answers : answers[i].key = k
Has(k)   == \E i \in DOMAIN answers : answers[i].key = k
Without(k) == Only(answers, {i \in DOMAIN answers : answers[i].key # k})

(* A key that is put again keeps its place in the dictionary. *)
Put(k, e) == IF Has(k) THEN [answers EXCEPT ![At(k)] = e] ELSE Append(answers, e)

(* Slip: the last of the dictionary goes. *)
DropLast(es) == SubSeq(es, 1, MaxEntries)

(* _evict_if_needed: the oldest go, the first of the dictionary first. *)
Evicted(es) ==
  LET Older(i, j) == es[i].at < es[j].at \/ (es[i].at = es[j].at /\ i < j)
      Out == {i \in DOMAIN es : Cardinality({j \in DOMAIN es : Older(j, i)}) + MaxEntries < Len(es)}
  IN  Only(es, DOMAIN es \ Out)

(* Slip: an entry never expires. *)
NeverExpired(k) == FALSE

Expired(k) == now - answers[At(k)].at > AnswerTTL

(* get: an entry that expired is dropped, from memory only. *)
GetAnswer(k) ==
  /\ Calling
  /\ IF Has(k) /\ ~Expired(k)
     THEN /\ hits' = [of |-> k, value |-> answers[At(k)].value, age |-> now - answers[At(k)].at]
          /\ UNCHANGED answers
     ELSE hits' = NoHit /\ answers' = Without(k)
  /\ UNCHANGED <<now, answerFile, results, saving, puts, pastVars, resumeVars>>

(* put, up to the write of the file. *)
PutAnswer(k) ==
  /\ Calling /\ puts < MaxPuts /\ puts' = puts + 1
  /\ answers' = Evicted(Put(k, [key |-> k, value |-> puts', at |-> now]))
  /\ answerFile' = TornFile /\ saving' = "answers"
  /\ lastPut' = [lastPut EXCEPT ![k] = puts']
  /\ gone' = gone \ {k} /\ hits' = NoHit
  /\ UNCHANGED <<now, results, revived, resumeVars>>

(* invalidate: the file keeps the entry. *)
InvalidateAnswer(k) ==
  /\ Calling /\ Has(k)
  /\ answers' = Without(k) /\ hits' = NoHit
  /\ gone' = gone \union {k} /\ revived' = revived \union {k}
  /\ UNCHANGED <<now, answerFile, results, saving, puts, lastPut, resumeVars>>

ClearAnswers ==
  /\ Calling /\ answers # <<>>
  /\ answers' = <<>> /\ answerFile' = TornFile /\ saving' = "answers"
  /\ gone' = gone \union CachedPrompts /\ hits' = NoHit
  /\ UNCHANGED <<now, results, puts, lastPut, revived, resumeVars>>

-----------------------------------------------------------------------------
(* ToolCache: an entry that expired stays and is not given. *)
GetResult(k) ==
  /\ Calling
  /\ hits' = IF k \in DOMAIN results /\ now - results[k].at < ToolTTL
             THEN [of |-> k, value |-> results[k].value, age |-> now - results[k].at] ELSE NoHit
  /\ UNCHANGED <<now, answerVars, results, saving, puts, pastVars, resumeVars>>

PutResult(k) ==
  /\ Calling /\ puts < MaxPuts /\ puts' = puts + 1
  /\ results' = With(results, k, [value |-> puts', at |-> now])
  /\ lastPut' = [lastPut EXCEPT ![k] = puts']
  /\ gone' = gone \ {k} /\ hits' = NoHit
  /\ UNCHANGED <<now, answerVars, saving, revived, resumeVars>>

(* invalidate and clear. *)
DropResults(ks) ==
  /\ Calling /\ ks \subseteq DOMAIN results
  /\ results' = [k \in DOMAIN results \ ks |-> results[k]]
  /\ gone' = gone \union ks /\ hits' = NoHit
  /\ UNCHANGED <<now, answerVars, saving, puts, lastPut, revived, resumeVars>>

-----------------------------------------------------------------------------
(* ResumeEngine: a run completes its nodes in their order and saves a      *)
(* checkpoint whenever it likes.                                           *)
CompleteStep ==
  /\ Calling /\ done < Steps /\ done' = done + 1
  /\ UNCHANGED <<now, answerVars, results, saving, puts, hits, pastVars, checkpoint, savedAt, cutOff>>

SaveCheckpoint ==
  /\ Calling /\ checkpoint' = TornFile /\ saving' = "checkpoint" /\ cutOff' = TRUE
  /\ UNCHANGED <<now, answerVars, results, puts, hits, pastVars, done, savedAt>>

(* load_checkpoint and resume: the run goes on after the last of the       *)
(* completed nodes, or at the start if there is no checkpoint to read.     *)
ResumedFrom == IF checkpoint \in {NoCacheFile, TornFile} THEN 0 ELSE checkpoint

Resume ==
  /\ Calling /\ done' = ResumedFrom
  /\ UNCHANGED <<now, answerVars, results, saving, puts, hits, pastVars, checkpoint, savedAt, cutOff>>

ClearCheckpoint ==
  /\ Calling /\ checkpoint # NoCacheFile /\ checkpoint' = NoCacheFile
  /\ savedAt' = 0 /\ cutOff' = FALSE
  /\ UNCHANGED <<now, answerVars, results, saving, puts, hits, pastVars, done>>

-----------------------------------------------------------------------------
(* write_text has truncated the file; now it writes. *)
WriteAnswers ==
  /\ saving = "answers" /\ saving' = "nothing"
  /\ answerFile' = answers /\ revived' = {}
  /\ UNCHANGED <<now, answers, results, puts, hits, lastPut, gone, resumeVars>>

WriteCheckpoint ==
  /\ saving = "checkpoint" /\ saving' = "nothing"
  /\ checkpoint' = done /\ savedAt' = done /\ cutOff' = FALSE
  /\ UNCHANGED <<now, answerVars, results, done, puts, hits, pastVars>>

(* _load of a new process; the last was killed in any state. *)
RestartCaches ==
  /\ answers' = IF answerFile \in {NoCacheFile, TornFile} THEN <<>> ELSE answerFile
  /\ results' = << >> /\ done' = 0 /\ saving' = "nothing" /\ hits' = NoHit
  /\ gone' = (gone \ revived) \union ToolCalls /\ revived' = {}
  /\ UNCHANGED <<now, answerFile, puts, lastPut, checkpoint, savedAt, cutOff>>

(* The three are used apart. *)
AnswerNext ==
  \/ Time \/ ClearAnswers \/ WriteAnswers \/ RestartCaches
  \/ \E k \in CachedPrompts : GetAnswer(k) \/ PutAnswer(k) \/ InvalidateAnswer(k)

ResultNext ==
  \/ Time \/ RestartCaches \/ DropResults(DOMAIN results)
  \/ \E k \in ToolCalls : GetResult(k) \/ PutResult(k) \/ DropResults({k})

ResumeNext ==
  \/ CompleteStep \/ SaveCheckpoint \/ WriteCheckpoint \/ Resume \/ ClearCheckpoint
  \/ RestartCaches

CacheSpec == CacheInit /\ [][AnswerNext \/ ResultNext \/ ResumeNext]_cacheVars

-----------------------------------------------------------------------------
(* An answer from a cache is the last that was put for its key, young      *)
(* enough, and not one that was invalidated or cleared, except that one    *)
(* that was invalidated, and the file not written since, comes back with   *)
(* the next process.                                                       *)
HitsAreCurrent ==
  hits # NoHit =>
    /\ hits.value = lastPut[hits.of]
    /\ hits.of \notin gone
    /\ hits.age <= IF hits.of \in CachedPrompts THEN AnswerTTL ELSE ToolTTL

(* The cache is bounded, has one entry per key, and a put never evicts     *)
(* what it has just put, whatever the times of the others.                 *)
CacheIsBounded ==
  /\ Len(answers) <= MaxEntries
  /\ \A i, j \in DOMAIN answers : answers[i].key = answers[j].key => i = j
  /\ saving = "answers" /\ answers # <<>> => \E i \in DOMAIN answers : answers[i].value = puts

(* A run goes on where its last complete checkpoint says, in whatever      *)
(* process, unless the save of a later one was cut off: then from the      *)
(* start.  It never goes on after a node that was not completed.           *)
ResumeIsSafe == Calling => ResumedFrom = IF cutOff THEN 0 ELSE savedAt

CachesAreSound == HitsAreCurrent /\ CacheIsBounded /\ ResumeIsSafe
=============================================================================
