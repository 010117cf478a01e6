---------------------------- MODULE Translator ----------------------------
(***************************************************************************)
(* scripts/doc/translate-llm.py: files are split into chunks, the chunks   *)
(* translated by worker threads that share the file's API key and the pool *)
(* of keys, and the file is rewritten only when all of them succeeded.  A  *)
(* file is a sequence of paragraphs [len, fence]: fence when it holds an   *)
(* odd number of ``` marks, len counted in units of chunk_size.            *)
(***************************************************************************)
EXTENDS Naturals, Sequences, FiniteSets

CONSTANTS Files, Keys,      \* Keys is a sequence: _keys
          Texts,            \* the contents the files may have: functions of Files
          MaxRetries, Threshold, ChunkSize,
          IndexSpan         \* _index is kept modulo this multiple of 1 .. Len(Keys)

VARIABLES text,                       \* the file's paragraphs
          index, fails, active,       \* ApiKeyPool
          current,                    \* file_ctx.current_key, by file
          chunk,                      \* [st, key, attempt], by file and chunk
          at, disk                    \* _process_file: chunk awaited next; the file on disk

transVars == <<text, index, fails, active, current, chunk, at, disk>>

\* The for loop of split_markdown; chunks of blank paragraphs are not modelled.
Step(s, b) ==
    LET code == s.code # b.fence
        buffer == Append(s.buffer, b)
        length == s.length + b.len
    IN  IF length >= ChunkSize /\ ~code
        THEN [chunks |-> Append(s.chunks, buffer), buffer |-> <<>>, length |-> 0, code |-> code]
        ELSE [chunks |-> s.chunks, buffer |-> buffer, length |-> length, code |-> code]
split_markdown(blocks) ==
    LET scan[i \in 0 .. Len(blocks)] ==
            IF i = 0 THEN [chunks |-> <<>>, buffer |-> <<>>, length |-> 0, code |-> FALSE]
            ELSE Step(scan[i - 1], blocks[i])
        s == scan[Len(blocks)]
    IN  IF s.buffer = <<>> THEN s.chunks ELSE Append(s.chunks, s.buffer)

Chunks(f) == DOMAIN chunk[f]
KeySet == {Keys[i] : i \in 1 .. Len(Keys)}
Waiting == [st |-> "todo", key |-> "none", attempt |-> 0]

\* acquire(): round robin over the keys still active
Acquired == LET alive == SelectSeq(Keys, LAMBDA k : active[k])
            IN  IF alive = <<>> THEN "None" ELSE alive[(index % Len(alive)) + 1]

Init ==
    /\ text \in Texts
    /\ index = 0 /\ fails = [k \in KeySet |-> 0] /\ active = [k \in KeySet |-> TRUE]
    /\ current = [f \in Files |-> "none"]
    /\ chunk = [f \in Files |-> <<>>] /\ at = [f \in Files |-> 0]
    /\ disk = [f \in Files |-> "original"]

\* _process_file up to the submission of the chunks (at = 1), or giving up (at = 99)
GaveUp == 99
Unreadable(f) ==    \* reading fails, or the file is blank
    /\ at[f] = 0 /\ at' = [at EXCEPT ![f] = GaveUp]
    /\ UNCHANGED <<text, index, fails, active, current, chunk, disk>>
Open(f) ==
    /\ at[f] = 0
    /\ current' = [current EXCEPT ![f] = Acquired]
    /\ index' = IF Acquired = "None" THEN index ELSE (index + 1) % IndexSpan
    /\ at' = [at EXCEPT ![f] = IF Acquired = "None" THEN GaveUp ELSE 1]
    /\ chunk' = [chunk EXCEPT ![f] = IF Acquired = "None" THEN <<>>
                                     ELSE [c \in DOMAIN split_markdown(text[f]) |-> Waiting]]
    /\ UNCHANGED <<text, fails, active, disk>>

\* _translate_chunk: read the file's key; None ends the chunk
Call(f, c) ==
    /\ chunk[f][c].st = "todo"
    /\ chunk' = [chunk EXCEPT ![f][c] =
                    IF current[f] = "None" \/ @.attempt = MaxRetries THEN [@ EXCEPT !.st = "None"]
                    ELSE [@ EXCEPT !.st = "called", !.key = current[f]]]
    /\ UNCHANGED <<text, index, fails, active, current, at, disk>>

\* The answer: report_success; an answer without content raises after that
Succeeds(f, c) ==
    /\ chunk[f][c].st = "called"
    /\ fails' = [fails EXCEPT ![chunk[f][c].key] = 0]
    /\ \E st \in {"ok", "empty"} : chunk' = [chunk EXCEPT ![f][c].st = st]
    /\ UNCHANGED <<text, index, active, current, at, disk>>

\* The exception: report_failure, under the pool's lock
Fails(f, c, fatal) ==
    LET k == chunk[f][c].key
    IN  /\ chunk[f][c].st \in {"called", "empty"}
        /\ IF ~active[k] THEN UNCHANGED <<fails, active>>
           ELSE /\ fails' = IF fatal THEN fails ELSE [fails EXCEPT ![k] = @ + 1]
                /\ active' = [active EXCEPT ![k] = ~fatal /\ fails[k] + 1 < Threshold]
        /\ chunk' = [chunk EXCEPT ![f][c].st = "switch"]
        /\ UNCHANGED <<text, index, current, at, disk>>

\* ... then the file's key is changed, under the file's lock, unless another
\* chunk of the file has already changed it
Switch(f, c) ==
    /\ chunk[f][c].st = "switch"
    /\ IF current[f] = chunk[f][c].key
       THEN /\ current' = [current EXCEPT ![f] = Acquired]
            /\ index' = IF Acquired = "None" THEN index ELSE (index + 1) % IndexSpan
       ELSE UNCHANGED <<current, index>>
    /\ chunk' = [chunk EXCEPT ![f][c].st = "todo", ![f][c].attempt = @ + 1]
    /\ UNCHANGED <<text, fails, active, at, disk>>

\* The results in order; the first None keeps the original
Collect(f) ==
    /\ at[f] \in Chunks(f)
    /\ chunk[f][at[f]].st \in {"ok", "None"}
    /\ at' = [at EXCEPT ![f] = IF chunk[f][at[f]].st = "None" THEN GaveUp ELSE @ + 1]
    /\ UNCHANGED <<text, index, fails, active, current, chunk, disk>>
Write(f) ==        \* write_text, which may fail half-way
    /\ at[f] = Len(chunk[f]) + 1 /\ disk[f] = "original"
    /\ \E d \in {"translated", "torn"} : disk' = [disk EXCEPT ![f] = d]
    /\ UNCHANGED <<text, index, fails, active, current, chunk, at>>

Worker(f, c) ==
    Call(f, c) \/ Succeeds(f, c) \/ (\E b \in BOOLEAN : Fails(f, c, b)) \/ Switch(f, c)
Run == \E f \in Files : Unreadable(f) \/ Open(f) \/ Collect(f) \/ Write(f) \/ \E c \in Chunks(f) : Worker(f, c)
Finished == \A f \in Files : /\ at[f] = GaveUp \/ disk[f] # "original"
                             /\ \A c \in Chunks(f) : chunk[f][c].st \in {"ok", "None"}
Next == Run \/ (Finished /\ UNCHANGED transVars)
Fairness == WF_transVars(Run)
Spec == Init /\ [][Next]_transVars /\ Fairness

Flat(ss) == LET cat[i \in 0 .. Len(ss)] == IF i = 0 THEN <<>> ELSE cat[i - 1] \o ss[i]
            IN  cat[Len(ss)]

\* A file is rewritten only when every chunk of it was translated, and its
\* chunks are the whole text in order, none ending inside a code block that the text
\* closes; it is given up only with a chunk out of attempts or no key left; and a file has
\* no key only when every key of the pool was disabled.
TranslatedWhole ==
    \A f \in Files :
        /\ disk[f] # "original" => \A c \in Chunks(f) : chunk[f][c].st = "ok"
        /\ (at[f] = GaveUp /\ chunk[f] # <<>>) =>
             \E c \in Chunks(f) : chunk[f][c].st = "None"
                                   /\ (chunk[f][c].attempt = MaxRetries \/ current[f] = "None")
        /\ current[f] = "None" => \A k \in KeySet : ~active[k]
        /\ at[f] = 0 =>
             LET parts == split_markdown(text[f])
             IN  /\ Flat(parts) = text[f]
                 /\ \A c \in 1 .. Len(parts) - 1 :
                      Cardinality({i \in 1 .. Len(parts[c]) : parts[c][i].fence}) % 2 = 0

\* Owed: that the translation of a directory ends.
Owed == ~Finished
=============================================================================
