------------------------------ MODULE EventJournal ------------------------------
(***************************************************************************)
(* The bounded journal of a device's events and the cursors its readers    *)
(* resume from: DeviceEventJournal and _JournalDirectory of                *)
(* device_events.py, with the file system under them.                      *)
(*                                                                         *)
(* A directory is an inode with one journal file and one lock; the journal *)
(* path names one of them, or none.  A file is [id, records, torn]; its    *)
(* bytes are counted in records.  A step of a writer may be its last one:  *)
(* the process crashed or the call raised.                                 *)
(***************************************************************************)
EXTENDS Integers, Sequences, FiniteSetsExt, SequencesExt

CONSTANTS
    JWriters, JReaders,  \* callers of append() and of export()
    Inodes,              \* bound: directories there ever are, 1..n
    Pages,               \* limits of an export
    MaxKept,             \* max_events
    MaxMinted,           \* bound: events appended
    NoCursor

ASSUME JournalAssumption ==
    /\ MaxKept \in Nat \ {0} /\ Inodes \in Nat /\ MaxMinted \in Nat
    /\ NoCursor \notin JWriters /\ Pages \subseteq Nat \ {0}

VARIABLES
    file,      \* inode -> [id, records, torn]; id 0: no journal was written yet
    lock,      \* inode -> the writer that holds its flock, or NoCursor
    named,     \* the inode the path names, 0 when it names none
    writer,    \* writer -> [pc, dir, seen]
    minted,    \* events appended, and journals begun
    written,   \* ghost: [id, pos, event] that ever were in a readable journal
    acked,     \* ghost: [dir, id, pos, event] append() returned
    reader     \* reader -> [cursor, got, gaps]

journalVars == <<file, lock, named, writer, minted, written, acked, reader>>

EmptyFile == [id |-> 0, records |-> <<>>, torn |-> FALSE]
Idle      == [pc |-> "idle", dir |-> 0, seen |-> EmptyFile]

\* _decode_header() and _decode_record() read every line; a torn end is none.
Decodes(f) == ~f.torn

\* _refuse_non_contiguous(): positions step by one.
Contiguous(f) == \A i \in 2..Len(f.records) : f.records[i].pos = f.records[i - 1].pos + 1

\* _load() returns.
Readable(f) == Decodes(f) /\ Contiguous(f)

NextPos(f) == IF f.records = <<>> THEN 1 ELSE Last(f.records).pos + 1

\* _retain(): whole oldest records go until the bound holds, the new one stays.
Retained(records) ==
    IF Len(records) <= MaxKept THEN records
    ELSE SubSeq(records, Len(records) - MaxKept + 1, Len(records))

-----------------------------------------------------------------------------
\* append(): open the named directory, making it when there is none.
OpenDirectory(w) ==
    /\ writer[w].pc = "idle" /\ minted.events < MaxMinted
    /\ named = 0 => minted.dirs < Inodes
    /\ named' = IF named = 0 THEN minted.dirs + 1 ELSE named
    /\ minted' = IF named = 0 THEN [minted EXCEPT !.dirs = @ + 1] ELSE minted
    /\ writer' = [writer EXCEPT ![w] = [pc |-> "opened", dir |-> named', seen |-> EmptyFile]]
    /\ UNCHANGED <<file, lock, written, acked, reader>>

FreeAlways(dir) == TRUE

\* flock(LOCK_EX) returns.
Free(dir) == lock[dir] = NoCursor

Release(w) ==
    /\ writer' = [writer EXCEPT ![w] = Idle]
    /\ lock' = [lock EXCEPT ![writer[w].dir] = IF @ = w THEN NoCursor ELSE @]

\* The lock is taken, the name checked under it, and the journal loaded.
LockAndLoad(w) ==
    LET dir == writer[w].dir IN
    /\ writer[w].pc = "opened"
    /\ Free(dir)
    /\ IF named = dir /\ Readable(file[dir])
       THEN /\ lock' = [lock EXCEPT ![dir] = w]
            /\ writer' = [writer EXCEPT ![w].pc = "loaded", ![w].seen = file[dir]]
       ELSE writer' = [writer EXCEPT ![w] = Idle] /\ UNCHANGED lock
    /\ UNCHANGED <<file, named, minted, written, acked, reader>>

\* reverify() before anything is published.
Reverify(w) ==
    /\ writer[w].pc = "loaded"
    /\ IF named = writer[w].dir
       THEN writer' = [writer EXCEPT ![w].pc = "verified"] /\ UNCHANGED lock
       ELSE Release(w)
    /\ UNCHANGED <<file, named, minted, written, acked, reader>>

\* _rewrite(): a partial file takes the name, whole. _append_line() may tear.
Rewritten(id, kept) == [id |-> id, records |-> kept, torn |-> FALSE]
Extended(f, record) == [id |-> f.id, records |-> Append(f.records, record), torn |-> f.torn]
Torn(f)             == [id |-> f.id, records |-> f.records, torn |-> TRUE]

\* append() rewrites when a record is dropped or the journal is new, and appends a
\* line else. A rewrite is there or not; an appended line may be torn, or there and
\* not acknowledged.
Publish(w, outcome) ==
    LET dir      == writer[w].dir
        seen     == writer[w].seen
        begun    == seen.id = 0
        id       == IF begun THEN minted.journals + 1 ELSE seen.id
        record   == [pos |-> NextPos(seen), event |-> minted.events + 1]
        kept     == Retained(Append(seen.records, record))
        rewrites == begun \/ Len(kept) <= Len(seen.records)
        entry    == [id |-> id, pos |-> record.pos, event |-> record.event]
        stored   == outcome \in {"acked", "unacked"}
    IN  /\ writer[w].pc = "verified"
        /\ minted.events < MaxMinted
        /\ outcome = "torn" => ~rewrites
        /\ file' = [file EXCEPT ![dir] =
                       IF outcome = "torn" THEN Torn(@)
                       ELSE IF ~stored THEN @
                       ELSE IF rewrites THEN Rewritten(id, kept) ELSE Extended(@, record)]
        /\ minted' = IF stored THEN [minted EXCEPT !.events = @ + 1,
                                                   !.journals = IF begun THEN @ + 1 ELSE @]
                     ELSE minted
        /\ written' = IF stored THEN written \cup {entry} ELSE written
        /\ acked' = IF outcome = "acked" THEN acked \cup {[dir |-> dir, id |-> id, pos |-> record.pos, event |-> record.event]}
                  ELSE acked
        /\ Release(w)
        /\ UNCHANGED <<named, reader>>

-----------------------------------------------------------------------------
\* The operator renames the directory away, or removes a journal nobody can read.
Displace ==
    /\ named # 0 /\ minted.dirs < Inodes
    /\ named' = 0
    /\ UNCHANGED <<file, lock, writer, minted, written, acked, reader>>

RemoveTorn ==
    /\ named # 0 /\ ~Readable(file[named])
    /\ file' = [file EXCEPT ![named] = EmptyFile]
    /\ UNCHANGED <<lock, named, writer, minted, written, acked, reader>>

-----------------------------------------------------------------------------
\* The position a cursor stands at, and the cursor of a record (encode_cursor).
After(cursor) == IF cursor = NoCursor THEN 0 ELSE cursor.pos

CursorAt(f, record) == [id |-> f.id, pos |-> record.pos, event |-> record.event]

\* _verify_cursor_tag(): the record a cursor names, if it is still here, is another.
TagDiffers(cursor, f) ==
    After(cursor) > 0 /\ \E record \in Range(f.records) :
        record.pos = cursor.pos /\ record.event # cursor.event

\* What export() refuses. A cursor of the journal 0, issued before there was one, is
\* a cursor of no journal.
Refuses(cursor, f) ==
    \/ cursor # NoCursor /\ (cursor.id = 0 \/ cursor.id # f.id)
    \/ After(cursor) >= NextPos(f)
    \/ TagDiffers(cursor, f)

\* _select(): the first records behind a cursor, as many as fit.
Page(f, after, limit) ==
    LET old  == {i \in DOMAIN f.records : f.records[i].pos <= after}
        from == Cardinality(old) + 1
        all  == Len(f.records)
    IN  SubSeq(f.records, from, IF from + limit <= all THEN from + limit - 1 ELSE all)

\* The page does not go on where the cursor stood.
Gap(page, after) == page # <<>> /\ page[1].pos # after + 1

\* export(): a page and the cursor after it.
Export(r, limit) ==
    LET f     == file[named]
        at    == reader[r]
        after == After(at.cursor)
        page  == Page(f, after, limit)
    IN  /\ named # 0 /\ lock[named] = NoCursor
        /\ Readable(f) /\ ~Refuses(at.cursor, f)
        /\ reader' = [reader EXCEPT ![r] =
              [cursor |-> IF page # <<>> THEN CursorAt(f, Last(page))
                          ELSE IF at.cursor # NoCursor THEN at.cursor
                          ELSE CursorAt(f, [pos |-> 0, event |-> 0]),
               got    |-> at.got \cup Range(page),
               gaps   |-> IF Gap(page, after) THEN at.gaps \cup (after + 1)..(page[1].pos - 1)
                          ELSE at.gaps]]
        /\ UNCHANGED <<file, lock, named, writer, minted, written, acked>>

NewReader == [cursor |-> NoCursor, got |-> {}, gaps |-> {}]

\* A refused reader begins again.
StartOver(r) ==
    /\ named # 0 /\ Readable(file[named]) /\ Refuses(reader[r].cursor, file[named])
    /\ reader' = [reader EXCEPT ![r] = NewReader]
    /\ UNCHANGED <<file, lock, named, writer, minted, written, acked>>

JournalInit ==
    /\ file = [d \in 1..Inodes |-> EmptyFile]
    /\ lock = [d \in 1..Inodes |-> NoCursor]
    /\ named = 0
    /\ writer = [w \in JWriters |-> Idle]
    /\ minted = [events |-> 0, journals |-> 0, dirs |-> 0]
    /\ written = {} /\ acked = {}
    /\ reader = [r \in JReaders |-> NewReader]

JournalNext ==
    \/ \E w \in JWriters :
          \/ OpenDirectory(w) \/ LockAndLoad(w) \/ Reverify(w)
          \/ \E outcome \in {"acked", "unacked", "torn", "nothing"} : Publish(w, outcome)
    \/ Displace \/ RemoveTorn
    \/ \E r \in JReaders : StartOver(r) \/ \E limit \in Pages : Export(r, limit)

-----------------------------------------------------------------------------
\* Every position up to a reader's cursor was handed to it, as it was written, or lies
\* in a gap an export reported; also when retention ran between its pages, and when the
\* path came to name another directory (device_events.py:1049 "gap is the field that
\* matters").
ReaderIsToldOfGaps ==
    \A r \in JReaders :
        LET at == reader[r] IN
        at.cursor # NoCursor =>
            \A p \in 1..at.cursor.pos :
                p \in at.gaps \/ \E record \in at.got :
                    /\ record.pos = p
                    /\ [id |-> at.cursor.id, pos |-> p, event |-> record.event] \in written

\* An event append() returned is in the journal it was written to until retention drops
\* it or the operator removes the file, and nothing else was ever written at its
\* position (device_events.py:944 "two writers each hold a valid lock on a different
\* inode and a retention rewrite loses whatever the other one appended").
AcknowledgedIsKept ==
    \A a \in acked :
        /\ \A other \in written : other.id = a.id /\ other.pos = a.pos => other.event = a.event
        /\ LET f == file[a.dir] IN
           f.id = a.id => \/ \E i \in DOMAIN f.records :
                                f.records[i].pos = a.pos /\ f.records[i].event = a.event
                          \/ f.records[1].pos > a.pos

\* The journal can be audited: nothing acknowledged disappears unnoticed, neither from
\* the file nor from what a reader was told.
JournalIsAccountable == AcknowledgedIsKept /\ ReaderIsToldOfGaps
===============================================================================
