------------------------------ MODULE Tiering -------------------------------
(***************************************************************************)
(* Which tables Store::maybe_compact merges.  Store.tla lets any run of    *)
(* neighbours be the one; here is the walk that chooses it, one action per *)
(* step of its two loops, over the tables' file sizes as flushes and       *)
(* merges change them.                                                     *)
(***************************************************************************)
EXTENDS Integers, Sequences, FiniteSetsExt

CONSTANTS
  FlushSizes,          \* sizes of the files a flush may write
  kCompactionTrigger,  \* tables a run needs
  kTierRatio,          \* how many times larger a table of one tier may be
  MaxTables,           \* bound: tables at one time
  MaxSize              \* bound: size of a merged table

ASSUME TieringAssumption ==
  /\ FlushSizes \subseteq 1..MaxSize
  /\ kCompactionTrigger \in Nat \ {0}
  /\ kTierRatio \in Nat \ {0}
  /\ MaxTables \in Nat /\ MaxSize \in Nat

VARIABLES
  files,     \* the size of each file of sstables_, newest first
  sizes,     \* what file_size answered: 0 where stat failed
  i,         \* the walk's i, counting down from the oldest
  end,       \* one past the oldest member of the run
  smallest,  \* the smallest size in the run
  at         \* where maybe_compact is; "idle" outside it

vars == <<files, sizes, i, end, smallest, at>>

Init ==
  /\ files = <<>>
  /\ sizes = <<>>
  /\ i = 0 /\ end = 0 /\ smallest = 0
  /\ at = "idle"

\* A flush puts a new table in front; it never runs inside maybe_compact.
Flush ==
  /\ at = "idle"
  /\ Len(files) < MaxTables
  /\ \E s \in FlushSizes : files' = <<s>> \o files
  /\ UNCHANGED <<sizes, i, end, smallest, at>>

\* Enough tables: every file is asked for its size.
Begin ==
  /\ at = "idle"
  /\ Len(files) >= kCompactionTrigger
  /\ \E unread \in SUBSET (1..Len(files)) :
       sizes' = [n \in 1..Len(files) |-> IF n \in unread THEN 0 ELSE files[n]]
  /\ i' = Len(files)
  /\ at' = "outer"
  /\ UNCHANGED <<files, end, smallest>>

\* The head of the outer loop: a new run starts at the oldest table left.
StartRun ==
  /\ at = "outer"
  /\ IF i = 0
     THEN at' = "none" /\ UNCHANGED <<end, smallest>>
     ELSE end' = i /\ smallest' = sizes[i] /\ at' = "inner"
  /\ UNCHANGED <<files, sizes, i>>

\* The next table against the smallest so far.
Alike(candidate) ==
  LET low == Min({candidate, smallest})
      high == Max({candidate, smallest})
  IN  low # 0 /\ high <= low * kTierRatio

Fits == i > 0 /\ Alike(sizes[i])

\* The inner loop takes one more table into the run.
Extend ==
  /\ at = "inner"
  /\ Fits
  /\ smallest' = Min({sizes[i], smallest})
  /\ i' = i - 1
  /\ UNCHANGED <<files, sizes, end, at>>

EndRunNeverSkipping ==
  /\ at = "inner"
  /\ ~Fits
  /\ at' = IF end - i >= kCompactionTrigger THEN "chosen" ELSE "outer"
  /\ UNCHANGED <<files, sizes, i, end, smallest>>

EndRunAlwaysSkipping ==
  /\ at = "inner"
  /\ ~Fits
  /\ IF end - i >= kCompactionTrigger
     THEN at' = "chosen" /\ i' = i
     ELSE at' = "outer" /\ i' = IF i = 0 THEN 0 ELSE i - 1
  /\ UNCHANGED <<files, sizes, end, smallest>>

\* The inner loop stops: the run is long enough, or the walk goes on from
\* where it stopped, past a table that could not even start a run.
EndRun ==
  /\ at = "inner"
  /\ ~Fits
  /\ IF end - i >= kCompactionTrigger
     THEN at' = "chosen" /\ i' = i
     ELSE at' = "outer" /\ i' = IF end = i THEN i - 1 ELSE i
  /\ UNCHANGED <<files, sizes, end, smallest>>

Total(s) == MapThenSumSet(LAMBDA n : s[n], DOMAIN s)

\* maybe_compact returns: without a run, after a merge that failed, or with
\* the run replaced by one table no larger than its inputs together, or by
\* none when nothing in them was still alive.
Return ==
  /\ at \in {"chosen", "none"}
  /\ at' = "idle"
  /\ sizes' = <<>> /\ i' = 0 /\ end' = 0 /\ smallest' = 0
  /\ \/ UNCHANGED files
     \/ /\ at = "chosen"
        /\ \E merged \in {<<>>} \cup
               {<<s>> : s \in 1..Min({MaxSize, Total(SubSeq(files, i + 1, end))})} :
             files' = SubSeq(files, 1, i) \o merged \o SubSeq(files, end + 1, Len(files))

Next == Flush \/ Begin \/ StartRun \/ Extend \/ EndRun \/ Return

Spec == Init /\ [][Next]_vars

\* The walk is straight-line code: it takes its next step.
FairSpec == Spec /\ WF_vars(StartRun \/ Extend \/ EndRun \/ Return)

-----------------------------------------------------------------------------
(* Properties *)

Run == (i + 1)..end

\* The walk comes to an end whatever the sizes are, a table whose size could
\* not be read included ("a zero-length run would not terminate the walk").
WalkEnds == (at # "idle") ~> (at = "idle")

\* Tables of one size standing together are never split between two runs, so
\* a trigger's worth of them is merged, in this run or an older one.
EqualTablesGetMerged ==
  at = "none" =>
    \A first \in 1..(Len(sizes) - kCompactionTrigger + 1) :
      \/ sizes[first] = 0
      \/ \E n \in first..(first + kCompactionTrigger - 1) : sizes[n] # sizes[first]

\* What is chosen is one tier: of any two tables in it, neither is more than
\* the ratio above the other ("Two tables belong to the same tier if neither
\* is more than this many times the size of the other").  The walk of
\* maybe_compact compares with the smallest member only and breaks this.
ChosenTablesAlike ==
  at = "chosen" => \A m, n \in Run : sizes[m] <= kTierRatio * sizes[n]

=============================================================================
