-------------------------- MODULE GatewayLogProofs --------------------------
(***************************************************************************)
(* What the gateway keeps on disk, for any calls, any limits and any number *)
(* of records: the files of the flywheel with whoever reads them, and the  *)
(* log of requests.                                                        *)
(***************************************************************************)
EXTENDS CaptureReader, RequestLog, FiniteSetTheorems, InductionFacts

(* The files of the flywheel: what counts up, and what is in order.        *)

\* The number of the record that was written, or given up, last.
Done == IF step = "idle" THEN Len(calls) ELSE Len(calls) - 1

\* What counts the records and the days goes up.
Counted ==
    /\ step # "idle" => Len(calls) > 0
    /\ unpruned <= Done
    /\ path.day <= now \div DayLength
    /\ \A n \in DOMAIN files :
          n.day <= path.day /\ n.stamp <= rotated /\ files[n].mtime <= Done

\* The numbers go up.
Increasing(seq) == \A i, j \in DOMAIN seq : i < j => seq[i] < seq[j]

\* The lines of a file are in order.
FileInOrder(f) ==
    /\ Increasing(f.lines)
    /\ \A i \in DOMAIN f.lines : f.lines[i] <= f.mtime

\* A file that was written last before another one has the earlier records, and is
\* not written again: it has been rotated, or its day is over.
Earlier(n, m) ==
    /\ n.stamp = NoStamp => n.day < m.day
    /\ \A i \in DOMAIN files[n].lines, j \in DOMAIN files[m].lines :
          files[n].lines[i] < files[m].lines[j]

\* Every file is in order, and so are the files.
InOrder ==
    /\ \A n \in DOMAIN files : FileInOrder(files[n])
    /\ \A n, m \in DOMAIN files :
          n # m => /\ files[n].mtime # files[m].mtime
                   /\ files[n].mtime < files[m].mtime => Earlier(n, m)

\* The inductive invariant of the capture.
CaptureInv == CaptureTypeOK /\ Counted /\ InOrder

\* The file that is written, before
Old == IF path \in DOMAIN files THEN files[path]
       ELSE [lines |-> <<>>, last |-> "whole", size |-> 0, mtime |-> Len(calls)]

\* and after.
New(outcome) ==
    [lines |-> CASE Old.last = "whole" /\ outcome # "torn" -> Append(Old.lines, Len(calls))
                 [] Old.last = "cut" -> Front(Old.lines)
                 [] OTHER -> Old.lines,
     last  |-> IF outcome = "cut" /\ Old.last # "whole" THEN "torn" ELSE outcome,
     size  |-> Old.size + 1,
     mtime |-> Len(calls)]

\* What a write does.
LEMMA WriteMakesNew ==
  ASSUME NEW outcome, Write(outcome)
  PROVE  /\ step = "write" /\ step' = "idle"
         /\ files' = With(files, path, New(outcome))
         /\ unpruned' = unpruned + 1
         /\ UNCHANGED <<enabled, now, path, calls, rotated, overlap>>
BY DEF Write, New, Old

\* A sequence without its last element.
LEMMA FrontOf ==
  ASSUME NEW V, NEW s \in Seq(V), s # <<>>
  PROVE  /\ Front(s) \in Seq(V) /\ Len(Front(s)) = Len(s) - 1 /\ Len(s) > 0
         /\ \A i \in 1 .. Len(s) - 1 : Front(s)[i] = s[i]
<1>1. Len(s) \in Nat /\ Len(s) > 0 OBVIOUS
<1> DEFINE k == Len(s) - 1
<1>2. k \in Nat /\ k <= Len(s) BY <1>1
<1>3. Front(s) = SubSeq(s, 1, k) BY DEF Front
<1> HIDE DEF k
<1>4. Front(s) \in Seq(V) /\ Len(Front(s)) = k BY <1>1, <1>2, <1>3
<1>5. \A i \in 1 .. k : Front(s)[i] = s[i] BY <1>1, <1>2, <1>3
<1> QED BY <1>1, <1>4, <1>5 DEF k

\* What was in the file before is of earlier records.
LEMMA OldFile ==
  ASSUME CaptureInv, step = "write"
  PROVE  /\ Len(calls) \in Ids /\ Old \in File /\ Len(Old.lines) <= Old.size
         /\ Old.last = "cut" => Old.lines # <<>>
         /\ Increasing(Old.lines)
         /\ \A i \in DOMAIN Old.lines : Old.lines[i] < Len(calls)
<1>1. Len(calls) \in Nat /\ Len(calls) \in Ids /\ Done = Len(calls) - 1
  BY CaptureAssumption DEF CaptureInv, CaptureTypeOK, Counted, Ids, Done
<1>2. CASE path \in DOMAIN files
  <2>1. Old = files[path] /\ files[path] \in File BY <1>2 DEF Old, CaptureInv, CaptureTypeOK
  <2>2. FileInOrder(files[path]) /\ files[path].mtime <= Done BY <1>2 DEF CaptureInv, InOrder, Counted
  <2>3. /\ Len(files[path].lines) <= files[path].size
        /\ files[path].last = "cut" => files[path].lines # <<>>
    BY <1>2 DEF CaptureInv, CaptureTypeOK
  <2>4. \A i \in DOMAIN files[path].lines : files[path].lines[i] \in Ids /\ files[path].mtime \in Ids
    BY <2>1 DEF File
  <2>5. \A i \in DOMAIN files[path].lines : files[path].lines[i] < Len(calls)
    BY <1>1, <2>2, <2>4 DEF FileInOrder, Ids
  <2> QED BY <1>1, <2>1, <2>2, <2>3, <2>5 DEF FileInOrder
<1>3. CASE path \notin DOMAIN files
  <2>1. Old = [lines |-> <<>>, last |-> "whole", size |-> 0, mtime |-> Len(calls)] BY <1>3 DEF Old
  <2> QED BY <1>1, <2>1 DEF File, Increasing
<1> QED BY <1>2, <1>3

\* What is in the file after is that, without its last line perhaps, or with the
\* new record behind it.
LEMMA NewFile ==
  ASSUME CaptureInv, step = "write", NEW outcome \in {"whole", "cut", "torn"}
  PROVE  /\ New(outcome) \in File /\ New(outcome).mtime = Len(calls)
         /\ New(outcome).size = Old.size + 1
         /\ Len(New(outcome).lines) <= New(outcome).size
         /\ New(outcome).last = "cut" => New(outcome).lines # <<>>
         /\ FileInOrder(New(outcome))
         /\ \/ New(outcome).lines = Append(Old.lines, Len(calls))
            \/ New(outcome).lines = Old.lines
            \/ New(outcome).lines = Front(Old.lines) /\ Old.lines # <<>>
<1> DEFINE id == Len(calls)
           new == New(outcome)
<1>1. /\ id \in Ids /\ Old \in File /\ Len(Old.lines) <= Old.size
      /\ Old.last = "cut" => Old.lines # <<>>
      /\ Increasing(Old.lines)
      /\ \A i \in DOMAIN Old.lines : Old.lines[i] < id
  BY OldFile
<1>2. Old.lines \in Seq(Ids) /\ Old.size \in Nat /\ Old.last \in {"whole", "cut", "torn"}
  BY <1>1 DEF File
<1>3. id \in Nat BY <1>1 DEF Ids
<1>4. \A i \in DOMAIN Old.lines : Old.lines[i] \in Nat
  <2>1. \A i \in DOMAIN Old.lines : Old.lines[i] \in Ids BY <1>2
  <2> QED BY <2>1, CaptureAssumption DEF Ids
<1>5. /\ new.mtime = id /\ new.size = Old.size + 1
      /\ new.last = IF outcome = "cut" /\ Old.last # "whole" THEN "torn" ELSE outcome
      /\ new = [lines |-> new.lines, last |-> new.last, size |-> new.size, mtime |-> new.mtime]
  BY DEF New
<1>6. CASE Old.last = "whole" /\ outcome # "torn"
  <2>1. new.lines = Append(Old.lines, id) BY <1>6 DEF New
  <2> HIDE DEF new, id
  <2>2. new.lines \in Seq(Ids) /\ Len(new.lines) = Len(Old.lines) + 1 /\ Len(Old.lines) \in Nat
    BY <1>1, <1>2, <2>1
  <2>3. /\ \A i \in 1 .. Len(Old.lines) : new.lines[i] = Old.lines[i]
        /\ new.lines[Len(Old.lines) + 1] = id
    BY <1>2, <2>1
  <2>4. DOMAIN new.lines = 1 .. Len(Old.lines) + 1 /\ DOMAIN Old.lines = 1 .. Len(Old.lines)
    BY <1>2, <2>2
  <2>5. \A i \in DOMAIN new.lines : i \in DOMAIN Old.lines \/ i = Len(Old.lines) + 1 BY <2>2, <2>4
  <2>6. Increasing(new.lines)
    <3> SUFFICES ASSUME NEW i \in DOMAIN new.lines, NEW j \in DOMAIN new.lines, i < j
                 PROVE  new.lines[i] < new.lines[j]
      BY DEF Increasing
    <3>1. i \in DOMAIN Old.lines BY <2>2, <2>4
    <3> QED BY <1>1, <2>3, <2>4, <2>5, <3>1 DEF Increasing
  <2>7. \A i \in DOMAIN new.lines : new.lines[i] <= id BY <1>1, <1>3, <1>4, <2>3, <2>4, <2>5
  <2>8. new.lines # <<>> BY <2>2
  <2>9. new \in File
    <3>1. new.last \in {"whole", "cut", "torn"} /\ new.size \in Nat /\ new.mtime \in Ids
      BY <1>1, <1>2, <1>5 DEF id
    <3> QED BY <1>5, <2>2, <3>1 DEF File
  <2> QED BY <1>1, <1>2, <1>5, <2>1, <2>2, <2>6, <2>7, <2>8, <2>9 DEF FileInOrder, new, id
<1>7. CASE Old.last = "cut"
  <2>1. new.lines = Front(Old.lines) BY <1>7 DEF New
  <2>2. /\ new.lines \in Seq(Ids) /\ Len(new.lines) = Len(Old.lines) - 1 /\ Len(Old.lines) > 0
        /\ \A i \in 1 .. Len(Old.lines) - 1 : new.lines[i] = Old.lines[i]
    BY <1>1, <1>2, <1>7, <2>1, FrontOf
  <2> HIDE DEF new, id
  <2>3. Len(Old.lines) \in Nat /\ DOMAIN new.lines = 1 .. Len(Old.lines) - 1
        /\ DOMAIN Old.lines = 1 .. Len(Old.lines)
    BY <1>2, <2>2
  <2>4. \A i \in DOMAIN new.lines : i \in DOMAIN Old.lines /\ new.lines[i] = Old.lines[i] BY <2>2, <2>3
  <2>5. Increasing(new.lines) BY <1>1, <2>4 DEF Increasing
  <2>6. \A i \in DOMAIN new.lines : new.lines[i] <= id BY <1>1, <1>3, <1>4, <2>4
  <2>7. new.last \in {"whole", "torn"} BY <1>5, <1>7
  <2> QED BY <1>1, <1>2, <1>5, <1>7, <2>1, <2>2, <2>3, <2>5, <2>6, <2>7 DEF FileInOrder, File, new, id
<1>8. CASE ~(Old.last = "whole" /\ outcome # "torn") /\ Old.last # "cut"
  <2>1. new.lines = Old.lines BY <1>8 DEF New
  <2> HIDE DEF new, id
  <2>2. new.last \in {"whole", "torn"} BY <1>2, <1>5, <1>8
  <2>3. \A i \in DOMAIN Old.lines : Old.lines[i] <= id BY <1>1, <1>3, <1>4
  <2> QED BY <1>1, <1>2, <1>5, <2>1, <2>2, <2>3 DEF FileInOrder, File, new, id
<1> QED BY <1>6, <1>7, <1>8

\* Whatever file is not the one that is written has earlier records than that.
LEMMA OthersAreEarlier ==
  ASSUME CaptureInv, step = "write", NEW m \in DOMAIN files, m # path
  PROVE  /\ m.stamp = NoStamp => m.day < path.day
         /\ \A i \in DOMAIN files[m].lines :
               /\ files[m].lines[i] < Len(calls)
               /\ \A j \in DOMAIN Old.lines : files[m].lines[i] < Old.lines[j]
<1>1. /\ m \in Names /\ path \in Names /\ path.stamp = NoStamp /\ m.day <= path.day
      /\ files[m] \in File /\ files[m].mtime <= Done /\ FileInOrder(files[m])
  BY DEF CaptureInv, CaptureTypeOK, Counted, InOrder
<1>2. m.stamp = NoStamp => m.day < path.day
  BY <1>1, CaptureAssumption DEF Names
<1>3. /\ Len(calls) \in Nat /\ Done = Len(calls) - 1
      /\ files[m].mtime \in Nat /\ \A i \in DOMAIN files[m].lines : files[m].lines[i] \in Nat
  <2>1. \A i \in DOMAIN files[m].lines : files[m].lines[i] \in Ids BY <1>1 DEF File
  <2> QED BY <1>1, <2>1, CaptureAssumption DEF CaptureInv, CaptureTypeOK, File, Ids, Done
<1>4. \A i \in DOMAIN files[m].lines : files[m].lines[i] < Len(calls)
  BY <1>1, <1>3 DEF FileInOrder
<1>5. CASE path \in DOMAIN files
  <2>1. files[path] \in File /\ Old = files[path] BY <1>5 DEF CaptureInv, CaptureTypeOK, Old
  <2>2. files[path].mtime \in Nat BY <2>1, CaptureAssumption DEF File, Ids
  <2>3. m.day \in Nat /\ path.day \in Nat BY <1>1, CaptureAssumption DEF Names
  <2>4. ~Earlier(path, m) BY <1>1, <2>3 DEF Earlier
  <2>5. Earlier(m, path) BY <1>3, <1>5, <2>2, <2>4 DEF CaptureInv, InOrder
  <2> QED BY <1>2, <1>4, <2>1, <2>5 DEF Earlier
<1>6. CASE path \notin DOMAIN files BY <1>2, <1>4, <1>6 DEF Old
<1> QED BY <1>5, <1>6

\* A write adds the newest record to a file that has only older ones.
LEMMA WriteKeepsInv ==
  ASSUME CaptureInv, NEW outcome \in {"whole", "cut", "torn"}, Write(outcome)
  PROVE  CaptureInv'
<1>1. /\ step = "write" /\ step' = "idle"
      /\ files' = With(files, path, New(outcome))
      /\ unpruned' = unpruned + 1
      /\ UNCHANGED <<enabled, now, path, calls, rotated, overlap>>
  BY WriteMakesNew
<1> DEFINE new == New(outcome)
<1>2. /\ new \in File /\ new.mtime = Len(calls) /\ Len(new.lines) <= new.size
      /\ new.last = "cut" => new.lines # <<>>
      /\ FileInOrder(new)
      /\ \/ new.lines = Append(Old.lines, Len(calls))
         \/ new.lines = Old.lines
         \/ new.lines = Front(Old.lines) /\ Old.lines # <<>>
  BY <1>1, NewFile
<1>3. /\ Old.lines \in Seq(Ids) /\ Len(calls) \in Ids
  BY <1>1, OldFile DEF File
<1>4. \A i \in DOMAIN new.lines :
         new.lines[i] = Len(calls) \/ \E j \in DOMAIN Old.lines : new.lines[i] = Old.lines[j]
  <2> HIDE DEF new
  <2>1. CASE new.lines = Append(Old.lines, Len(calls)) BY <1>3, <2>1
  <2>2. CASE new.lines = Old.lines BY <2>2
  <2>3. CASE new.lines = Front(Old.lines) /\ Old.lines # <<>>
    <3>1. /\ new.lines \in Seq(Ids) /\ Len(new.lines) = Len(Old.lines) - 1 /\ Len(Old.lines) > 0
          /\ \A i \in 1 .. Len(Old.lines) - 1 : new.lines[i] = Old.lines[i]
      BY <1>3, <2>3, FrontOf
    <3>2. \A i \in DOMAIN new.lines : i \in DOMAIN Old.lines /\ new.lines[i] = Old.lines[i]
      BY <1>3, <3>1
    <3> QED BY <3>2
  <2> QED BY <1>2, <2>1, <2>2, <2>3
<1> HIDE DEF new
<1>5. /\ DOMAIN files' = DOMAIN files \cup {path}
      /\ files'[path] = new
      /\ \A n \in DOMAIN files : n # path => files'[n] = files[n]
  BY <1>1 DEF With, new
<1>6. CaptureTypeOK'
  <2>1. unpruned' \in 0 .. MaxRecords
    BY <1>1, CaptureAssumption DEF CaptureInv, CaptureTypeOK, Counted, Done
  <2> QED BY <1>1, <1>2, <1>5, <2>1 DEF CaptureInv, CaptureTypeOK
<1>7. Counted'
  <2>1. Done' = Len(calls) /\ Done = Len(calls) - 1 /\ Len(calls) \in Nat
    BY <1>1 DEF Done, CaptureInv, CaptureTypeOK
  <2>2. unpruned' <= Done' BY <1>1, <2>1 DEF CaptureInv, CaptureTypeOK, Counted
  <2>3. \A n \in DOMAIN files' : n.day <= path.day /\ n.stamp <= rotated
    BY <1>5, CaptureAssumption DEF CaptureInv, CaptureTypeOK, Counted, Names, NoStamp
  <2>4. \A n \in DOMAIN files : files[n].mtime \in Nat /\ files[n].mtime <= Done
    <3>1. \A n \in DOMAIN files : files[n].mtime \in Ids BY DEF CaptureInv, CaptureTypeOK, File
    <3> QED BY <3>1, CaptureAssumption DEF CaptureInv, Counted, Ids
  <2>5. \A n \in DOMAIN files' : files'[n].mtime <= Done' BY <1>2, <1>5, <2>1, <2>4
  <2> QED BY <1>1, <2>2, <2>3, <2>5 DEF CaptureInv, Counted
<1>8. ASSUME NEW m \in DOMAIN files, m # path
      PROVE  files'[m].mtime < files'[path].mtime /\ Earlier(m, path)'
  <2>1. files[m].mtime < new.mtime
    <3>1. files[m].mtime \in Ids BY DEF CaptureInv, CaptureTypeOK, File
    <3> QED BY <1>1, <1>2, <3>1, CaptureAssumption DEF CaptureInv, CaptureTypeOK, Counted, Ids, Done
  <2>2. /\ m.stamp = NoStamp => m.day < path.day
        /\ \A i \in DOMAIN files[m].lines :
              /\ files[m].lines[i] < Len(calls)
              /\ \A j \in DOMAIN Old.lines : files[m].lines[i] < Old.lines[j]
    BY <1>1, <1>8, OthersAreEarlier
  <2>3. \A i \in DOMAIN files[m].lines, j \in DOMAIN new.lines : files[m].lines[i] < new.lines[j]
    BY <1>4, <2>2
  <2>4. files'[m] = files[m] /\ files'[path] = new /\ path' = path BY <1>1, <1>5, <1>8
  <2> QED BY <2>1, <2>2, <2>3, <2>4 DEF Earlier
<1>9. InOrder'
  <2>1. \A n \in DOMAIN files' : FileInOrder(files'[n]) BY <1>2, <1>5 DEF CaptureInv, InOrder
  <2>2. ASSUME NEW n \in DOMAIN files', NEW m \in DOMAIN files', n # m
        PROVE  /\ files'[n].mtime # files'[m].mtime
               /\ files'[n].mtime < files'[m].mtime => Earlier(n, m)'
    <3>1. \A k \in DOMAIN files' : files'[k].mtime \in Nat
      <4>1. \A k \in DOMAIN files' : files'[k].mtime \in Ids BY <1>6 DEF CaptureTypeOK, File
      <4> QED BY <4>1, CaptureAssumption DEF Ids
    <3>2. CASE n # path /\ m # path
      BY <1>5, <2>2, <3>2 DEF CaptureInv, InOrder, Earlier
    <3>3. CASE n = path BY <1>5, <1>8, <2>2, <3>1, <3>3
    <3>4. CASE m = path BY <1>1, <1>5, <1>8, <2>2, <3>1, <3>4
    <3> QED BY <3>2, <3>3, <3>4
  <2> QED BY <2>1, <2>2 DEF InOrder
<1> QED BY <1>6, <1>7, <1>9 DEF CaptureInv

\* A rename moves a file to a name that nobody writes.
LEMMA RotateKeepsInv ==
  ASSUME CaptureInv, Rotate
  PROVE  CaptureInv'
<1> DEFINE new == Name(path.day, now)
<1>1. step = "rotate" /\ UNCHANGED <<enabled, now, path, calls, unpruned>> BY DEF Rotate
<1>2. Len(calls) \in Nat /\ Done' = Done
  <2>1. step' # "idle" BY DEF Rotate
  <2> QED BY <1>1, <2>1 DEF CaptureInv, CaptureTypeOK, Done
<1>3. CASE UNCHANGED <<files, rotated, overlap>>
  <2>1. step' = "write" \/ step' = "prune" BY DEF Rotate
  <2> QED BY <1>1, <1>2, <1>3, <2>1 DEF CaptureInv, CaptureTypeOK, Counted, InOrder, Earlier
<1>4. CASE path \in DOMAIN files /\ files[path].size > FileMax
  <2>1. /\ files' = With(Without(files, path), new, files[path])
        /\ rotated' = now /\ overlap' = (overlap \/ rotated = now) /\ step' = "prune"
    BY <1>4 DEF Rotate
  <2>2. /\ path \in Names /\ path.stamp = 0 /\ now \in 1 .. MaxTime /\ rotated \in 0 .. now
    BY DEF CaptureInv, CaptureTypeOK, NoStamp
  <2>3. /\ new \in Names /\ new.day = path.day /\ new.stamp = now /\ new # path /\ new.stamp # 0
    BY <2>2, CaptureAssumption DEF Name, Names
  <2> HIDE DEF new
  <2> DEFINE was(n) == IF n = new THEN path ELSE n
  <2>4. /\ DOMAIN files' = (DOMAIN files \ {path}) \cup {new}
        /\ \A n \in DOMAIN files' : was(n) \in DOMAIN files /\ files'[n] = files[was(n)]
    BY <1>4, <2>1 DEF With, Without
  <2>5. CaptureTypeOK'
    <3>1. DOMAIN files' \subseteq Names BY <2>3, <2>4 DEF CaptureInv, CaptureTypeOK
    <3>2. \A n \in DOMAIN files' :
             /\ files'[n] \in File /\ Len(files'[n].lines) <= files'[n].size
             /\ files'[n].last = "cut" => files'[n].lines # <<>>
      BY <2>4 DEF CaptureInv, CaptureTypeOK
    <3>3. rotated' \in 0 .. now' /\ overlap' \in BOOLEAN
      BY <1>1, <2>1, <2>2 DEF CaptureInv, CaptureTypeOK
    <3> QED BY <1>1, <2>1, <3>1, <3>2, <3>3 DEF CaptureInv, CaptureTypeOK
  <2>6. Counted'
    <3>1. \A n \in DOMAIN files' : n.day <= path.day /\ n.stamp <= now /\ files'[n].mtime <= Done
      <4> TAKE n \in DOMAIN files'
      <4>1. files'[n].mtime <= Done /\ was(n).day <= path.day
        BY <2>4 DEF CaptureInv, Counted
      <4>2. n.day <= path.day BY <2>3, <4>1
      <4>3. n.stamp <= now
        <5>1. CASE n = new BY <2>2, <2>3, <5>1
        <5>2. CASE n # new
          <6>1. n \in DOMAIN files BY <2>4, <5>2
          <6>2. n.stamp <= rotated /\ n.stamp \in Nat
            BY <6>1, CaptureAssumption DEF CaptureInv, CaptureTypeOK, Counted, Names
          <6> QED BY <2>2, <6>2
        <5> QED BY <5>1, <5>2
      <4> QED BY <4>1, <4>2, <4>3
    <3> QED BY <1>1, <1>2, <2>1, <3>1 DEF CaptureInv, Counted
  <2>7. InOrder'
    <3>1. \A n \in DOMAIN files' : FileInOrder(files'[n]) BY <2>4 DEF CaptureInv, InOrder
    <3>2. ASSUME NEW n \in DOMAIN files', NEW m \in DOMAIN files', n # m
          PROVE  /\ files'[n].mtime # files'[m].mtime
                 /\ files'[n].mtime < files'[m].mtime => Earlier(n, m)'
      <4>1. was(n) # was(m) BY <2>4, <3>2
      <4>2. /\ was(n) \in DOMAIN files /\ was(m) \in DOMAIN files
            /\ files'[n] = files[was(n)] /\ files'[m] = files[was(m)]
        BY <2>4
      <4>3. /\ files[was(n)].mtime # files[was(m)].mtime
            /\ files[was(n)].mtime < files[was(m)].mtime => Earlier(was(n), was(m))
        BY <4>1, <4>2 DEF CaptureInv, InOrder
      <4>4. was(m).day = m.day /\ (n.stamp = NoStamp => was(n) = n) BY <2>3 DEF NoStamp
      <4> HIDE DEF was
      <4> QED BY <4>2, <4>3, <4>4 DEF Earlier
    <3> QED BY <3>1, <3>2 DEF InOrder
  <2> QED BY <2>5, <2>6, <2>7 DEF CaptureInv
<1> QED BY <1>3, <1>4 DEF Rotate

\* Fewer files are in order as well.
LEMMA FewerKeepInv ==
  ASSUME CaptureInv, NEW gone, files' = Without(files, gone), step # "idle", step' = step,
         UNCHANGED <<enabled, now, path, calls, rotated, overlap, unpruned>>
  PROVE  CaptureInv'
<1>1. DOMAIN files' \subseteq DOMAIN files /\ \A n \in DOMAIN files' : files'[n] = files[n]
  BY DEF Without
<1>2. CaptureTypeOK' BY <1>1 DEF CaptureInv, CaptureTypeOK
<1>3. Counted' BY <1>1 DEF CaptureInv, Counted, Done
<1>4. InOrder' BY <1>1 DEF CaptureInv, InOrder, Earlier
<1> QED BY <1>2, <1>3, <1>4 DEF CaptureInv

\* The day of a name is one on the clock, and the clock goes on.
LEMMA DaysGoOn ==
  ASSUME NEW t \in Nat, NEW d \in Nat \ {0}
  PROVE  t \div d \in Nat /\ t \div d <= t /\ t \div d <= (t + 1) \div d
OBVIOUS

\* Every step keeps the types, the counts and the order.
LEMMA CaptureStep ==
  ASSUME CaptureInv, [CaptureNext]_captureVars
  PROVE  CaptureInv'
<1>1. ASSUME NEW call \in Calls, Respond(call) PROVE CaptureInv'
  <2>1. /\ step = "idle" /\ step' = "rotate" /\ Len(calls) < MaxRecords
        /\ calls' = Append(calls, call) /\ path' = Name(now \div DayLength, NoStamp)
        /\ UNCHANGED <<enabled, now, files, rotated, overlap, unpruned>>
    BY <1>1 DEF Respond
  <2>2. call \in Recorded BY <1>1, CaptureAssumption DEF Respond, Learns, Recorded, Exchanges
  <2>3. calls \in Seq(Recorded) /\ MaxRecords \in Nat BY CaptureAssumption DEF CaptureInv, CaptureTypeOK
  <2>4. calls' \in Seq(Recorded) /\ Len(calls') = Len(calls) + 1 /\ Len(calls) \in Nat
        /\ Len(calls') <= MaxRecords
    BY <2>1, <2>2, <2>3
  <2>5. now \in 1 .. MaxTime /\ now \in Nat /\ MaxTime \in Nat
    BY CaptureAssumption DEF CaptureInv, CaptureTypeOK
  <2>6. now \div DayLength \in Nat /\ now \div DayLength <= now BY <2>5, DaysGoOn, CaptureAssumption
  <2>7. /\ path' \in Names /\ path'.stamp = NoStamp /\ path'.day = now \div DayLength
        /\ path.day \in Nat /\ path.day <= path'.day
    BY <2>1, <2>5, <2>6 DEF Name, Names, NoStamp, CaptureInv, CaptureTypeOK, Counted
  <2>8. Done' = Done BY <2>1, <2>4 DEF Done
  <2>9. CaptureTypeOK' BY <2>1, <2>4, <2>7 DEF CaptureInv, CaptureTypeOK
  <2>10. Counted'
    <3>1. \A n \in DOMAIN files : n.day \in Nat /\ n.day <= path.day
      BY CaptureAssumption DEF CaptureInv, CaptureTypeOK, Counted, Names
    <3>2. \A n \in DOMAIN files : n.day <= path'.day BY <2>6, <2>7, <3>1
    <3>3. path'.day <= now' \div DayLength BY <2>1, <2>6, <2>7
    <3>4. Len(calls') > 0 /\ unpruned' <= Done' BY <2>1, <2>4, <2>8 DEF CaptureInv, Counted
    <3> QED BY <2>1, <2>8, <3>2, <3>3, <3>4 DEF CaptureInv, Counted
  <2>11. InOrder' BY <2>1 DEF CaptureInv, InOrder, Earlier
  <2> QED BY <2>9, <2>10, <2>11 DEF CaptureInv
<1>2. CASE Rotate BY <1>2, RotateKeepsInv
<1>3. CASE Prune
  <2>1. CASE Total(files) > TotalMax BY <1>3, <2>1, FewerKeepInv DEF Prune
  <2>2. CASE ~(Total(files) > TotalMax)
    <3>1. /\ step = "prune" /\ step' = "write" /\ unpruned' = 0
          /\ UNCHANGED <<enabled, now, files, path, calls, rotated, overlap>>
      BY <1>3, <2>2 DEF Prune
    <3>2. Done' = Done /\ Done \in Nat BY <3>1 DEF Done, CaptureInv, CaptureTypeOK, Counted
    <3> QED BY <3>1, <3>2, CaptureAssumption DEF CaptureInv, CaptureTypeOK, Counted, InOrder, Earlier
  <2> QED BY <2>1, <2>2
<1>4. CASE PruneFails
  BY <1>4 DEF PruneFails, CaptureInv, CaptureTypeOK, Counted, InOrder, Earlier, Done
<1>5. ASSUME step' = "idle", enabled' \in BOOLEAN,
             UNCHANGED <<now, files, path, calls, rotated, overlap, unpruned>>
      PROVE  CaptureInv'
  <2>1. /\ Done' = Len(calls) /\ Len(calls) \in Nat /\ Done <= Done'
        /\ unpruned \in Nat /\ Done \in Nat
    BY <1>5 DEF Done, CaptureInv, CaptureTypeOK, Counted
  <2>2. \A n \in DOMAIN files : files[n].mtime \in Nat
    <3>1. \A n \in DOMAIN files : files[n].mtime \in Ids BY DEF CaptureInv, CaptureTypeOK, File
    <3> QED BY <3>1, CaptureAssumption DEF Ids
  <2>3. Counted' BY <1>5, <2>1, <2>2 DEF CaptureInv, Counted
  <2>4. CaptureTypeOK' BY <1>5 DEF CaptureInv, CaptureTypeOK
  <2>5. InOrder' BY <1>5 DEF CaptureInv, InOrder, Earlier
  <2> QED BY <2>3, <2>4, <2>5 DEF CaptureInv
<1>6. CASE AppendFails BY <1>5, <1>6 DEF AppendFails, CaptureInv, CaptureTypeOK
<1>7. ASSUME NEW outcome \in {"whole", "cut", "torn"}, Write(outcome) PROVE CaptureInv'
  BY <1>7, WriteKeepsInv
<1>8. ASSUME NEW usable \in BOOLEAN, Restart(usable) PROVE CaptureInv' BY <1>5, <1>8 DEF Restart
<1>9. CASE Tick
  <2>1. /\ now < MaxTime /\ now' = now + 1
        /\ UNCHANGED <<enabled, files, step, path, calls, rotated, overlap, unpruned>>
    BY <1>9 DEF Tick
  <2>2. now \in Nat /\ now' \in 1 .. MaxTime /\ rotated' \in 0 .. now' /\ path.day \in Nat
    BY <2>1, CaptureAssumption DEF CaptureInv, CaptureTypeOK, Names
  <2>3. path.day <= now' \div DayLength
    <3>1. /\ now \div DayLength \in Nat /\ now' \div DayLength \in Nat
          /\ now \div DayLength <= now' \div DayLength
      BY <2>1, <2>2, DaysGoOn, CaptureAssumption
    <3> QED BY <2>2, <3>1 DEF CaptureInv, Counted
  <2>4. Done' = Done BY <2>1 DEF Done
  <2> QED BY <2>1, <2>2, <2>3, <2>4 DEF CaptureInv, CaptureTypeOK, Counted, InOrder, Earlier
<1>10. CASE UNCHANGED captureVars
  BY <1>10 DEF captureVars, CaptureInv, CaptureTypeOK, Counted, InOrder, Earlier, Done
<1> QED BY <1>1, <1>2, <1>3, <1>4, <1>6, <1>7, <1>8, <1>9, <1>10, Zenon DEF CaptureNext

\* The capture starts with no files.
LEMMA CaptureStart == CaptureInit => CaptureInv
<1> SUFFICES ASSUME CaptureInit PROVE CaptureInv OBVIOUS
<1>1. /\ enabled \in BOOLEAN /\ now = 1 /\ files = <<>> /\ step = "idle"
      /\ path = Name(0, NoStamp) /\ calls = <<>> /\ rotated = 0 /\ overlap = FALSE /\ unpruned = 0
  BY DEF CaptureInit
<1>2. DOMAIN files = {} /\ Len(calls) = 0 BY <1>1
<1>3. Name(0, NoStamp) \in Names /\ Name(0, NoStamp).stamp = NoStamp /\ Name(0, NoStamp).day = 0
  BY CaptureAssumption DEF Name, Names, NoStamp
<1>4. 0 <= now \div DayLength
  <2>1. now \div DayLength \in Nat BY <1>1, DaysGoOn, CaptureAssumption
  <2> QED BY <2>1
<1>5. CaptureTypeOK
  <2>1. now \in 1 .. MaxTime /\ rotated \in 0 .. now /\ unpruned \in 0 .. MaxRecords
    BY <1>1, CaptureAssumption
  <2>2. calls \in Seq(Recorded) /\ Len(calls) <= MaxRecords BY <1>1, <1>2, CaptureAssumption
  <2> QED BY <1>1, <1>2, <1>3, <2>1, <2>2 DEF CaptureTypeOK
<1>6. Counted BY <1>1, <1>2, <1>3, <1>4 DEF Counted, Done
<1>7. InOrder BY <1>2 DEF InOrder
<1> QED BY <1>5, <1>6, <1>7 DEF CaptureInv

\* CaptureTypeOK holds for any limits, any days and any number of records.
THEOREM CaptureTypes == CaptureSpec => []CaptureTypeOK
<1>1. CaptureInv => CaptureTypeOK BY DEF CaptureInv
<1> QED BY <1>1, CaptureStart, CaptureStep, PTL DEF CaptureSpec

-----------------------------------------------------------------------------
(* The budget.                                                             *)

\* The directory takes finite space, and more than the budget only by what was
\* written since the last prune.
SpaceInv == IsFiniteSet(Space(files)) /\ BudgetHolds

\* What the space is made of.
LEMMA PlaceInSpace ==
  ASSUME NEW dir, NEW p
  PROVE  p \in Space(dir) <=>
            \E n \in DOMAIN dir : \E k \in 1 .. dir[n].size : p = <<n, k>>
BY DEF Space

\* A rename takes no space.
LEMMA RotateKeepsSpace ==
  ASSUME CaptureInv, SpaceInv, Rotate
  PROVE  SpaceInv'
<1> DEFINE new == Name(path.day, now)
<1>1. unpruned' = unpruned BY DEF Rotate
<1>2. CASE files' = files BY <1>1, <1>2 DEF SpaceInv, BudgetHolds, Total
<1>3. CASE path \in DOMAIN files /\ files[path].size > FileMax
  <2>1. files' = With(Without(files, path), new, files[path]) BY <1>3 DEF Rotate
  <2>2. new # path
    BY DEF Name, CaptureInv, CaptureTypeOK, NoStamp, Names
  <2> HIDE DEF new
  <2> DEFINE was(n) == IF n = new THEN path ELSE n
             S == Space(files')
             T == Space(files)
             f == [p \in S |-> <<was(p[1]), p[2]>>]
  <2>3. /\ DOMAIN files' = (DOMAIN files \ {path}) \cup {new}
        /\ \A n \in DOMAIN files' : was(n) \in DOMAIN files /\ files'[n] = files[was(n)]
    BY <1>3, <2>1 DEF With, Without
  <2>4. \A n, m \in DOMAIN files' : was(n) = was(m) => n = m BY <2>3
  <2>5. \A p \in S : \E n \in DOMAIN files' : \E k \in 1 .. files'[n].size : p = <<n, k>>
    BY PlaceInSpace
  <2>6. \A p \in S : f[p] \in T
    <3> TAKE p \in S
    <3>0. PICK n \in DOMAIN files' : \E k \in 1 .. files'[n].size : p = <<n, k>> BY <2>5
    <3>1. PICK k \in 1 .. files'[n].size : p = <<n, k>> BY <3>0
    <3>2. was(n) \in DOMAIN files /\ k \in 1 .. files[was(n)].size BY <2>3, <3>1
    <3>3. <<was(n), k>> \in T BY <3>2, PlaceInSpace
    <3>4. f[p] = <<was(n), k>> BY <3>1
    <3> QED BY <3>3, <3>4
  <2>7. f \in [S -> T] BY <2>6
  <2>8. ASSUME NEW p \in S, NEW q \in S, f[p] = f[q] PROVE p = q
    <3>1. PICK n \in DOMAIN files' : \E k \in 1 .. files'[n].size : p = <<n, k>> BY <2>5
    <3>2. PICK m \in DOMAIN files' : \E k \in 1 .. files'[m].size : q = <<m, k>> BY <2>5
    <3>3. /\ p = <<n, p[2]>> /\ q = <<m, q[2]>>
          /\ f[p] = <<was(n), p[2]>> /\ f[q] = <<was(m), q[2]>>
      BY <3>1, <3>2
    <3>4. <<was(n), p[2]>> = <<was(m), q[2]>>
      <4> HIDE DEF f, was
      <4> QED BY <2>8, <3>3
    <3>5. was(n) = was(m) /\ p[2] = q[2]
      <4> HIDE DEF was
      <4> QED BY <3>4
    <3> QED BY <2>4, <3>3, <3>5
  <2>9. f \in Injection(S, T)
    <3> HIDE DEF f, S, T
    <3> QED BY <2>7, <2>8 DEF Injection, IsInjective
  <2>10. IsFiniteSet(S) /\ Cardinality(S) <= Cardinality(T)
    <3> HIDE DEF f, S, T
    <3>1. IsFiniteSet(T) BY DEF SpaceInv, T
    <3> QED BY <2>9, <3>1, FS_Injection
  <2>11. Cardinality(S) \in Nat /\ Cardinality(T) \in Nat
    BY <2>10, FS_CardinalityType DEF SpaceInv
  <2>12. TotalMax \in Nat /\ unpruned \in Nat BY CaptureAssumption DEF CaptureInv, CaptureTypeOK
  <2> QED BY <1>1, <2>10, <2>11, <2>12 DEF SpaceInv, BudgetHolds, Total
<1> QED BY <1>2, <1>3 DEF Rotate

\* A record takes one place.
LEMMA WriteKeepsSpace ==
  ASSUME CaptureInv, SpaceInv, NEW outcome \in {"whole", "cut", "torn"}, Write(outcome)
  PROVE  SpaceInv'
<1> DEFINE new == New(outcome)
           place == <<path, Old.size + 1>>
<1>1. /\ files' = With(files, path, new) /\ unpruned' = unpruned + 1 /\ step = "write"
  BY WriteMakesNew
<1>2. new.size = Old.size + 1 /\ Old.size \in Nat
  BY <1>1, NewFile, OldFile DEF File
<1>3. path \in DOMAIN files => Old = files[path] BY DEF Old
<1>4. path \notin DOMAIN files => Old.size = 0 BY DEF Old
<1> HIDE DEF new
<1>5. /\ DOMAIN files' = DOMAIN files \cup {path} /\ files'[path] = new
      /\ \A n \in DOMAIN files : n # path => files'[n] = files[n]
  BY <1>1 DEF With
<1>6. Space(files') \subseteq Space(files) \cup {place}
  <2> SUFFICES ASSUME NEW n \in DOMAIN files', NEW k \in 1 .. files'[n].size
               PROVE  <<n, k>> \in Space(files) \cup {place}
    BY PlaceInSpace
  <2>1. CASE n # path
    <3>1. n \in DOMAIN files /\ k \in 1 .. files[n].size BY <1>5, <2>1
    <3> QED BY <3>1, PlaceInSpace
  <2>2. CASE n = path /\ k = Old.size + 1 BY <2>2
  <2>3. CASE n = path /\ k # Old.size + 1
    <3>1. k \in 1 .. Old.size BY <1>2, <1>5, <2>3
    <3>2. path \in DOMAIN files BY <1>4, <3>1
    <3> QED BY <1>3, <2>3, <3>1, <3>2, PlaceInSpace
  <2> QED BY <2>1, <2>2, <2>3
<1> HIDE DEF place
<1>7. /\ IsFiniteSet(Space(files) \cup {place}) /\ Cardinality(Space(files)) \in Nat
      /\ Cardinality(Space(files) \cup {place}) <= Cardinality(Space(files)) + 1
      /\ Cardinality(Space(files) \cup {place}) \in Nat
  <2>1. IsFiniteSet(Space(files)) BY DEF SpaceInv
  <2>2. IsFiniteSet(Space(files) \cup {place})
        /\ Cardinality(Space(files) \cup {place}) =
              IF place \in Space(files) THEN Cardinality(Space(files)) ELSE Cardinality(Space(files)) + 1
    BY <2>1, FS_AddElement
  <2>3. Cardinality(Space(files)) \in Nat BY <2>1, FS_CardinalityType
  <2> QED BY <2>2, <2>3
<1>8. /\ IsFiniteSet(Space(files'))
      /\ Cardinality(Space(files')) <= Cardinality(Space(files) \cup {place})
      /\ Cardinality(Space(files')) \in Nat
  BY <1>6, <1>7, FS_Subset, FS_CardinalityType
<1>9. TotalMax \in Nat /\ unpruned \in Nat BY CaptureAssumption DEF CaptureInv, CaptureTypeOK
<1> QED BY <1>1, <1>7, <1>8, <1>9 DEF SpaceInv, BudgetHolds, Total

\* A pruned file takes none any more, and pruning goes on until the rest fits.
LEMMA PruneKeepsSpace ==
  ASSUME CaptureInv, SpaceInv, Prune
  PROVE  SpaceInv'
<1>1. CASE Total(files) > TotalMax
  <2>1. files' = Without(files, Oldest) /\ unpruned' = unpruned BY <1>1 DEF Prune
  <2>2. DOMAIN files' \subseteq DOMAIN files /\ \A n \in DOMAIN files' : files'[n] = files[n]
    BY <2>1 DEF Without
  <2>3. Space(files') \subseteq Space(files) BY <2>2, PlaceInSpace
  <2>4. /\ IsFiniteSet(Space(files')) /\ Cardinality(Space(files')) <= Cardinality(Space(files))
        /\ Cardinality(Space(files')) \in Nat /\ Cardinality(Space(files)) \in Nat
    BY <2>3, FS_Subset, FS_CardinalityType DEF SpaceInv
  <2>5. TotalMax \in Nat /\ unpruned \in Nat BY CaptureAssumption DEF CaptureInv, CaptureTypeOK
  <2> QED BY <2>1, <2>4, <2>5 DEF SpaceInv, BudgetHolds, Total
<1>2. CASE ~(Total(files) > TotalMax)
  <2>1. files' = files /\ unpruned' = 0 BY <1>2 DEF Prune
  <2>2. Total(files) \in Nat /\ TotalMax \in Nat
    BY FS_CardinalityType, CaptureAssumption DEF SpaceInv, Total
  <2> QED BY <1>2, <2>1, <2>2 DEF SpaceInv, BudgetHolds, Total
<1> QED BY <1>1, <1>2

\* An empty directory takes no space.
LEMMA SpaceStart == CaptureInit => SpaceInv
<1> SUFFICES ASSUME CaptureInit PROVE SpaceInv OBVIOUS
<1>1. DOMAIN files = {} /\ unpruned = 0 BY DEF CaptureInit
<1>2. Space(files) = {} BY <1>1, PlaceInSpace
<1> QED BY <1>1, <1>2, FS_EmptySet, CaptureAssumption DEF SpaceInv, BudgetHolds, Total

\* Every step keeps the directory that close to its budget.
LEMMA SpaceStep == CaptureInv /\ SpaceInv /\ [CaptureNext]_captureVars => SpaceInv'
<1> SUFFICES ASSUME CaptureInv, SpaceInv, [CaptureNext]_captureVars PROVE SpaceInv' OBVIOUS
<1>1. ASSUME UNCHANGED <<files, unpruned>> PROVE SpaceInv'
  BY <1>1 DEF SpaceInv, BudgetHolds, Total
<1>2. ASSUME NEW call \in Calls, Respond(call) PROVE SpaceInv' BY <1>1, <1>2 DEF Respond
<1>3. CASE Rotate BY <1>3, RotateKeepsSpace
<1>4. CASE Prune BY <1>4, PruneKeepsSpace
<1>5. CASE PruneFails BY <1>1, <1>5 DEF PruneFails
<1>6. CASE AppendFails BY <1>1, <1>6 DEF AppendFails
<1>7. ASSUME NEW outcome \in {"whole", "cut", "torn"}, Write(outcome) PROVE SpaceInv'
  BY <1>7, WriteKeepsSpace
<1>8. ASSUME NEW usable \in BOOLEAN, Restart(usable) PROVE SpaceInv' BY <1>1, <1>8 DEF Restart
<1>9. CASE Tick BY <1>1, <1>9 DEF Tick
<1>10. CASE UNCHANGED captureVars BY <1>1, <1>10 DEF captureVars
<1> QED BY <1>2, <1>3, <1>4, <1>5, <1>6, <1>7, <1>8, <1>9, <1>10, Zenon DEF CaptureNext

\* However much has piled up, through failed renames, prunes and restarts: the
\* directory is over its budget by what was written since the last prune at most.
THEOREM BudgetKept == CaptureSpec => []BudgetHolds
<1>1. SpaceInv => BudgetHolds BY DEF SpaceInv
<1> QED BY <1>1, CaptureStart, CaptureStep, SpaceStart, SpaceStep, PTL DEF CaptureSpec

-----------------------------------------------------------------------------
(* The oldest file goes first.                                             *)

\* A record that can be read stands in a file.
LEMMA InFile ==
  ASSUME NEW a
  PROVE  a \in Captured <=>
            \E n \in DOMAIN files : \E i \in DOMAIN files[n].lines : a = files[n].lines[i]
BY DEF Captured, Range

\* Records are numbers up to the one that was written last.
LEMMA RecordsAreCounted ==
  ASSUME CaptureInv
  PROVE  /\ Done \in Nat /\ Len(calls) \in Nat
         /\ \A a \in Captured : a \in Nat /\ a <= Done
<1>1. Done \in Nat /\ Len(calls) \in Nat
  BY DEF CaptureInv, CaptureTypeOK, Counted, Done
<1>2. ASSUME NEW n \in DOMAIN files, NEW i \in DOMAIN files[n].lines
      PROVE  files[n].lines[i] \in Nat /\ files[n].lines[i] <= Done
  <2>1. files[n].lines[i] \in Ids /\ files[n].mtime \in Ids
    BY DEF CaptureInv, CaptureTypeOK, File
  <2>2. files[n].lines[i] <= files[n].mtime /\ files[n].mtime <= Done
    BY DEF CaptureInv, InOrder, FileInOrder, Counted
  <2> QED BY <1>1, <2>1, <2>2, CaptureAssumption DEF Ids
<1> QED BY <1>1, <1>2, InFile

\* Of two files one has the earlier records.
LEMMA FilesAreOrdered ==
  ASSUME CaptureInv, NEW n \in DOMAIN files, NEW m \in DOMAIN files, n # m
  PROVE  \/ files[n].mtime < files[m].mtime /\ Earlier(n, m)
         \/ files[m].mtime < files[n].mtime /\ Earlier(m, n)
<1>1. files[n].mtime \in Nat /\ files[m].mtime \in Nat
  <2>1. files[n].mtime \in Ids /\ files[m].mtime \in Ids BY DEF CaptureInv, CaptureTypeOK, File
  <2> QED BY <2>1, CaptureAssumption DEF Ids
<1> QED BY <1>1 DEF CaptureInv, InOrder

\* The numbers of records that were read one before the other.
Ordered(S) == {p \in S \X S : p[1] < p[2]}

\* The order of the records that can be read is that of their numbers.
OrderIsLess == CapturedBefore = Ordered(Captured)

\* The order of the records that can be read is that of their numbers.
LEMMA BeforeIsLess == CaptureInv => OrderIsLess
<1> SUFFICES ASSUME CaptureInv PROVE CapturedBefore = Ordered(Captured) BY DEF OrderIsLess
<1>1. ASSUME NEW n \in DOMAIN files, NEW m \in DOMAIN files,
             NEW i \in DOMAIN files[n].lines, NEW j \in DOMAIN files[m].lines
      PROVE  (IF n = m THEN i < j ELSE files[n].mtime <= files[m].mtime)
                <=> files[n].lines[i] < files[m].lines[j]
  <2>1. files[n].lines[i] \in Nat /\ files[m].lines[j] \in Nat
    BY RecordsAreCounted, InFile
  <2>2. CASE n = m
    <3>1. Increasing(files[n].lines) BY DEF CaptureInv, InOrder, FileInOrder
    <3>2. i \in Nat /\ j \in Nat
      <4>1. files[n].lines \in Seq(Ids) BY DEF CaptureInv, CaptureTypeOK, File
      <4> QED BY <2>2, <4>1
    <3>3. i < j => files[n].lines[i] < files[n].lines[j] BY <2>2, <3>1 DEF Increasing
    <3>4. j < i => files[n].lines[j] < files[n].lines[i] BY <2>2, <3>1 DEF Increasing
    <3>5. i < j \/ j < i \/ i = j BY <3>2
    <3> QED BY <2>1, <2>2, <3>2, <3>3, <3>4, <3>5
  <2>3. CASE n # m
    <3>1. files[n].mtime \in Nat /\ files[m].mtime \in Nat
      <4>1. files[n].mtime \in Ids /\ files[m].mtime \in Ids BY DEF CaptureInv, CaptureTypeOK, File
      <4> QED BY <4>1, CaptureAssumption DEF Ids
    <3>2. CASE files[n].mtime < files[m].mtime /\ Earlier(n, m)
      <4>1. files[n].lines[i] < files[m].lines[j] BY <3>2 DEF Earlier
      <4> QED BY <2>3, <3>1, <3>2, <4>1
    <3>3. CASE files[m].mtime < files[n].mtime /\ Earlier(m, n)
      <4>1. files[m].lines[j] < files[n].lines[i] BY <3>3 DEF Earlier
      <4> QED BY <2>1, <2>3, <3>1, <3>3, <4>1
    <3> QED BY <2>3, <3>2, <3>3, FilesAreOrdered
  <2> QED BY <2>2, <2>3
<1>2. ASSUME NEW p \in Captured \X Captured
      PROVE  (\E n, m \in DOMAIN files :
                \E i \in DOMAIN files[n].lines, j \in DOMAIN files[m].lines :
                  /\ p = <<files[n].lines[i], files[m].lines[j]>>
                  /\ IF n = m THEN i < j ELSE files[n].mtime <= files[m].mtime)
             <=> p[1] < p[2]
  <2>1. PICK n \in DOMAIN files : \E i \in DOMAIN files[n].lines : p[1] = files[n].lines[i]
    BY InFile
  <2>2. PICK i \in DOMAIN files[n].lines : p[1] = files[n].lines[i] BY <2>1
  <2>3. PICK m \in DOMAIN files : \E j \in DOMAIN files[m].lines : p[2] = files[m].lines[j]
    BY InFile
  <2>4. PICK j \in DOMAIN files[m].lines : p[2] = files[m].lines[j] BY <2>3
  <2>5. p = <<files[n].lines[i], files[m].lines[j]>> BY <2>2, <2>4
  <2>6. ASSUME p[1] < p[2]
        PROVE  IF n = m THEN i < j ELSE files[n].mtime <= files[m].mtime
    BY <1>1, <2>2, <2>4, <2>6
  <2>7. ASSUME NEW k \in DOMAIN files, NEW l \in DOMAIN files,
               NEW x \in DOMAIN files[k].lines, NEW y \in DOMAIN files[l].lines,
               p = <<files[k].lines[x], files[l].lines[y]>>,
               IF k = l THEN x < y ELSE files[k].mtime <= files[l].mtime
        PROVE  p[1] < p[2]
    <3>1. files[k].lines[x] < files[l].lines[y] BY <1>1, <2>7
    <3>2. p[1] = files[k].lines[x] /\ p[2] = files[l].lines[y] BY <2>7
    <3> QED BY <3>1, <3>2
  <2> QED BY <2>5, <2>6, <2>7
<1> QED BY <1>2 DEF CapturedBefore, Ordered

\* A file that is there no more takes its records with it and no others: they stand
\* together in the order.
LEMMA FileIsLost ==
  ASSUME CaptureInv, CaptureInv', NEW f \in DOMAIN files,
         Captured' = Captured \ Range(files[f].lines),
         step # "idle", step' # "idle", UNCHANGED calls
  PROVE  Flywheel!Lose
<1> DEFINE gone == Captured \cap Range(files[f].lines)
<1>1. CapturedBefore = Ordered(Captured) BY BeforeIsLess DEF OrderIsLess
<1>2. OrderIsLess' BY BeforeIsLess, PTL
<1>3. Captured' = Captured \ gone OBVIOUS
<1>4. CapturedBefore' = CapturedBefore \cap (Captured' \X Captured')
  BY <1>1, <1>2, <1>3 DEF Ordered, OrderIsLess
<1>5. ASSUME NEW a \in gone, NEW c \in gone, NEW b \in Captured, a < b, b < c
      PROVE  b \in gone
  <2>1. PICK i \in DOMAIN files[f].lines : a = files[f].lines[i] BY DEF Range
  <2>2. PICK j \in DOMAIN files[f].lines : c = files[f].lines[j] BY DEF Range
  <2>3. PICK m \in DOMAIN files : \E k \in DOMAIN files[m].lines : b = files[m].lines[k] BY InFile
  <2>4. PICK k \in DOMAIN files[m].lines : b = files[m].lines[k] BY <2>3
  <2>5. a \in Nat /\ b \in Nat /\ c \in Nat BY RecordsAreCounted
  <2>6. CASE m = f BY <2>4, <2>6 DEF Range
  <2>7. CASE m # f
    <3>1. CASE Earlier(f, m)
      <4>1. c < b BY <2>2, <2>4, <3>1 DEF Earlier
      <4> QED BY <1>5, <2>5, <4>1
    <3>2. CASE Earlier(m, f)
      <4>1. b < a BY <2>1, <2>4, <3>2 DEF Earlier
      <4> QED BY <1>5, <2>5, <4>1
    <3> QED BY <2>7, <3>1, <3>2, FilesAreOrdered
  <2> QED BY <2>6, <2>7
<1>6. Flywheel!AreNeighbours(gone)
  <2> SUFFICES ASSUME NEW a \in gone, NEW c \in gone, NEW b \in Captured,
                      {<<a, b>>, <<b, c>>} \subseteq CapturedBefore
               PROVE  b \in gone
    BY DEF Flywheel!AreNeighbours
  <2>1. a < b /\ b < c BY <1>1 DEF Ordered
  <2> QED BY <1>5, <2>1
<1>7. gone \in SUBSET Captured OBVIOUS
<1> HIDE DEF gone
<1> QED BY <1>3, <1>4, <1>6, <1>7 DEF Flywheel!Lose, Flywheel!Keep

\* A directory that is over the budget has a file that was written before the others.
LEMMA OldestThere ==
  ASSUME CaptureInv, SpaceInv, Total(files) > TotalMax
  PROVE  /\ Oldest \in DOMAIN files
         /\ \A m \in DOMAIN files : files[Oldest].mtime <= files[m].mtime
<1> DEFINE Times == {files[n].mtime : n \in DOMAIN files}
<1>1. DOMAIN files # {}
  <2> SUFFICES ASSUME DOMAIN files = {} PROVE FALSE OBVIOUS
  <2>1. Space(files) = {} BY PlaceInSpace
  <2>2. Total(files) = 0 BY <2>1, FS_EmptySet DEF Total
  <2> QED BY <2>2, CaptureAssumption
<1>2. Times \in SUBSET Nat
  <2>1. \A n \in DOMAIN files : files[n].mtime \in Ids BY DEF CaptureInv, CaptureTypeOK, File
  <2> QED BY <2>1, CaptureAssumption DEF Ids
<1>3. PICK t \in Times : \A u \in Times : t <= u
  <2>1. Times # {} BY <1>1
  <2> HIDE DEF Times
  <2> QED BY <1>2, <2>1, Least
<1>4. \E n \in DOMAIN files : \A m \in DOMAIN files : files[n].mtime <= files[m].mtime BY <1>3
<1> QED BY <1>4 DEF Oldest

\* What a prune takes is the file that has the earliest records.
LEMMA PruneTakesOldest ==
  ASSUME CaptureInv, SpaceInv, Prune, Total(files) > TotalMax
  PROVE  /\ Oldest \in DOMAIN files
         /\ Captured' = Captured \ Range(files[Oldest].lines)
         /\ \A a \in Range(files[Oldest].lines), b \in Captured' : a < b
<1>1. /\ Oldest \in DOMAIN files
      /\ \A m \in DOMAIN files : files[Oldest].mtime <= files[m].mtime
  BY OldestThere
<1> DEFINE old == Oldest
<1>2. files' = Without(files, old) BY DEF Prune
<1> HIDE DEF old
<1>3. /\ DOMAIN files' = DOMAIN files \ {old}
      /\ \A n \in DOMAIN files' : files'[n] = files[n]
  BY <1>2 DEF Without
<1>4. ASSUME NEW m \in DOMAIN files, m # old, NEW a \in Range(files[old].lines),
             NEW j \in DOMAIN files[m].lines
      PROVE  a < files[m].lines[j]
  <2>1. PICK i \in DOMAIN files[old].lines : a = files[old].lines[i] BY DEF Range
  <2>2. files[old].mtime \in Nat /\ files[m].mtime \in Nat
    <3>1. files[old].mtime \in Ids /\ files[m].mtime \in Ids
      BY <1>1 DEF CaptureInv, CaptureTypeOK, File, old
    <3> QED BY <3>1, CaptureAssumption DEF Ids
  <2>3. files[old].mtime <= files[m].mtime BY <1>1 DEF old
  <2>4. Earlier(old, m) BY <1>1, <1>4, <2>2, <2>3, FilesAreOrdered DEF old
  <2> QED BY <2>1, <2>4 DEF Earlier
<1>5. ASSUME NEW b
      PROVE  b \in Captured' <=>
                \E n \in DOMAIN files \ {old} : \E j \in DOMAIN files[n].lines : b = files[n].lines[j]
  BY <1>3 DEF Captured, Range
<1>6. \A a \in Range(files[old].lines), b \in Captured' : a < b BY <1>4, <1>5
<1>7. ASSUME NEW b PROVE b \in Captured' <=> b \in Captured /\ b \notin Range(files[old].lines)
  <2>1. ASSUME b \in Captured' PROVE b \in Captured /\ b \notin Range(files[old].lines)
    <3>1. b \in Captured BY <1>5, <2>1, InFile
    <3>2. b \in Nat /\ ~ (b < b) BY <3>1, RecordsAreCounted
    <3> QED BY <1>6, <2>1, <3>1, <3>2
  <2>2. ASSUME b \in Captured, b \notin Range(files[old].lines) PROVE b \in Captured'
    <3>1. PICK n \in DOMAIN files : \E j \in DOMAIN files[n].lines : b = files[n].lines[j]
      BY <2>2, InFile
    <3>2. n # old BY <2>2, <3>1 DEF Range
    <3> QED BY <1>5, <3>1, <3>2
  <2> QED BY <2>1, <2>2
<1>8. Captured' = Captured \ Range(files[old].lines) BY <1>7
<1> QED BY <1>1, <1>6, <1>8 DEF old

\* The step that OldestGoFirst is about.
PrunesOldest == step = "prune" => \A a \in Captured \ Captured', b \in Captured' : a < b

\* Whatever files there are and whenever they were written: what a prune leaves is
\* newer than what it takes.
THEOREM OldestFirst == CaptureSpec => OldestGoFirst
<1>1. CaptureInv /\ SpaceInv /\ [CaptureNext]_captureVars => [PrunesOldest]_captureVars
  <2> SUFFICES ASSUME CaptureInv, SpaceInv, CaptureNext, step = "prune"
               PROVE  \A a \in Captured \ Captured', b \in Captured' : a < b
    BY DEF PrunesOldest
  <2>1. CASE Prune /\ Total(files) > TotalMax
    <3>1. /\ Captured' = Captured \ Range(files[Oldest].lines)
          /\ \A a \in Range(files[Oldest].lines), b \in Captured' : a < b
      BY <2>1, PruneTakesOldest
    <3>2. Captured \ Captured' \subseteq Range(files[Oldest].lines) BY <3>1
    <3> QED BY <3>1, <3>2
  <2>2. CASE files' = files
    <3>1. Captured' = Captured BY <2>2 DEF Captured
    <3> QED BY <3>1
  <2>3. files' = files \/ (Prune /\ Total(files) > TotalMax)
    BY DEF CaptureNext, Respond, Rotate, Prune, PruneFails, Write, AppendFails, Restart, Tick
  <2> QED BY <2>1, <2>2, <2>3
<1> QED BY <1>1, CaptureStart, CaptureStep, SpaceStart, SpaceStep, PTL
        DEF CaptureSpec, OldestGoFirst, PrunesOldest

-----------------------------------------------------------------------------
(* The files implement a log.                                              *)

\* The number of the next record, as the abstract log counts.
LEMMA NextRecord ==
  ASSUME CaptureInv
  PROVE  (IF step = "idle" THEN Len(calls) + 1 ELSE Len(calls)) = Done + 1
BY RecordsAreCounted DEF Done

\* A step that changes no file and ends no record changes nothing in the log.
LEMMA LogStays ==
  ASSUME CaptureInv, CaptureInv', files' = files, Done' = Done
  PROVE  UNCHANGED <<Captured, CapturedBefore, IF step = "idle" THEN Len(calls) + 1 ELSE Len(calls)>>
<1>1. Captured' = Captured /\ CapturedBefore' = CapturedBefore
  BY DEF Captured, CapturedBefore
<1>2. (IF step = "idle" THEN Len(calls) + 1 ELSE Len(calls)) = Done + 1 BY NextRecord
<1>3. ((IF step = "idle" THEN Len(calls) + 1 ELSE Len(calls)) = Done + 1)'
  BY RecordsAreCounted DEF Done, CaptureInv, CaptureTypeOK
<1> QED BY <1>1, <1>2, <1>3

\* A record that is given up is missed.
LEMMA GivenUp ==
  ASSUME CaptureInv, CaptureInv', files' = files, Done' = Done + 1
  PROVE  Flywheel!Miss
<1>1. Captured' = Captured /\ CapturedBefore' = CapturedBefore
  BY DEF Captured, CapturedBefore
<1>2. (IF step = "idle" THEN Len(calls) + 1 ELSE Len(calls)) = Done + 1 BY NextRecord
<1>3. ((IF step = "idle" THEN Len(calls) + 1 ELSE Len(calls)) = Done + 1)'
  BY RecordsAreCounted DEF Done, CaptureInv, CaptureTypeOK
<1>4. CapturedBefore = CapturedBefore \cap (Captured \X Captured) BY DEF CapturedBefore
<1>5. Flywheel!Keep(Captured) BY <1>1, <1>4 DEF Flywheel!Keep
<1>6. Done \in Nat BY RecordsAreCounted
<1> QED BY <1>2, <1>3, <1>5, <1>6 DEF Flywheel!Miss

\* A rotation replaces a file that has the name already, or takes nothing.
LEMMA RotateLoses ==
  ASSUME CaptureInv, CaptureInv', Rotate, path \in DOMAIN files, files[path].size > FileMax
  PROVE  \/ UNCHANGED Captured
         \/ \E f \in DOMAIN files : Captured' = Captured \ Range(files[f].lines)
<1> DEFINE new == Name(path.day, now)
<1>1. files' = With(Without(files, path), new, files[path]) BY DEF Rotate
<1>2. new # path
  BY DEF Name, CaptureInv, CaptureTypeOK, NoStamp, Names
<1> HIDE DEF new
<1>3. /\ DOMAIN files' = (DOMAIN files \ {path}) \cup {new}
      /\ files'[new] = files[path]
      /\ \A n \in DOMAIN files \ {path, new} : files'[n] = files[n]
  BY <1>1, <1>2 DEF With, Without
<1>4. Captured' = UNION {Range(files[n].lines) : n \in DOMAIN files \ {new}}
  <2>1. ASSUME NEW a
        PROVE  (\E n \in DOMAIN files' : a \in Range(files'[n].lines))
                  <=> \E n \in DOMAIN files \ {new} : a \in Range(files[n].lines)
    <3>1. ASSUME NEW n \in DOMAIN files', a \in Range(files'[n].lines)
          PROVE  \E m \in DOMAIN files \ {new} : a \in Range(files[m].lines)
      <4>1. CASE n = new BY <1>2, <1>3, <3>1, <4>1
      <4>2. CASE n # new BY <1>3, <3>1, <4>2
      <4> QED BY <4>1, <4>2
    <3>2. ASSUME NEW n \in DOMAIN files \ {new}, a \in Range(files[n].lines)
          PROVE  \E m \in DOMAIN files' : a \in Range(files'[m].lines)
      <4>1. CASE n = path BY <1>3, <3>2, <4>1
      <4>2. CASE n # path BY <1>3, <3>2, <4>2
      <4> QED BY <4>1, <4>2
    <3> QED BY <3>1, <3>2
  <2> QED BY <2>1 DEF Captured
<1>5. CASE new \notin DOMAIN files BY <1>4, <1>5 DEF Captured
<1>6. CASE new \in DOMAIN files
  <2>1. ASSUME NEW m \in DOMAIN files \ {new}, NEW a \in Range(files[m].lines)
        PROVE  a \notin Range(files[new].lines)
    <3> SUFFICES ASSUME a \in Range(files[new].lines) PROVE FALSE OBVIOUS
    <3>1. PICK i \in DOMAIN files[m].lines : a = files[m].lines[i] BY DEF Range
    <3>2. PICK j \in DOMAIN files[new].lines : a = files[new].lines[j] BY DEF Range
    <3>3. a \in Nat /\ ~ (a < a) BY <3>1, InFile, RecordsAreCounted
    <3>4. Earlier(m, new) \/ Earlier(new, m) BY <1>6, FilesAreOrdered
    <3> QED BY <3>1, <3>2, <3>3, <3>4 DEF Earlier
  <2>2. Captured' = Captured \ Range(files[new].lines) BY <1>4, <1>6, <2>1 DEF Captured
  <2> QED BY <1>6, <2>2
<1> QED BY <1>5, <1>6

\* A write adds the record, leaves the rest as it was, or spoils the last one.
LEMMA WriteCaptures ==
  ASSUME CaptureInv, NEW outcome \in {"whole", "cut", "torn"}, Write(outcome)
  PROVE  \/ Captured' = Captured \cup {Len(calls)}
         \/ Captured' = Captured
         \/ \E last \in Captured :
               (\A a \in Captured \ {last} : a < last) /\ Captured' = Captured \ {last}
<1> DEFINE new == New(outcome)
           Others == UNION {Range(files[n].lines) : n \in DOMAIN files \ {path}}
<1>1. step = "write" /\ files' = With(files, path, new) BY WriteMakesNew
<1>2. \/ new.lines = Append(Old.lines, Len(calls))
      \/ new.lines = Old.lines
      \/ new.lines = Front(Old.lines) /\ Old.lines # <<>>
  BY <1>1, NewFile
<1>3. Old.lines \in Seq(Ids) /\ Increasing(Old.lines) BY <1>1, OldFile DEF File
<1>4. \A a \in Others : \A j \in DOMAIN Old.lines : a < Old.lines[j]
  BY <1>1, OthersAreEarlier DEF Range
<1> HIDE DEF new
<1>5. Captured = Others \cup Range(Old.lines)
  <2>1. CASE path \in DOMAIN files
    <3>1. Old.lines = files[path].lines BY <2>1 DEF Old
    <3> QED BY <2>1, <3>1 DEF Captured
  <2>2. CASE path \notin DOMAIN files
    <3>1. Old.lines = <<>> BY <2>2 DEF Old
    <3>2. Range(Old.lines) = {} BY <3>1 DEF Range
    <3> QED BY <2>2, <3>2 DEF Captured
  <2> QED BY <2>1, <2>2
<1>6. Captured' = Others \cup Range(new.lines)
  <2>1. /\ DOMAIN files' = DOMAIN files \cup {path} /\ files'[path] = new
        /\ \A n \in DOMAIN files \ {path} : files'[n] = files[n]
    BY <1>1 DEF With
  <2>2. ASSUME NEW a
        PROVE  (\E n \in DOMAIN files' : a \in Range(files'[n].lines))
                  <=> a \in Range(new.lines) \/ \E n \in DOMAIN files \ {path} : a \in Range(files[n].lines)
    BY <2>1
  <2> QED BY <2>2 DEF Captured
<1> HIDE DEF Others
<1>7. CASE new.lines = Append(Old.lines, Len(calls))
  <2>1. Range(new.lines) = Range(Old.lines) \cup {Len(calls)}
    <3>1. /\ DOMAIN new.lines = DOMAIN Old.lines \cup {Len(Old.lines) + 1}
          /\ \A i \in DOMAIN Old.lines : new.lines[i] = Old.lines[i]
          /\ new.lines[Len(Old.lines) + 1] = Len(calls)
      BY <1>3, <1>7
    <3> QED BY <3>1 DEF Range
  <2> QED BY <1>5, <1>6, <2>1
<1>8. CASE new.lines = Old.lines BY <1>5, <1>6, <1>8
<1>9. CASE new.lines = Front(Old.lines) /\ Old.lines # <<>>
  <2> DEFINE k == Len(Old.lines)
             last == Old.lines[k]
  <2>1. /\ new.lines \in Seq(Ids) /\ Len(new.lines) = k - 1 /\ k > 0 /\ k \in Nat
        /\ \A i \in 1 .. k - 1 : new.lines[i] = Old.lines[i]
    BY <1>3, <1>9, FrontOf
  <2>2. DOMAIN Old.lines = 1 .. k /\ DOMAIN new.lines = 1 .. k - 1 BY <1>3, <2>1
  <2>3. \A i \in 1 .. k - 1 : Old.lines[i] < last
    <3> TAKE i \in 1 .. k - 1
    <3>1. i \in DOMAIN Old.lines /\ k \in DOMAIN Old.lines /\ i < k
      <4> HIDE DEF k
      <4> QED BY <2>1, <2>2
    <3> QED BY <1>3, <3>1 DEF Increasing
  <2>4. k \in DOMAIN Old.lines /\ last \in Captured BY <1>5, <2>1, <2>2 DEF Range
  <2>5. last \in Nat /\ ~ (last < last)
    <3>1. last \in Ids BY <1>3, <2>4
    <3> QED BY <3>1, CaptureAssumption DEF Ids
  <2>6. \A a \in Others : a < last BY <1>4, <2>4
  <2>7. Range(Old.lines) = Range(new.lines) \cup {last}
    <3>1. \A i \in DOMAIN Old.lines : i \in DOMAIN new.lines \/ i = k BY <2>1, <2>2
    <3>2. \A i \in DOMAIN new.lines : i \in DOMAIN Old.lines /\ new.lines[i] = Old.lines[i]
      BY <2>1, <2>2
    <3> QED BY <2>4, <3>1, <3>2 DEF Range
  <2>8. \A a \in Range(new.lines) : a < last BY <2>1, <2>2, <2>3 DEF Range
  <2> HIDE DEF last, k
  <2>9. Captured' = Captured \ {last} BY <1>5, <1>6, <2>5, <2>6, <2>7, <2>8
  <2>10. \A a \in Captured \ {last} : a < last BY <1>5, <2>6, <2>7, <2>8
  <2> QED BY <2>4, <2>9, <2>10
<1> QED BY <1>2, <1>7, <1>8, <1>9

\* What the abstract log sees.
FlywheelVars == <<Captured, CapturedBefore, IF step = "idle" THEN Len(calls) + 1 ELSE Len(calls)>>

\* Every step of the capture is a step of the log, or none.
LEMMA FlywheelStep ==
  ASSUME CaptureInv, CaptureInv', SpaceInv, [CaptureNext]_captureVars
  PROVE  Flywheel!Record \/ Flywheel!Miss \/ Flywheel!Lose \/ UNCHANGED FlywheelVars
<1>1. ASSUME NEW call \in Calls, Respond(call) PROVE UNCHANGED FlywheelVars
  <2>1. /\ files' = files /\ step = "idle" /\ step' = "rotate" /\ calls' = Append(calls, call)
    BY <1>1 DEF Respond
  <2>2. Done' = Done BY <2>1 DEF Done, CaptureInv, CaptureTypeOK
  <2> QED BY <2>1, <2>2, LogStays DEF FlywheelVars
<1>2. CASE Rotate
  <2>1. step = "rotate" /\ step' # "idle" /\ calls' = calls BY <1>2 DEF Rotate
  <2>2. Done' = Done BY <2>1 DEF Done
  <2>3. CASE path \in DOMAIN files /\ files[path].size > FileMax
    <3>1. CASE UNCHANGED Captured
      <4>1. CapturedBefore = Ordered(Captured) BY BeforeIsLess DEF OrderIsLess
      <4>2. OrderIsLess' BY BeforeIsLess, PTL
      <4>3. CapturedBefore' = CapturedBefore BY <3>1, <4>1, <4>2 DEF OrderIsLess
      <4> QED BY <2>1, <3>1, <4>3 DEF FlywheelVars
    <3>2. ASSUME NEW f \in DOMAIN files, Captured' = Captured \ Range(files[f].lines)
          PROVE  Flywheel!Lose
      BY <2>1, <3>2, FileIsLost
    <3> QED BY <1>2, <2>3, <3>1, <3>2, RotateLoses
  <2>4. CASE ~ (path \in DOMAIN files /\ files[path].size > FileMax)
    <3>1. files' = files BY <1>2, <2>4 DEF Rotate
    <3> QED BY <2>2, <3>1, LogStays DEF FlywheelVars
  <2> QED BY <2>3, <2>4
<1>3. CASE Prune
  <2>1. step = "prune" /\ step' # "idle" /\ calls' = calls BY <1>3 DEF Prune
  <2>2. CASE Total(files) > TotalMax BY <1>3, <2>1, <2>2, PruneTakesOldest, FileIsLost
  <2>3. CASE ~ (Total(files) > TotalMax)
    <3>1. files' = files BY <1>3, <2>3 DEF Prune
    <3>2. Done' = Done BY <2>1 DEF Done
    <3> QED BY <3>1, <3>2, LogStays DEF FlywheelVars
  <2> QED BY <2>2, <2>3
<1>4. CASE PruneFails
  <2>1. files' = files /\ Done' = Done BY <1>4 DEF PruneFails, Done
  <2> QED BY <2>1, LogStays DEF FlywheelVars
<1>5. ASSUME files' = files, calls' = calls, step' = "idle"
      PROVE  Flywheel!Miss \/ UNCHANGED FlywheelVars
  <2>1. CASE step = "idle"
    <3>1. Done' = Done BY <1>5, <2>1 DEF Done
    <3> QED BY <1>5, <3>1, LogStays DEF FlywheelVars
  <2>2. CASE step # "idle"
    <3>1. Done' = Done + 1 BY <1>5, <2>2, RecordsAreCounted DEF Done
    <3> QED BY <1>5, <3>1, GivenUp
  <2> QED BY <2>1, <2>2
<1>6. CASE AppendFails BY <1>5, <1>6 DEF AppendFails
<1>7. ASSUME NEW outcome \in {"whole", "cut", "torn"}, Write(outcome)
      PROVE  Flywheel!Record \/ Flywheel!Miss
  <2>1. step = "write" /\ step' = "idle" /\ calls' = calls BY <1>7, WriteMakesNew
  <2>2. /\ CapturedBefore = Ordered(Captured)
        /\ \A a \in Captured : a \in Nat /\ a <= Done
        /\ Done \in Nat /\ Len(calls) = Done + 1
    BY <2>1, BeforeIsLess, RecordsAreCounted DEF OrderIsLess, Done
  <2>3. OrderIsLess' BY BeforeIsLess, PTL
  <2>4. CapturedBefore' = Ordered(Captured') BY <2>3 DEF OrderIsLess
  <2>5. CASE Captured' = Captured \cup {Len(calls)}
    <3>1. \A a \in Captured : a < Len(calls) BY <2>2
    <3>2. ~ (Len(calls) < Len(calls)) /\ \A a \in Captured : ~ (Len(calls) < a) BY <2>2
    <3>3. CapturedBefore' = CapturedBefore \cup (Captured \X {Len(calls)})
      <4>1. Ordered(Captured \cup {Len(calls)}) = Ordered(Captured) \cup (Captured \X {Len(calls)})
        BY <3>1, <3>2 DEF Ordered
      <4> QED BY <2>2, <2>4, <2>5, <4>1
    <3> QED BY <2>1, <2>5, <3>3 DEF Flywheel!Record
  <2>6. ASSUME Captured' \subseteq Captured PROVE Flywheel!Keep(Captured')
    <3>1. Ordered(Captured') = Ordered(Captured) \cap (Captured' \X Captured') BY <2>6 DEF Ordered
    <3> QED BY <2>2, <2>4, <3>1 DEF Flywheel!Keep
  <2>7. CASE Captured' = Captured
    <3>1. Flywheel!Keep(Captured) BY <2>6, <2>7
    <3> QED BY <2>1, <3>1 DEF Flywheel!Miss
  <2>8. ASSUME NEW last \in Captured, \A a \in Captured \ {last} : a < last,
               Captured' = Captured \ {last}
        PROVE  Flywheel!Miss
    <3>1. Flywheel!Keep(Captured \ {last}) BY <2>6, <2>8
    <3>2. \A a \in Captured \ {last} : <<a, last>> \in CapturedBefore BY <2>2, <2>8 DEF Ordered
    <3> QED BY <2>1, <3>1, <3>2 DEF Flywheel!Miss
  <2> QED BY <1>7, <2>5, <2>7, <2>8, WriteCaptures
<1>8. ASSUME NEW usable \in BOOLEAN, Restart(usable)
      PROVE  Flywheel!Miss \/ UNCHANGED FlywheelVars
  BY <1>5, <1>8 DEF Restart
<1>9. CASE Tick
  <2>1. files' = files /\ Done' = Done BY <1>9 DEF Tick, Done
  <2> QED BY <2>1, LogStays DEF FlywheelVars
<1>10. CASE UNCHANGED captureVars
  <2>1. files' = files /\ Done' = Done BY <1>10 DEF captureVars, Done
  <2> QED BY <2>1, LogStays DEF FlywheelVars
<1> QED BY <1>1, <1>2, <1>3, <1>4, <1>6, <1>7, <1>8, <1>9, <1>10, Zenon DEF CaptureNext

\* Whatever is rotated, pruned, cut or restarted, and whenever: the files implement
\* a log from which records are lost in blocks.
THEOREM CaptureImplementsLog == CaptureSpec => FlywheelIsALog
<1>1. CaptureInit => Flywheel!LogInit
  <2> SUFFICES ASSUME CaptureInit PROVE Flywheel!LogInit OBVIOUS
  <2>1. DOMAIN files = {} /\ step = "idle" /\ Len(calls) = 0 BY DEF CaptureInit
  <2>2. Captured = {} BY <2>1 DEF Captured
  <2>3. CapturedBefore = {} BY <2>2 DEF CapturedBefore
  <2> QED BY <2>1, <2>2, <2>3 DEF Flywheel!LogInit
<1>2. CaptureInv /\ CaptureInv' /\ SpaceInv /\ [CaptureNext]_captureVars
        => [Flywheel!Record \/ Flywheel!Miss \/ Flywheel!Lose]_FlywheelVars
  BY FlywheelStep
<1> QED BY <1>1, <1>2, CaptureStart, CaptureStep, SpaceStart, SpaceStep, PTL
        DEF CaptureSpec, FlywheelIsALog, Flywheel!LogSpec, FlywheelVars

-----------------------------------------------------------------------------
(* The reader.                                                             *)

\* What has been read is not read again: the files that are still to be read have
\* other records, and a file that takes the name of one of them would be an overlap.
ReadInv ==
    /\ got \in Seq(Nat)
    /\ \A i \in DOMAIN got : got[i] <= Done
    /\ job # "reading" => todo = {}
    /\ job = "idle" => got = <<>>
    /\ \A n \in todo : n \in Names /\ n.stamp <= rotated
    /\ ~overlap => /\ IsInjective(got)
                   /\ \A n \in todo \cap DOMAIN files : Range(got) \cap Range(files[n].lines) = {}

\* The reader's part is disturbed by what changes the files and the counts only.
LEMMA FewerKeepRead ==
  ASSUME CaptureInv, ReadInv, UNCHANGED readerVars, Done <= Done', Done' \in Nat,
         UNCHANGED <<rotated, overlap>>,
         \A n \in DOMAIN files' : n \in DOMAIN files /\ files'[n] = files[n]
  PROVE  ReadInv'
<1>1. UNCHANGED <<todo, got, job>> BY DEF readerVars
<1>2. \A i \in DOMAIN got : got[i] <= Done'
  <2>1. \A i \in DOMAIN got : got[i] \in Nat BY DEF ReadInv
  <2> QED BY <2>1, RecordsAreCounted DEF ReadInv
<1> QED BY <1>1, <1>2 DEF ReadInv

\* A rotation gives a file a name that no listed file has, unless there is an overlap.
LEMMA RotateKeepsRead ==
  ASSUME CaptureInv, ReadInv, Rotate, UNCHANGED readerVars
  PROVE  ReadInv'
<1> DEFINE new == Name(path.day, now)
<1>1. UNCHANGED <<todo, got, job>> BY DEF readerVars
<1>2. Done' = Done
  BY DEF Rotate, Done
<1>3. CASE UNCHANGED <<files, rotated, overlap>> BY <1>1, <1>2, <1>3 DEF ReadInv
<1>4. CASE path \in DOMAIN files /\ files[path].size > FileMax
  <2>1. /\ files' = With(Without(files, path), new, files[path])
        /\ rotated' = now /\ overlap' = (overlap \/ rotated = now)
    BY <1>4 DEF Rotate
  <2>2. rotated \in 0 .. now /\ now \in Nat /\ new.stamp = now
    BY CaptureAssumption DEF CaptureInv, CaptureTypeOK, Name
  <2>3. \A n \in todo : n.stamp <= rotated' /\ n.stamp \in Nat
    BY <2>1, <2>2, CaptureAssumption DEF ReadInv, Names
  <2> HIDE DEF new
  <2>4. \A n \in DOMAIN files' : n # new => n \in DOMAIN files /\ files'[n] = files[n]
    BY <2>1 DEF With, Without
  <2>5. ASSUME ~overlap'
        PROVE  /\ IsInjective(got)
               /\ \A n \in todo \cap DOMAIN files' : Range(got) \cap Range(files'[n].lines) = {}
    <3>1. ~overlap /\ rotated # now BY <2>1, <2>5 DEF CaptureInv, CaptureTypeOK
    <3>2. \A n \in todo : n.stamp <= rotated /\ n.stamp \in Nat BY <2>3 DEF ReadInv
    <3>3. new \notin todo BY <2>2, <3>1, <3>2
    <3> QED BY <2>4, <3>1, <3>3 DEF ReadInv
  <2> QED BY <1>1, <1>2, <2>3, <2>5 DEF ReadInv
<1> QED BY <1>3, <1>4 DEF Rotate

\* A write adds a record that nobody has read.
LEMMA WriteKeepsRead ==
  ASSUME CaptureInv, ReadInv, NEW outcome \in {"whole", "cut", "torn"}, Write(outcome),
         UNCHANGED readerVars
  PROVE  ReadInv'
<1> DEFINE new == New(outcome)
<1>1. UNCHANGED <<todo, got, job>> BY DEF readerVars
<1>2. /\ step = "write" /\ step' = "idle" /\ UNCHANGED <<calls, rotated, overlap>>
      /\ files' = With(files, path, new)
  BY WriteMakesNew
<1>3. Done \in Nat /\ Len(calls) = Done + 1 /\ Done' = Done + 1
  BY <1>2, RecordsAreCounted DEF Done
<1>4. \A i \in DOMAIN got : got[i] \in Nat /\ got[i] <= Done BY DEF ReadInv
<1>5. \A i \in DOMAIN got : got[i] <= Done' /\ got[i] # Len(calls) BY <1>3, <1>4
<1>6. Range(new.lines) \subseteq Range(Old.lines) \cup {Len(calls)}
  <2>1. \/ new.lines = Append(Old.lines, Len(calls))
        \/ new.lines = Old.lines
        \/ new.lines = Front(Old.lines) /\ Old.lines # <<>>
    BY <1>2, NewFile
  <2>2. Old.lines \in Seq(Ids) BY <1>2, OldFile DEF File
  <2> HIDE DEF new
  <2>3. CASE new.lines = Append(Old.lines, Len(calls)) BY <2>2, <2>3 DEF Range
  <2>4. CASE new.lines = Old.lines BY <2>4
  <2>5. CASE new.lines = Front(Old.lines) /\ Old.lines # <<>>
    <3>1. /\ new.lines \in Seq(Ids) /\ Len(new.lines) = Len(Old.lines) - 1 /\ Len(Old.lines) > 0
          /\ \A i \in 1 .. Len(Old.lines) - 1 : new.lines[i] = Old.lines[i]
      BY <2>2, <2>5, FrontOf
    <3>2. \A i \in DOMAIN new.lines : i \in DOMAIN Old.lines /\ new.lines[i] = Old.lines[i]
      BY <2>2, <3>1
    <3> QED BY <3>2 DEF Range
  <2> QED BY <2>1, <2>3, <2>4, <2>5
<1> HIDE DEF new
<1>7. /\ DOMAIN files' = DOMAIN files \cup {path} /\ files'[path] = new
      /\ \A n \in DOMAIN files : n # path => files'[n] = files[n]
  BY <1>2 DEF With
<1>8. ASSUME ~overlap', NEW n \in todo \cap DOMAIN files'
      PROVE  Range(got) \cap Range(files'[n].lines) = {}
  <2>1. \A i \in DOMAIN got : got[i] \notin Range(files'[n].lines)
    <3>1. CASE n # path
      <4>1. n \in DOMAIN files /\ files'[n] = files[n] /\ ~overlap BY <1>2, <1>7, <1>8, <3>1
      <4>2. Range(got) \cap Range(files[n].lines) = {} BY <1>8, <4>1 DEF ReadInv
      <4> QED BY <4>1, <4>2 DEF Range
    <3>2. CASE n = path
      <4>1. \A i \in DOMAIN got : got[i] \notin Range(Old.lines)
        <5>1. CASE path \in DOMAIN files
          <6>1. Old.lines = files[path].lines BY <5>1 DEF Old
          <6> QED BY <1>2, <1>8, <3>2, <5>1, <6>1 DEF ReadInv, Range
        <5>2. CASE path \notin DOMAIN files
          <6>1. Old.lines = <<>> BY <5>2 DEF Old
          <6> QED BY <6>1 DEF Range
        <5> QED BY <5>1, <5>2
      <4> QED BY <1>5, <1>6, <1>7, <3>2, <4>1
    <3> QED BY <3>1, <3>2
  <2> QED BY <2>1 DEF Range
<1> QED BY <1>1, <1>2, <1>5, <1>8 DEF ReadInv

\* A step of the capture, whatever the reader has listed.
LEMMA CaptureKeepsRead ==
  ASSUME CaptureInv, ReadInv, [CaptureNext]_captureVars, UNCHANGED readerVars
  PROVE  ReadInv'
<1>1. ASSUME NEW call \in Calls, Respond(call) PROVE ReadInv'
  <2>1. /\ step = "idle" /\ step' = "rotate" /\ calls' = Append(calls, call)
        /\ UNCHANGED <<files, rotated, overlap>>
    BY <1>1 DEF Respond
  <2>2. Done' = Done BY <2>1 DEF Done, CaptureInv, CaptureTypeOK
  <2> QED BY <2>1, <2>2, RecordsAreCounted, FewerKeepRead
<1>2. ASSUME UNCHANGED <<files, calls, rotated, overlap>>, step' = "idle" \/ Done' = Done
      PROVE  ReadInv'
  <2>1. Done <= Done' /\ Done' \in Nat BY <1>2, RecordsAreCounted DEF Done
  <2> QED BY <1>2, <2>1, FewerKeepRead
<1>3. CASE Rotate BY <1>3, RotateKeepsRead
<1>4. CASE Prune
  <2>1. Done' = Done /\ UNCHANGED <<rotated, overlap>> BY <1>4 DEF Prune, Done
  <2>2. \A n \in DOMAIN files' : n \in DOMAIN files /\ files'[n] = files[n]
    BY <1>4 DEF Prune, Without
  <2> QED BY <2>1, <2>2, RecordsAreCounted, FewerKeepRead
<1>5. CASE PruneFails BY <1>2, <1>5 DEF PruneFails, Done
<1>6. CASE AppendFails BY <1>2, <1>6 DEF AppendFails
<1>7. ASSUME NEW outcome \in {"whole", "cut", "torn"}, Write(outcome) PROVE ReadInv'
  BY <1>7, WriteKeepsRead
<1>8. ASSUME NEW usable \in BOOLEAN, Restart(usable) PROVE ReadInv' BY <1>2, <1>8 DEF Restart
<1>9. CASE Tick BY <1>2, <1>9 DEF Tick, Done
<1>10. CASE UNCHANGED captureVars BY <1>2, <1>10 DEF captureVars, Done
<1> QED BY <1>1, <1>3, <1>4, <1>5, <1>6, <1>7, <1>8, <1>9, <1>10, Zenon DEF CaptureNext

\* The lines of a listed file are behind those that have been read, and differ.
LEMMA ReadFileKeepsRead ==
  ASSUME CaptureInv, ReadInv, ReadFile
  PROVE  ReadInv'
<1>1. UNCHANGED captureVars /\ job = "reading" BY DEF ReadFile
<1>2. Done' = Done /\ UNCHANGED <<files, rotated, overlap>> BY <1>1 DEF captureVars, Done
<1>3. PICK file \in todo :
         IF file \notin DOMAIN files THEN job' = "failed" /\ todo' = {} /\ UNCHANGED got
         ELSE /\ got' = got \o files[file].lines
              /\ todo' = todo \ {file}
              /\ job' = IF todo' = {} THEN "done" ELSE "reading"
  BY DEF ReadFile
<1>4. CASE file \notin DOMAIN files
  <2>1. job' = "failed" /\ todo' = {} /\ got' = got BY <1>3, <1>4
  <2> QED BY <1>2, <2>1 DEF ReadInv
<1>5. CASE file \in DOMAIN files
  <2> DEFINE new == files[file].lines
  <2>1. /\ got' = got \o new
        /\ todo' = todo \ {file}
        /\ job' = IF todo' = {} THEN "done" ELSE "reading"
    BY <1>3, <1>5
  <2>2. /\ new \in Seq(Nat) /\ Increasing(new)
        /\ \A i \in DOMAIN new : new[i] \in Nat /\ new[i] <= Done
    <3>1. new \in Seq(Ids) BY <1>5 DEF CaptureInv, CaptureTypeOK, File
    <3>2. Ids \subseteq Nat BY CaptureAssumption DEF Ids
    <3>3. \A i \in DOMAIN new : new[i] \in Captured BY <1>5, InFile
    <3>4. new \in Seq(Nat)
      <4> HIDE DEF new
      <4>1. \A i \in 1 .. Len(new) : new[i] \in Nat
        <5>1. \A i \in 1 .. Len(new) : new[i] \in Ids BY <3>1
        <5> QED BY <3>2, <5>1
      <4>2. new = [i \in 1 .. Len(new) |-> new[i]] /\ Len(new) \in Nat BY <3>1
      <4> QED BY <4>1, <4>2
    <3> QED BY <1>5, <3>3, <3>4, RecordsAreCounted DEF CaptureInv, InOrder, FileInOrder
  <2>3. \A n \in todo' \cap DOMAIN files : Range(new) \cap Range(files[n].lines) = {}
    <3> SUFFICES ASSUME NEW n \in DOMAIN files, n # file, NEW i \in DOMAIN new,
                        NEW j \in DOMAIN files[n].lines, new[i] = files[n].lines[j]
                 PROVE  FALSE
      BY <2>1 DEF Range
    <3>1. Earlier(n, file) \/ Earlier(file, n) BY <1>5, FilesAreOrdered
    <3>2. files[n].lines[j] < new[i] \/ new[i] < files[n].lines[j] BY <3>1 DEF Earlier
    <3>3. new[i] \in Nat BY <2>2
    <3> QED BY <3>2, <3>3
  <2>4. ~overlap => Range(got) \cap Range(new) = {} BY <1>5 DEF ReadInv
  <2> HIDE DEF new
  <2>5. got \in Seq(Nat) /\ \A i \in DOMAIN got : got[i] <= Done BY DEF ReadInv
  <2>6. got' \in Seq(Nat) BY <2>1, <2>2, <2>5
  <2>7. /\ DOMAIN got = 1 .. Len(got) /\ DOMAIN new = 1 .. Len(new)
        /\ DOMAIN got' = 1 .. Len(got) + Len(new)
        /\ Len(got) \in Nat /\ Len(new) \in Nat
        /\ \A i \in DOMAIN got : got'[i] = got[i]
        /\ \A i \in DOMAIN got' : i > Len(got) => i - Len(got) \in DOMAIN new /\ got'[i] = new[i - Len(got)]
    BY <2>1, <2>2, <2>5
  <2>8. \A i \in DOMAIN got' : i \in DOMAIN got \/ (i > Len(got) /\ i \in Nat) BY <2>7
  <2>9. \A i \in DOMAIN got' : got'[i] <= Done BY <2>2, <2>5, <2>7, <2>8
  <2>10. Range(got') \subseteq Range(got) \cup Range(new) BY <2>7, <2>8 DEF Range
  <2>11. \A i, j \in DOMAIN new : new[i] = new[j] => i = j
    <3> SUFFICES ASSUME NEW i \in DOMAIN new, NEW j \in DOMAIN new, new[i] = new[j], i # j PROVE FALSE
      OBVIOUS
    <3>1. i < j \/ j < i BY <2>7
    <3>2. new[i] < new[j] \/ new[j] < new[i] BY <2>2, <3>1 DEF Increasing
    <3> QED BY <2>2, <3>2
  <2>12. ASSUME ~overlap PROVE IsInjective(got')
    <3>0. IsInjective(got) /\ \A i \in DOMAIN got, j \in DOMAIN new : got[i] # new[j]
      BY <2>4, <2>12 DEF ReadInv, Range
    <3> SUFFICES ASSUME NEW i \in DOMAIN got', NEW j \in DOMAIN got', got'[i] = got'[j] PROVE i = j
      BY DEF IsInjective
    <3>1. CASE i \in DOMAIN got /\ j \in DOMAIN got BY <2>7, <3>0, <3>1 DEF IsInjective
    <3>2. CASE i \in DOMAIN got /\ j > Len(got) BY <2>7, <3>0, <3>2
    <3>3. CASE j \in DOMAIN got /\ i > Len(got) BY <2>7, <3>0, <3>3
    <3>4. CASE i > Len(got) /\ j > Len(got)
      <4>1. i - Len(got) = j - Len(got) BY <2>7, <2>11, <3>4
      <4> QED BY <2>7, <4>1
    <3> QED BY <2>8, <3>1, <3>2, <3>3, <3>4
  <2>13. job' # "reading" => todo' = {} BY <2>1
  <2>14. job' # "idle" BY <2>1
  <2>15. ~overlap => \A n \in todo' \cap DOMAIN files : Range(got') \cap Range(files[n].lines) = {}
    BY <2>1, <2>3, <2>10 DEF ReadInv
  <2> QED BY <1>2, <2>1, <2>6, <2>9, <2>12, <2>13, <2>14, <2>15 DEF ReadInv
<1> QED BY <1>4, <1>5

\* Every step of the gateway or of the reader keeps ReadInv.
LEMMA ReaderStep ==
  ASSUME CaptureInv, ReadInv, [ReaderNext]_<<captureVars, readerVars>>
  PROVE  ReadInv'
<1>1. CASE CaptureNext /\ UNCHANGED readerVars BY <1>1, CaptureKeepsRead
<1>2. ASSUME UNCHANGED captureVars PROVE UNCHANGED <<Done, files, rotated, overlap>>
  BY <1>2 DEF captureVars, Done
<1>3. CASE List
  <2>1. UNCHANGED captureVars /\ got' = got /\ job = "idle" BY <1>3 DEF List
  <2>2. UNCHANGED <<Done, files, rotated, overlap>> BY <1>2, <2>1
  <2>3. CASE DOMAIN files = {}
    <3>1. job' = "failed" /\ todo' = todo BY <1>3, <2>3 DEF List
    <3> QED BY <2>1, <2>2, <3>1 DEF ReadInv
  <2>4. CASE DOMAIN files # {}
    <3>1. job' = "reading" /\ todo' = DOMAIN files BY <1>3, <2>4 DEF List
    <3>2. \A n \in todo' : n \in Names /\ n.stamp <= rotated
      BY <3>1 DEF CaptureInv, CaptureTypeOK, Counted
    <3>3. got = <<>> /\ Range(got) = {} BY <2>1 DEF ReadInv, Range
    <3> QED BY <2>1, <2>2, <3>1, <3>2, <3>3 DEF ReadInv
  <2> QED BY <2>3, <2>4
<1>4. CASE ReadFile BY <1>4, ReadFileKeepsRead
<1>5. CASE Again
  <2>1. UNCHANGED captureVars /\ job' = "idle" /\ got' = <<>> /\ todo' = {} BY <1>5 DEF Again
  <2>2. UNCHANGED <<Done, files, rotated, overlap>> BY <1>2, <2>1
  <2>3. got' \in Seq(Nat) /\ DOMAIN got' = {} BY <2>1
  <2>4. IsInjective(got') BY <2>3 DEF IsInjective
  <2> QED BY <2>1, <2>2, <2>3, <2>4 DEF ReadInv
<1>6. CASE UNCHANGED <<captureVars, readerVars>> BY <1>6, CaptureKeepsRead
<1> QED BY <1>1, <1>3, <1>4, <1>5, <1>6 DEF ReaderNext

\* However the gateway writes, rotates and prunes in the meantime: no record is read
\* twice, unless a rotated file took the name of one that was listed.
THEOREM RecordsReadOnce == ReaderSpec => []ReadOnce
<1>1. CaptureInit /\ ReaderInit => CaptureInv /\ ReadInv
  <2> SUFFICES ASSUME CaptureInit, ReaderInit PROVE ReadInv BY CaptureStart
  <2>1. todo = {} /\ got = <<>> /\ job = "idle" BY DEF ReaderInit
  <2>2. got \in Seq(Nat) /\ DOMAIN got = {} BY <2>1
  <2> QED BY <2>1, <2>2 DEF ReadInv, IsInjective
<1>2. CaptureInv /\ [ReaderNext]_<<captureVars, readerVars>> => CaptureInv'
  <2>1. ReaderNext => [CaptureNext]_captureVars BY DEF ReaderNext, List, ReadFile, Again
  <2>2. UNCHANGED <<captureVars, readerVars>> => [CaptureNext]_captureVars OBVIOUS
  <2> QED BY <2>1, <2>2, CaptureStep
<1>3. CaptureInv /\ ReadInv /\ [ReaderNext]_<<captureVars, readerVars>> => ReadInv'
  BY ReaderStep
<1>4. ReadInv => ReadOnce BY DEF ReadInv, ReadOnce
<1> QED BY <1>1, <1>2, <1>3, <1>4, PTL DEF ReaderSpec

-----------------------------------------------------------------------------
(* The request log: its bound.                                             *)

\* Writes since the size was last looked at, or the count of them started over.
Since == IF stage = "look" THEN TrimEvery ELSE writes

\* Where the bound of the size would be without those writes and a line that has
\* not ended.
Allowed == LogMax + TrimEvery * setbacks

\* What _trim is going to write is never more than the limit.
SizeInv ==
    /\ lines \in Seq(Nat)
    /\ tail \in Seq(Nat)
    /\ decided \in Nat /\ setbacks \in Nat
    /\ writes \in 0 .. TrimEvery - 1
    /\ ended \in BOOLEAN /\ (stage = "look" => ended /\ writes = 0)
    /\ Len(tail) <= LogMax
    /\ Len(lines) <= Allowed + Since + (IF ended THEN 0 ELSE 1)

\* A setback adds TrimEvery to what is allowed.
LEMMA Allowance ==
  ASSUME SizeInv
  PROVE  /\ Allowed \in Nat /\ LogMax <= Allowed /\ LogMax \in Nat /\ TrimEvery \in Nat \ {0}
         /\ setbacks' = setbacks => Allowed' = Allowed
         /\ setbacks' = setbacks + 1 => Allowed' = Allowed + TrimEvery
         /\ LogMax + TrimEvery * (1 + setbacks) = Allowed + TrimEvery
<1>1. setbacks \in Nat /\ LogMax \in Nat /\ TrimEvery \in Nat \ {0}
  BY RequestLogAssumption DEF SizeInv
<1>2. TrimEvery * setbacks \in Nat BY <1>1
<1>3. TrimEvery * (setbacks + 1) = TrimEvery * setbacks + TrimEvery BY <1>1
<1>4. 1 + setbacks = setbacks + 1 BY <1>1
<1> QED BY <1>1, <1>2, <1>3, <1>4 DEF Allowed

\* The line a decision writes goes into the file as one line, or into the last.
LEMMA DecideStep ==
  ASSUME SizeInv, NEW outcome, Decide(outcome)
  PROVE  SizeInv'
<1> DEFINE id    == IF outcome # "torn" /\ ended THEN decided' ELSE 0
           above == IF ended THEN lines ELSE Front(lines)
           due   == outcome = "whole" /\ writes + 1 = TrimEvery
<1>1. /\ above \in Seq(Nat) /\ Len(above) \in Nat
      /\ Len(above) + 1 <= Allowed + Since + 1 \/ (Len(above) = 0 /\ ~ended)
  <2>0. Len(lines) \in Nat /\ Allowed \in Nat /\ Since \in Nat
    BY Allowance DEF SizeInv, Since
  <2>1. CASE ended BY <2>0, <2>1 DEF SizeInv
  <2>2. CASE ~ended
    <3>1. above = SubSeq(lines, 1, Len(lines) - 1) BY <2>2 DEF Front
    <3>2. lines \in Seq(Nat) BY DEF SizeInv
    <3> HIDE DEF above
    <3>3. CASE Len(lines) = 0
      <4>1. Len(above) = 0 /\ above \in Seq(Nat) BY <3>1, <3>2, <3>3
      <4> QED BY <2>0, <2>2, <3>3, <4>1
    <3>4. CASE Len(lines) > 0
      <4>1. Len(above) = Len(lines) - 1 /\ above \in Seq(Nat)
        <5>1. lines # <<>> /\ above = Front(lines) BY <2>2, <3>4 DEF above
        <5> QED BY <3>2, <5>1, FrontOf
      <4>2. Len(lines) <= Allowed + Since + 1 BY <2>2 DEF SizeInv
      <4> QED BY <2>0, <4>1, <4>2
    <3> QED BY <2>0, <3>3, <3>4
  <2> QED BY <2>1, <2>2 DEF SizeInv
<1>2. decided' \in Nat /\ id \in Nat BY DEF Decide, SizeInv
<1>3. /\ setbacks' = setbacks /\ tail' = tail /\ stage = "record" /\ Since = writes
      /\ writes' = IF due THEN 0 ELSE IF outcome = "whole" THEN writes + 1 ELSE writes
      /\ stage' = IF due THEN "look" ELSE "record"
  BY DEF Decide, Since
<1>4. Allowed' = Allowed /\ Allowed \in Nat /\ TrimEvery \in Nat \ {0} BY <1>3, Allowance
<1>5. writes \in 0 .. TrimEvery - 1 BY DEF SizeInv
<1>6. writes' \in 0 .. TrimEvery - 1 BY <1>3, <1>4, <1>5
<1>7. Since' = IF outcome = "whole" THEN Since + 1 ELSE Since BY <1>3, <1>4, <1>5 DEF Since
<1>8. CASE outcome = "lost"
  <2>1. lines' = lines /\ ended' = ended /\ stage' = "record" BY <1>3, <1>8 DEF Decide
  <2> HIDE DEF id, above, due
  <2> QED BY <1>2, <1>3, <1>4, <1>6, <1>7, <1>8, <2>1 DEF SizeInv
<1>9. CASE outcome # "lost"
  <2>1. lines' = Append(above, id) /\ ended' = (outcome = "whole") BY <1>9 DEF Decide
  <2>2. stage' = "look" => ended' /\ writes' = 0 BY <1>3, <2>1
  <2> HIDE DEF id, above, due
  <2>3. lines' \in Seq(Nat) /\ Len(lines') = Len(above) + 1 BY <1>1, <1>2, <2>1
  <2>4. Len(lines') <= Allowed' + Since' + (IF ended' THEN 0 ELSE 1)
    <3>1. /\ Len(lines') = Len(above) + 1 /\ Allowed' = Allowed /\ Allowed \in Nat
          /\ Since \in Nat /\ Since' \in Nat /\ Since <= Since'
      BY <1>3, <1>4, <1>5, <1>7, <2>3
    <3>2. CASE outcome = "whole"
      <4>1. ended' = TRUE /\ Since' = Since + 1 BY <1>7, <2>1, <3>2
      <4> HIDE DEF Allowed, Since
      <4> QED BY <1>1, <3>1, <4>1
    <3>3. CASE outcome # "whole"
      <4>1. ended' = FALSE BY <2>1, <3>3
      <4> HIDE DEF Allowed, Since
      <4> QED BY <1>1, <3>1, <4>1
    <3> QED BY <3>2, <3>3
  <2> QED BY <1>2, <1>3, <1>6, <2>1, <2>2, <2>3, <2>4 DEF SizeInv
<1> QED BY <1>8, <1>9

\* What follows the seek is about half of the limit.
LEMMA TrimStep ==
  ASSUME SizeInv, Trim
  PROVE  SizeInv'
<1>1. /\ stage = "look" /\ ended /\ writes = 0 /\ Len(lines) \in Nat
      /\ UNCHANGED <<writes, decided, setbacks>>
  BY DEF Trim, SizeInv
<1>2. /\ Allowed' = Allowed /\ Allowed \in Nat /\ LogMax <= Allowed
      /\ LogMax \in Nat /\ TrimEvery \in Nat \ {0}
  BY <1>1, Allowance
<1>3. CASE Len(lines) <= LogMax
  <2>1. lines' = lines /\ tail' = tail /\ ended' = ended /\ stage' = "record" BY <1>3 DEF Trim
  <2>2. Since' = 0 BY <1>1, <2>1 DEF Since
  <2> QED BY <1>1, <1>2, <1>3, <2>1, <2>2 DEF SizeInv
<1>4. CASE Len(lines) > LogMax
  <2>1. RecentHalf \in Seq(Nat) /\ Len(RecentHalf) <= LogMax
    <3> DEFINE from == Len(lines) - (LogMax + 1) \div 2 + 2
    <3>1. Len(lines) \in Nat /\ LogMax \in Nat \ {0, 1}
      BY RequestLogAssumption DEF SizeInv
    <3>2. from \in 1 .. Len(lines) + 1 /\ Len(lines) - from + 1 <= LogMax
      BY <1>4, <3>1
    <3>3. RecentHalf = SubSeq(lines, from, Len(lines)) BY DEF RecentHalf
    <3> HIDE DEF from
    <3> QED BY <3>1, <3>2, <3>3 DEF SizeInv
  <2>2. ~ (Len(lines) <= LogMax) BY <1>1, <1>2, <1>4
  <2>3. lines' = << >> /\ tail' = RecentHalf /\ ended' /\ stage' = "rewrite" /\ ended' \in BOOLEAN
    BY <2>2 DEF Trim
  <2>4. Since' = 0 /\ Len(lines') = 0 /\ lines' \in Seq(Nat) BY <1>1, <2>3 DEF Since
  <2> QED BY <1>1, <1>2, <2>1, <2>3, <2>4 DEF SizeInv
<1> QED BY <1>1, <1>2, <1>3, <1>4

\* A setback starts the count of the writes over, and is allowed for.
LEMMA SetbackStep ==
  ASSUME SizeInv, TrimFails \/ Restarted
  PROVE  SizeInv'
<1>1. /\ setbacks' = setbacks + 1 /\ stage' = "record" /\ writes' = 0
      /\ tail' = tail \/ tail' = <<>>
      /\ UNCHANGED <<lines, ended, decided>>
  BY DEF TrimFails, Restarted, SizeInv
<1>2. /\ Allowed' = Allowed + TrimEvery /\ Allowed \in Nat
      /\ LogMax \in Nat /\ TrimEvery \in Nat \ {0}
  BY <1>1, Allowance
<1>3. Since' = 0 /\ Since \in Nat /\ Since <= TrimEvery BY <1>1, <1>2 DEF Since, SizeInv
<1>4. Len(lines) \in Nat BY DEF SizeInv
<1>5. Len(lines') <= Allowed' + Since' + (IF ended' THEN 0 ELSE 1)
  BY <1>1, <1>2, <1>3, <1>4 DEF SizeInv
<1>6. tail' \in Seq(Nat) /\ Len(tail') <= LogMax
  <2>1. tail \in Seq(Nat) /\ Len(tail) <= LogMax BY DEF SizeInv
  <2>2. <<>> \in Seq(Nat) /\ Len(<<>>) <= LogMax BY <1>2
  <2> QED BY <1>1, <2>1, <2>2
<1>7. 0 \in 0 .. TrimEvery - 1 BY <1>2
<1> QED BY <1>1, <1>5, <1>6, <1>7 DEF SizeInv

\* As much of it as the disk takes, and at most one torn line behind it.
LEMMA RewriteStep ==
  ASSUME SizeInv, NEW outcome \in {"whole", "cut", "torn"}, NEW k \in 0 .. Len(tail),
         Rewrite(k, outcome)
  PROVE  SizeInv'
<1>1. SubSeq(tail, 1, k) \in Seq(Nat) /\ Len(SubSeq(tail, 1, k)) = k /\ k <= Len(tail)
  BY DEF SizeInv
<1>2. /\ stage' = "record" /\ ended' = (outcome = "whole") /\ tail' = <<>>
      /\ UNCHANGED <<writes, decided, setbacks>>
      /\ outcome = "torn" => k < Len(tail)
  BY DEF Rewrite
<1>3. /\ Allowed' = Allowed /\ Allowed \in Nat /\ LogMax <= Allowed
      /\ LogMax \in Nat /\ TrimEvery \in Nat \ {0}
  BY <1>2, Allowance
<1>4. lines' \in Seq(Nat) /\ Len(lines') \in Nat /\ Len(lines') <= LogMax
  <2>1. CASE outcome = "torn"
    <3>1. lines' = SubSeq(tail, 1, k) \o <<0>> BY <2>1 DEF Rewrite
    <3> QED BY <1>1, <1>2, <1>3, <2>1, <3>1 DEF SizeInv
  <2>2. CASE outcome # "torn"
    <3>1. lines' = SubSeq(tail, 1, k) \o << >> BY <2>2 DEF Rewrite
    <3> QED BY <1>1, <1>3, <3>1 DEF SizeInv
  <2> QED BY <2>1, <2>2
<1>5. Since' \in Nat BY <1>2 DEF Since, SizeInv
<1> QED BY <1>2, <1>3, <1>4, <1>5 DEF SizeInv

LEMMA SizeInitially ==
  ASSUME RequestLogInit
  PROVE  SizeInv
<1>1. LogMax \in Nat /\ TrimEvery \in Nat \ {0} /\ setbacks = 0
  BY RequestLogAssumption DEF RequestLogInit
<1>2. Allowed = LogMax + TrimEvery * 0 /\ TrimEvery * 0 = 0 BY <1>1 DEF Allowed
<1> QED BY <1>1, <1>2 DEF RequestLogInit, SizeInv, Since

\* Whatever is cut short, for any limit: the request log is longer than its limit by
\* the writes between two looks at its size at most, and by as many again for each
\* restart and each trim that failed.
THEOREM LogSizeBounded == RequestLogSpec => []SizeBounded
<1>1. RequestLogInit => SizeInv BY SizeInitially
<1>2. SizeInv /\ [RequestLogNext]_requestLogVars => SizeInv'
  <2> SUFFICES ASSUME SizeInv, [RequestLogNext]_requestLogVars PROVE SizeInv' OBVIOUS
  <2>1. ASSUME NEW outcome, Decide(outcome) PROVE SizeInv' BY <2>1, DecideStep
  <2>2. ASSUME NEW outcome \in {"whole", "cut", "torn"}, NEW k \in 0 .. Len(tail),
               Rewrite(k, outcome)
        PROVE  SizeInv'
    BY <2>2, RewriteStep
  <2>3. CASE Trim BY <2>3, TrimStep
  <2>4. CASE TrimFails \/ Restarted BY <2>4, SetbackStep
  <2>5. CASE UNCHANGED requestLogVars
    BY <2>5 DEF requestLogVars, SizeInv, Since, Allowed
  <2> QED BY <2>1, <2>2, <2>3, <2>4, <2>5, Zenon DEF RequestLogNext
<1>3. SizeInv => SizeBounded
  <2> SUFFICES ASSUME SizeInv PROVE SizeBounded OBVIOUS
  <2>1. /\ LogMax + TrimEvery * (1 + setbacks) = Allowed + TrimEvery
        /\ Allowed \in Nat /\ TrimEvery \in Nat \ {0}
    BY Allowance
  <2>2. Since \in Nat /\ Since + (IF ended THEN 0 ELSE 1) <= TrimEvery /\ Len(lines) \in Nat
    BY <2>1 DEF SizeInv, Since
  <2> QED BY <2>1, <2>2 DEF SizeInv, SizeBounded
<1> QED BY <1>1, <1>2, <1>3, PTL DEF RequestLogSpec

-----------------------------------------------------------------------------
(* The request log implements a log.                                       *)

\* The decisions that a text tells of.
Numbers(s) == {s[i] : i \in {i \in DOMAIN s : s[i] # 0}}

\* They are in their order.
Rising(s) == \A i, j \in DOMAIN s : i < j /\ s[i] # 0 /\ s[j] # 0 => s[i] < s[j]

\* A decision goes to the end, or a line that cannot be parsed.
LEMMA AppendTells ==
  ASSUME NEW s \in Seq(Nat), Rising(s), NEW id \in Nat,
         id = 0 \/ \A i \in DOMAIN s : s[i] < id
  PROVE  /\ Append(s, id) \in Seq(Nat) /\ Rising(Append(s, id))
         /\ Numbers(Append(s, id)) = Numbers(s) \cup (IF id = 0 THEN {} ELSE {id})
<1> DEFINE t == Append(s, id)
<1>1. /\ t \in Seq(Nat) /\ DOMAIN s = 1 .. Len(s) /\ DOMAIN t = 1 .. Len(s) + 1 /\ Len(s) \in Nat
      /\ \A i \in DOMAIN s : t[i] = s[i]
      /\ t[Len(s) + 1] = id
  OBVIOUS
<1> HIDE DEF t
<1>2. \A i \in DOMAIN t : i \in DOMAIN s \/ i = Len(s) + 1 BY <1>1
<1>3. Rising(t)
  <2> SUFFICES ASSUME NEW i \in DOMAIN t, NEW j \in DOMAIN t, i < j, t[i] # 0, t[j] # 0
               PROVE  t[i] < t[j]
    BY DEF Rising
  <2>1. i \in DOMAIN s BY <1>1
  <2>2. CASE j \in DOMAIN s BY <1>1, <2>1, <2>2 DEF Rising
  <2>3. CASE j = Len(s) + 1 BY <1>1, <2>1, <2>3
  <2> QED BY <1>2, <2>2, <2>3
<1>4. ASSUME NEW x PROVE x \in Numbers(t) <=> x \in Numbers(s) \/ (x = id /\ id # 0)
  <2>1. ASSUME x \in Numbers(t) PROVE x \in Numbers(s) \/ (x = id /\ id # 0)
    <3>1. PICK i \in DOMAIN t : t[i] # 0 /\ x = t[i] BY <2>1 DEF Numbers
    <3> QED BY <1>1, <1>2, <3>1 DEF Numbers
  <2>2. ASSUME x \in Numbers(s) PROVE x \in Numbers(t)
    <3>1. PICK i \in DOMAIN s : s[i] # 0 /\ x = s[i] BY <2>2 DEF Numbers
    <3>2. i \in DOMAIN t /\ t[i] = s[i] BY <1>1
    <3> QED BY <3>1, <3>2 DEF Numbers
  <2>3. ASSUME x = id, id # 0 PROVE x \in Numbers(t)
    <3>1. Len(s) + 1 \in DOMAIN t BY <1>1
    <3> QED BY <1>1, <2>3, <3>1 DEF Numbers
  <2> QED BY <2>1, <2>2, <2>3
<1>5. Numbers(t) = Numbers(s) \cup (IF id = 0 THEN {} ELSE {id}) BY <1>4
<1> QED BY <1>1, <1>3, <1>5 DEF t

\* Is the text t a part of s?
IsPart(t, s, from, to) ==
    from \in Nat /\ to \in Nat /\ from > 0 /\ from <= to + 1 /\ to <= Len(s) /\ t = SubSeq(s, from, to)

\* What a part of a text tells of: what is cut off at one of its ends is a block.
LEMMA PartTells ==
  ASSUME NEW s \in Seq(Nat), Rising(s), NEW t, NEW from, NEW to, IsPart(t, s, from, to)
  PROVE  /\ t \in Seq(Nat) /\ Rising(t) /\ Numbers(t) \subseteq Numbers(s)
         /\ \A i \in DOMAIN t : \E j \in DOMAIN s : t[i] = s[j]
         /\ from = 1 => \A a \in Numbers(s) \ Numbers(t), b \in Numbers(t) : b < a
         /\ to = Len(s) => \A a \in Numbers(s) \ Numbers(t), b \in Numbers(t) : a < b
<1>0. from \in Nat /\ to \in Nat /\ from > 0 /\ from <= to + 1 /\ to <= Len(s) /\ t = SubSeq(s, from, to)
  BY DEF IsPart
<1> USE <1>0
<1>1. /\ t \in Seq(Nat) /\ Len(t) = to - from + 1 /\ Len(t) \in Nat /\ Len(s) \in Nat
      /\ DOMAIN t = 1 .. Len(t) /\ DOMAIN s = 1 .. Len(s)
      /\ \A i \in 1 .. Len(t) : t[i] = s[i + from - 1]
  OBVIOUS
<1>2. \A i \in DOMAIN t : i + from - 1 \in DOMAIN s /\ t[i] = s[i + from - 1] BY <1>1
<1>3. \A j \in DOMAIN s : j \in from .. to => j - from + 1 \in DOMAIN t /\ t[j - from + 1] = s[j]
  <2> SUFFICES ASSUME NEW j \in DOMAIN s, from <= j, j <= to
               PROVE  j - from + 1 \in DOMAIN t /\ t[j - from + 1] = s[j]
    OBVIOUS
  <2> DEFINE i == j - from + 1
  <2>1. j \in Nat BY <1>1
  <2>2. i \in 1 .. Len(t) /\ i + from - 1 = j
    <3>1. Len(t) \in Nat /\ Len(t) = to - from + 1 BY <1>1
    <3>2. i \in Nat /\ i >= 1
      <4>1. from \in Nat /\ from <= j /\ j \in Nat BY <2>1
      <4> QED BY <4>1
    <3>3. i <= to - from + 1 BY <2>1
    <3>4. i + from - 1 = j BY <2>1
    <3> HIDE DEF i
    <3> QED BY <3>1, <3>2, <3>3, <3>4
  <2> HIDE DEF i
  <2>3. t[i] = s[i + from - 1] BY <1>1, <2>2
  <2> QED BY <1>1, <2>2, <2>3 DEF i
<1>4. Rising(t)
  <2> SUFFICES ASSUME NEW i \in DOMAIN t, NEW j \in DOMAIN t, i < j, t[i] # 0, t[j] # 0
               PROVE  t[i] < t[j]
    BY DEF Rising
  <2>1. i + from - 1 < j + from - 1 BY <1>1
  <2> QED BY <1>2, <2>1 DEF Rising
<1>5. ASSUME NEW x \in Numbers(t)
      PROVE  \E j \in DOMAIN s : j \in from .. to /\ s[j] # 0 /\ x = s[j]
  <2>1. PICK i \in DOMAIN t : t[i] # 0 /\ x = t[i] BY DEF Numbers
  <2>2. i + from - 1 \in from .. to BY <1>1
  <2> QED BY <1>2, <2>1, <2>2
<1>6. ASSUME NEW x \in Numbers(s) \ Numbers(t)
      PROVE  \E j \in DOMAIN s : j \notin from .. to /\ s[j] # 0 /\ x = s[j]
  <2>1. PICK j \in DOMAIN s : s[j] # 0 /\ x = s[j] BY DEF Numbers
  <2>2. j \notin from .. to BY <1>3, <2>1 DEF Numbers
  <2> QED BY <2>1, <2>2
<1>7. Numbers(t) \subseteq Numbers(s) BY <1>5 DEF Numbers
<1>8. ASSUME from = 1, NEW a \in Numbers(s) \ Numbers(t), NEW b \in Numbers(t) PROVE b < a
  <2>1. PICK i \in DOMAIN s : i \notin from .. to /\ s[i] # 0 /\ a = s[i] BY <1>6
  <2>2. PICK j \in DOMAIN s : j \in from .. to /\ s[j] # 0 /\ b = s[j] BY <1>5
  <2>3. j < i BY <1>1, <1>8, <2>1, <2>2
  <2> QED BY <2>1, <2>2, <2>3 DEF Rising
<1>9. ASSUME to = Len(s), NEW a \in Numbers(s) \ Numbers(t), NEW b \in Numbers(t) PROVE a < b
  <2>1. PICK i \in DOMAIN s : i \notin from .. to /\ s[i] # 0 /\ a = s[i] BY <1>6
  <2>2. PICK j \in DOMAIN s : j \in from .. to /\ s[j] # 0 /\ b = s[j] BY <1>5
  <2>3. i < j BY <1>1, <1>9, <2>1, <2>2
  <2> QED BY <2>1, <2>2, <2>3 DEF Rising
<1>10. \A i \in DOMAIN t : \E j \in DOMAIN s : t[i] = s[j] BY <1>2
<1> QED BY <1>1, <1>4, <1>7, <1>8, <1>9, <1>10

\* The decisions in the text, or on their way back to it, are in their order.
TextInv ==
    /\ SizeInv
    /\ stage = "rewrite" => lines = <<>>
    /\ Rising(Text)
    /\ \A i \in DOMAIN Text : Text[i] <= decided

\* What the abstract log sees, as RequestLogIsALog has it.
ToldBefore == {p \in Told \X Told : \E i, j \in Legible : i < j /\ p = <<Text[i], Text[j]>>}

\* The order of the decisions is that of their numbers.
ToldIsLess == ToldBefore = Ordered(Told)

\* The text has numbers of decisions.
LEMMA ToldIsCounted ==
  ASSUME TextInv
  PROVE  /\ Text \in Seq(Nat) /\ decided \in Nat
         /\ Told = Numbers(Text)
         /\ \A a \in Told : a \in Nat /\ a # 0 /\ a <= decided
<1>1. Text \in Seq(Nat) /\ decided \in Nat BY DEF TextInv, SizeInv, Text
<1>2. Told = Numbers(Text) BY DEF Told, Legible, Numbers
<1>3. \A i \in DOMAIN Text : Text[i] \in Nat BY <1>1
<1>4. \A a \in Told : a \in Nat /\ a # 0 /\ a <= decided BY <1>3 DEF TextInv, Told, Legible
<1> QED BY <1>1, <1>2, <1>4

\* The order of the decisions that can be read is that of their numbers.
LEMMA ToldBeforeIsLess == TextInv => ToldIsLess
<1> SUFFICES ASSUME TextInv, NEW p \in Told \X Told
             PROVE  (\E i, j \in Legible : i < j /\ p = <<Text[i], Text[j]>>) <=> p[1] < p[2]
  BY DEF ToldIsLess, ToldBefore, Ordered
<1>1. Text \in Seq(Nat) /\ \A i \in DOMAIN Text : i \in Nat /\ Text[i] \in Nat
  <2>1. Text \in Seq(Nat) BY ToldIsCounted
  <2> QED BY <2>1
<1>2. \A i, j \in Legible : i < j => Text[i] < Text[j] BY DEF TextInv, Rising, Legible
<1>3. PICK i \in Legible : p[1] = Text[i] BY DEF Told
<1>4. PICK j \in Legible : p[2] = Text[j] BY DEF Told
<1>5. i \in Nat /\ j \in Nat /\ Text[i] \in Nat /\ Text[j] \in Nat BY <1>1, <1>3, <1>4 DEF Legible
<1>6. p = <<Text[i], Text[j]>> BY <1>3, <1>4
<1>7. ASSUME p[1] < p[2] PROVE i < j
  <2>1. CASE j < i
    <3>1. Text[j] < Text[i] BY <1>2, <2>1
    <3> QED BY <1>3, <1>4, <1>5, <1>7, <3>1
  <2>2. CASE i = j BY <1>3, <1>4, <1>5, <1>7, <2>2
  <2> QED BY <1>5, <2>1, <2>2
<1>8. ASSUME NEW k \in Legible, NEW l \in Legible, k < l, p = <<Text[k], Text[l]>> PROVE p[1] < p[2]
  <2>1. Text[k] < Text[l] BY <1>2, <1>8
  <2> QED BY <1>8, <2>1
<1> QED BY <1>6, <1>7, <1>8

\* What happens to the decisions says what happens to their order.
LEMMA KeepsOrder ==
  ASSUME TextInv, TextInv', Told' \subseteq Told
  PROVE  ToldBefore' = ToldBefore \cap (Told' \X Told')
<1>1. ToldIsLess' BY ToldBeforeIsLess, PTL
<1> QED BY <1>1, ToldBeforeIsLess DEF ToldIsLess, Ordered

\* Decisions that go from one end of the text go as a block.
LEMMA LosesBlock ==
  ASSUME TextInv, TextInv', Told' \subseteq Told, decided' = decided,
         \/ \A a \in Told \ Told', b \in Told' : a < b
         \/ \A a \in Told \ Told', b \in Told' : b < a
  PROVE  Decisions!Lose
<1> DEFINE gone == Told \ Told'
<1>1. ToldBefore' = ToldBefore \cap (Told' \X Told') BY KeepsOrder
<1>2. ToldBefore = Ordered(Told) BY ToldBeforeIsLess DEF ToldIsLess
<1>3. ASSUME NEW a \in gone, NEW c \in gone, NEW b \in Told, {<<a, b>>, <<b, c>>} \subseteq ToldBefore
      PROVE  b \in gone
  <2>1. a < b /\ b < c BY <1>2, <1>3 DEF Ordered
  <2>2. a \in Nat /\ b \in Nat /\ c \in Nat BY ToldIsCounted
  <2>3. b < a \/ c < b \/ b \in gone OBVIOUS
  <2> HIDE DEF gone
  <2> QED BY <2>1, <2>2, <2>3
<1>4. Decisions!AreNeighbours(gone) BY <1>3 DEF Decisions!AreNeighbours, ToldBefore
<1>5. Told' = Told \ gone /\ gone \in SUBSET Told OBVIOUS
<1> HIDE DEF gone
<1> QED BY <1>1, <1>4, <1>5 DEF Decisions!Lose, Decisions!Keep, ToldBefore

\* The variables of the abstract log.
DecisionVars == <<Told, ToldBefore, decided + 1>>

\* A decision comes in at the end, or its line is torn, or it tears the one before.
LEMMA DecideTells ==
  ASSUME TextInv, NEW outcome \in {"whole", "cut", "torn", "lost"}, Decide(outcome)
  PROVE  TextInv' /\ (Decisions!Record \/ Decisions!Miss)
<1>0. CASE outcome = "lost"
  <2>1. /\ stage = "record" /\ stage' # "rewrite" /\ decided' = decided + 1 /\ lines' = lines
    BY <1>0 DEF Decide
  <2>2. Text' = Text /\ SizeInv' BY <2>1, DecideStep DEF Text, TextInv
  <2>3. Told' = Told /\ ToldBefore' = ToldBefore BY <2>2 DEF Told, ToldBefore, Legible
  <2>4. \A i \in DOMAIN Text' : Text'[i] <= decided'
    <3>1. \A i \in DOMAIN Text : Text[i] \in Nat /\ Text[i] <= decided /\ decided \in Nat
      BY ToldIsCounted DEF TextInv
    <3> QED BY <2>1, <2>2, <3>1
  <2>5. TextInv' BY <2>1, <2>2, <2>4 DEF TextInv
  <2>6. ToldBefore = ToldBefore \cap (Told \X Told) BY DEF ToldBefore
  <2> QED BY <2>1, <2>3, <2>5, <2>6 DEF Decisions!Miss, Decisions!Keep, ToldBefore
<1> SUFFICES ASSUME outcome # "lost" PROVE TextInv' /\ (Decisions!Record \/ Decisions!Miss)
  BY <1>0
<1> DEFINE id    == IF outcome # "torn" /\ ended THEN decided' ELSE 0
           above == IF ended THEN lines ELSE Front(lines)
<1>1. /\ stage = "record" /\ stage' # "rewrite" /\ decided' = decided + 1
      /\ lines' = Append(above, id)
  BY DEF Decide
<1>2. Text = lines /\ Text' = lines' BY <1>1 DEF Text
<1>3. SizeInv' BY DecideStep DEF TextInv
<1>4. /\ lines \in Seq(Nat) /\ Rising(lines) /\ Told = Numbers(lines) /\ decided \in Nat
      /\ \A i \in DOMAIN lines : lines[i] \in Nat /\ lines[i] <= decided
  BY <1>2, ToldIsCounted DEF TextInv
<1>5. CASE ended
  <2>1. above = lines /\ id \in Nat /\ (id = 0 \/ id = decided + 1) BY <1>1, <1>4, <1>5
  <2> HIDE DEF above, id
  <2>2. id = 0 \/ \A i \in DOMAIN lines : lines[i] < id BY <1>4, <2>1
  <2>3. /\ lines' \in Seq(Nat) /\ Rising(lines')
        /\ Numbers(lines') = Numbers(lines) \cup (IF id = 0 THEN {} ELSE {id})
    BY <1>1, <1>4, <2>1, <2>2, AppendTells
  <2>4. \A i \in DOMAIN lines' : lines'[i] <= decided'
    <3>1. \A i \in DOMAIN lines' : i \in DOMAIN lines \/ i = Len(lines) + 1 BY <1>1, <1>4, <2>1
    <3>2. \A i \in DOMAIN lines : lines'[i] = lines[i] BY <1>1, <1>4, <2>1
    <3>3. lines'[Len(lines) + 1] = id BY <1>1, <1>4, <2>1
    <3> QED BY <1>1, <1>4, <2>1, <3>1, <3>2, <3>3
  <2>5. TextInv' BY <1>1, <1>2, <1>3, <2>3, <2>4 DEF TextInv
  <2>6. Told' = Numbers(lines') BY <1>2 DEF Told, Legible, Numbers
  <2>7. CASE id = 0
    <3>1. Told' = Told BY <1>4, <2>3, <2>6, <2>7
    <3>2. ToldBefore' = ToldBefore \cap (Told \X Told) BY <2>5, <3>1, KeepsOrder
    <3> QED BY <1>1, <2>5, <3>1, <3>2 DEF Decisions!Miss, Decisions!Keep, ToldBefore
  <2>8. CASE id = decided + 1
    <3>1. Told' = Told \cup {decided + 1} BY <1>4, <2>3, <2>6, <2>8
    <3>2. \A a \in Told : a \in Nat /\ a <= decided BY ToldIsCounted
    <3>3. \A a \in Told : a < decided + 1 /\ ~ (decided + 1 < a) BY <1>4, <3>2
    <3>4. ToldIsLess /\ ToldIsLess' BY <2>5, ToldBeforeIsLess, PTL
    <3>5. Ordered(Told \cup {decided + 1}) = Ordered(Told) \cup (Told \X {decided + 1})
      BY <1>4, <3>3 DEF Ordered
    <3>6. ToldBefore' = ToldBefore \cup (Told \X {decided + 1}) BY <3>1, <3>4, <3>5 DEF ToldIsLess
    <3> QED BY <1>1, <2>5, <3>1, <3>6 DEF Decisions!Record, ToldBefore
  <2> QED BY <2>1, <2>7, <2>8
<1>6. CASE ~ended
  <2>1. above = Front(lines) /\ id = 0 BY <1>6
  <2> HIDE DEF above, id
  <2>2. /\ above \in Seq(Nat) /\ Rising(above) /\ Numbers(above) \subseteq Numbers(lines)
        /\ \A i \in DOMAIN above : \E j \in DOMAIN lines : above[i] = lines[j]
        /\ \A a \in Numbers(lines) \ Numbers(above), b \in Numbers(above) : b < a
        /\ \A a, b \in Numbers(lines) \ Numbers(above) : a = b
    <3>1. CASE lines = <<>>
      <4>1. above = SubSeq(lines, 1, Len(lines) - 1) BY <2>1 DEF Front
      <4>2. above \in Seq(Nat) /\ DOMAIN above = {} /\ DOMAIN lines = {} BY <3>1, <4>1
      <4> QED BY <4>2 DEF Rising, Numbers
    <3>2. CASE lines # <<>>
      <4> DEFINE to == Len(lines) - 1
      <4>1. above = SubSeq(lines, 1, to) /\ to \in Nat /\ 1 <= to + 1 /\ to <= Len(lines)
        BY <1>4, <2>1, <3>2 DEF Front
      <4>2. to + 1 = Len(lines) /\ DOMAIN lines = 1 .. to + 1 BY <1>4
      <4> HIDE DEF to
      <4>3. /\ above \in Seq(Nat) /\ Rising(above) /\ Numbers(above) \subseteq Numbers(lines)
            /\ \A i \in DOMAIN above : \E j \in DOMAIN lines : above[i] = lines[j]
            /\ \A a \in Numbers(lines) \ Numbers(above), b \in Numbers(above) : b < a
        <5>1. IsPart(above, lines, 1, to) BY <4>1 DEF IsPart
        <5>2. Rising(lines) /\ lines \in Seq(Nat) BY <1>4
        <5> QED BY <5>1, <5>2, PartTells
      <4>4. \A a \in Numbers(lines) \ Numbers(above) : a = lines[to + 1]
        <5> TAKE a \in Numbers(lines) \ Numbers(above)
        <5>1. PICK i \in DOMAIN lines : lines[i] # 0 /\ a = lines[i] BY DEF Numbers
        <5>2. CASE i <= to
          <6>1. i \in DOMAIN above /\ above[i] = lines[i] BY <1>4, <4>1, <4>2, <5>2
          <6> QED BY <5>1, <6>1 DEF Numbers
        <5>3. CASE i = to + 1 BY <5>1, <5>3
        <5> QED BY <4>1, <4>2, <5>2, <5>3
      <4> QED BY <4>3, <4>4
    <3> QED BY <3>1, <3>2
  <2>3. lines' \in Seq(Nat) /\ Rising(lines') /\ Numbers(lines') = Numbers(above)
    BY <1>1, <2>1, <2>2, AppendTells
  <2>4. \A i \in DOMAIN lines' : lines'[i] <= decided'
    <3>1. \A i \in DOMAIN lines' : i \in DOMAIN above \/ i = Len(above) + 1 BY <1>1, <2>1, <2>2
    <3>2. \A i \in DOMAIN above : lines'[i] = above[i] BY <1>1, <2>1, <2>2
    <3>3. lines'[Len(above) + 1] = 0 BY <1>1, <2>1, <2>2
    <3>4. \A i \in DOMAIN above : above[i] \in Nat /\ above[i] <= decided BY <1>4, <2>2
    <3> QED BY <1>1, <1>4, <3>1, <3>2, <3>3, <3>4
  <2>5. TextInv' BY <1>1, <1>2, <1>3, <2>3, <2>4 DEF TextInv
  <2>6. Told' = Numbers(above) BY <1>2, <2>3 DEF Told, Legible, Numbers
  <2>7. Told' \subseteq Told BY <1>4, <2>2, <2>6
  <2>8. ToldBefore' = ToldBefore \cap (Told' \X Told') BY <2>5, <2>7, KeepsOrder
  <2>10. CASE Told' = Told
    <3>1. Decisions!Keep(Told) BY <2>8, <2>10 DEF Decisions!Keep, ToldBefore
    <3> QED BY <1>1, <2>5, <3>1 DEF Decisions!Miss
  <2>11. CASE Told' # Told
    <3>1. PICK last \in Told : last \notin Told' BY <2>7, <2>11
    <3>2. Told' = Told \ {last} BY <1>4, <2>2, <2>6, <2>7, <3>1
    <3>3. \A a \in Told \ {last} : a < last BY <1>4, <2>2, <2>6, <3>1, <3>2
    <3>4. ToldBefore = Ordered(Told) BY ToldBeforeIsLess DEF ToldIsLess
    <3>5. \A a \in Told \ {last} : <<a, last>> \in ToldBefore BY <3>1, <3>3, <3>4 DEF Ordered
    <3>6. Decisions!Keep(Told \ {last}) BY <2>8, <3>2 DEF Decisions!Keep, ToldBefore
    <3> QED BY <1>1, <2>5, <3>1, <3>5, <3>6 DEF Decisions!Miss, ToldBefore
  <2> QED BY <2>10, <2>11
<1> QED BY <1>5, <1>6

\* Nothing that is read from the file changes what it tells.
LEMMA TextStays ==
  ASSUME TextInv, SizeInv', Text' = Text, decided' = decided, stage' = "rewrite" => lines' = <<>>
  PROVE  TextInv' /\ UNCHANGED DecisionVars
<1>1. TextInv' BY DEF TextInv
<1>2. Told' = Told /\ ToldBefore' = ToldBefore BY DEF Told, ToldBefore, Legible
<1> QED BY <1>1, <1>2 DEF DecisionVars

\* A part of the text that is left is a log that has lost a block.
LEMMA TextIsCut ==
  ASSUME TextInv, SizeInv', decided' = decided, stage' = "rewrite" => lines' = <<>>,
         NEW from \in Nat, NEW to \in Nat, from > 0, from <= to + 1, to <= Len(Text),
         from = 1 \/ to = Len(Text),
         Text' = SubSeq(Text, from, to) \/ Text' = Append(SubSeq(Text, from, to), 0)
  PROVE  TextInv' /\ Decisions!Lose
<1> DEFINE t == SubSeq(Text, from, to)
<1>1. /\ Text \in Seq(Nat) /\ decided \in Nat /\ Told = Numbers(Text) /\ Rising(Text)
      /\ \A i \in DOMAIN Text : Text[i] <= decided
  BY ToldIsCounted DEF TextInv
<1>2. Text' = t \/ Text' = Append(t, 0) OBVIOUS
<1>3. /\ t \in Seq(Nat) /\ Rising(t) /\ Numbers(t) \subseteq Told
      /\ \A i \in DOMAIN t : \E j \in DOMAIN Text : t[i] = Text[j]
      /\ \/ \A a \in Told \ Numbers(t), b \in Numbers(t) : a < b
         \/ \A a \in Told \ Numbers(t), b \in Numbers(t) : b < a
  <2> HIDE DEF t
  <2>1. IsPart(t, Text, from, to) BY DEF t, IsPart
  <2>2. /\ t \in Seq(Nat) /\ Rising(t) /\ Numbers(t) \subseteq Numbers(Text)
        /\ \A i \in DOMAIN t : \E j \in DOMAIN Text : t[i] = Text[j]
        /\ from = 1 => \A a \in Numbers(Text) \ Numbers(t), b \in Numbers(t) : b < a
        /\ to = Len(Text) => \A a \in Numbers(Text) \ Numbers(t), b \in Numbers(t) : a < b
    BY <1>1, <2>1, PartTells
  <2> QED BY <1>1, <2>2
<1> HIDE DEF t
<1>4. \A i \in DOMAIN t : t[i] <= decided BY <1>1, <1>3
<1>5. /\ Rising(Text') /\ Numbers(Text') = Numbers(t)
      /\ \A i \in DOMAIN Text' : Text'[i] <= decided
  <2>1. CASE Text' = t BY <1>3, <1>4, <2>1
  <2>2. CASE Text' = Append(t, 0)
    <3> DEFINE u == Append(t, 0)
    <3>1. Rising(u) /\ Numbers(u) = Numbers(t) BY <1>3, AppendTells
    <3>2. \A i \in DOMAIN u : (i \in DOMAIN t /\ u[i] = t[i]) \/ u[i] = 0 BY <1>3
    <3> HIDE DEF u
    <3>3. \A i \in DOMAIN u : u[i] <= decided BY <1>1, <1>4, <3>2
    <3> QED BY <2>2, <3>1, <3>3 DEF u
  <2> QED BY <1>2, <2>1, <2>2
<1>6. TextInv' BY <1>5 DEF TextInv
<1>7. Told' = Numbers(t) BY <1>5 DEF Told, Legible, Numbers
<1> QED BY <1>3, <1>6, <1>7, LosesBlock

\* Every step of the request log is a step of the abstract log, or none.
LEMMA DecisionStep ==
  ASSUME TextInv, [RequestLogNext]_requestLogVars
  PROVE  /\ TextInv'
         /\ Decisions!Record \/ Decisions!Miss \/ Decisions!Lose \/ UNCHANGED DecisionVars
<1>1. ASSUME NEW outcome \in {"whole", "cut", "torn", "lost"}, Decide(outcome)
      PROVE  TextInv' /\ (Decisions!Record \/ Decisions!Miss)
  BY <1>1, DecideTells
<1>2. CASE Trim
  <2>1. SizeInv' /\ decided' = decided /\ stage = "look" BY <1>2, TrimStep DEF Trim, TextInv
  <2>2. CASE Len(lines) <= LogMax
    <3>1. stage' = "record" /\ lines' = lines BY <1>2, <2>2 DEF Trim
    <3>2. Text' = Text BY <2>1, <3>1 DEF Text
    <3> QED BY <2>1, <3>1, <3>2, TextStays
  <2>3. CASE Len(lines) > LogMax
    <3> DEFINE from == Len(lines) - (LogMax + 1) \div 2 + 2
    <3>1. Len(lines) \in Nat /\ LogMax \in Nat \ {0, 1}
      BY RequestLogAssumption DEF TextInv, SizeInv
    <3>2. from \in Nat /\ from > 0 /\ from <= Len(lines) + 1 BY <2>3, <3>1
    <3>3. /\ tail' = SubSeq(lines, from, Len(lines)) /\ lines' = <<>> /\ stage' = "rewrite"
      BY <1>2, <2>3, <3>1 DEF Trim, RecentHalf
    <3> HIDE DEF from
    <3>4. Text = lines /\ Text' = SubSeq(Text, from, Len(Text)) BY <2>1, <3>3 DEF Text
    <3>5. Len(Text) \in Nat /\ Len(Text) <= Len(Text) /\ from <= Len(Text) + 1 BY <3>1, <3>2, <3>4
    <3> QED BY <2>1, <3>2, <3>3, <3>4, <3>5, TextIsCut
  <2> QED BY <2>2, <2>3, RequestLogAssumption DEF TextInv, SizeInv
<1>3. ASSUME NEW outcome \in {"whole", "cut", "torn"}, NEW k \in 0 .. Len(tail), Rewrite(k, outcome)
      PROVE  TextInv' /\ Decisions!Lose
  <2>1. SizeInv' /\ decided' = decided /\ stage = "rewrite" /\ stage' = "record"
    BY <1>3, RewriteStep DEF Rewrite, TextInv
  <2>2. Text = tail /\ Text' = lines' /\ tail \in Seq(Nat) BY <2>1 DEF Text, TextInv, SizeInv
  <2>3. k \in Nat /\ k <= Len(Text) /\ 1 <= k + 1 BY <2>2
  <2>4. SubSeq(tail, 1, k) \in Seq(Nat) BY <2>2
  <2>5. lines' = SubSeq(tail, 1, k) \/ lines' = Append(SubSeq(tail, 1, k), 0)
    <3>1. CASE outcome = "torn"
      <4>1. lines' = SubSeq(tail, 1, k) \o <<0>> BY <1>3, <3>1 DEF Rewrite
      <4> QED BY <2>4, <4>1
    <3>2. CASE outcome # "torn"
      <4>1. lines' = SubSeq(tail, 1, k) \o <<>> BY <1>3, <3>2 DEF Rewrite
      <4> QED BY <2>4, <4>1
    <3> QED BY <3>1, <3>2
  <2> QED BY <2>1, <2>2, <2>3, <2>5, TextIsCut
<1>4. CASE Restarted
  <2>1. stage' = "record" /\ tail' = <<>> /\ lines' = lines /\ decided' = decided
    BY <1>4 DEF Restarted
  <2>2. SizeInv' BY <1>4, SetbackStep DEF TextInv
  <2>3. CASE stage # "rewrite"
    <3>1. Text' = Text BY <2>1, <2>3 DEF Text
    <3> QED BY <2>1, <2>2, <3>1, TextStays
  <2>4. CASE stage = "rewrite"
    <3>1. lines = <<>> /\ Text' = <<>> BY <2>1, <2>4 DEF Text, TextInv
    <3>2. SubSeq(Text, 1, 0) = <<>> /\ Len(Text) \in Nat BY ToldIsCounted
    <3>3. Text' = SubSeq(Text, 1, 0) BY <3>1, <3>2
    <3>4. 1 <= 0 + 1 /\ 0 <= Len(Text) /\ 1 > 0 /\ 1 \in Nat /\ 0 \in Nat BY <3>2
    <3>5. stage' # "rewrite" BY <2>1
    <3> QED BY <2>1, <2>2, <3>3, <3>4, <3>5, TextIsCut
  <2> QED BY <2>3, <2>4
<1>5. CASE TrimFails
  <2>1. stage = "look" /\ stage' = "record" /\ UNCHANGED <<lines, decided>> BY <1>5 DEF TrimFails
  <2>2. Text' = Text BY <2>1 DEF Text
  <2>3. SizeInv' BY <1>5, SetbackStep DEF TextInv
  <2> QED BY <2>1, <2>2, <2>3, TextStays
<1>6. CASE UNCHANGED requestLogVars
  <2>1. SizeInv' /\ Text' = Text /\ UNCHANGED <<decided, stage, lines>>
    BY <1>6 DEF requestLogVars, TextInv, SizeInv, Since, Allowed, Text
  <2> QED BY <2>1, TextStays DEF TextInv
<1> QED BY <1>1, <1>2, <1>3, <1>4, <1>5, <1>6, Zenon DEF RequestLogNext

\* Whatever is trimmed, cut or killed, and whenever: the file implements a log from
\* which decisions are lost in blocks.
THEOREM RequestLogImplementsLog == RequestLogSpec => RequestLogIsALog
<1>1. RequestLogInit => TextInv /\ Decisions!LogInit
  <2> SUFFICES ASSUME RequestLogInit PROVE TextInv /\ Decisions!LogInit OBVIOUS
  <2>1. SizeInv /\ Text = <<>> /\ lines = <<>> /\ decided = 0
    BY SizeInitially DEF RequestLogInit, Text
  <2>2. Told = {} /\ ToldBefore = {} BY <2>1 DEF Told, Legible, ToldBefore
  <2>3. TextInv BY <2>1 DEF TextInv, Rising
  <2> QED BY <2>1, <2>2, <2>3 DEF Decisions!LogInit, ToldBefore
<1>2. TextInv /\ [RequestLogNext]_requestLogVars
        => TextInv' /\ [Decisions!Record \/ Decisions!Miss \/ Decisions!Lose]_DecisionVars
  BY DecisionStep
<1> QED BY <1>1, <1>2, PTL
        DEF RequestLogSpec, RequestLogIsALog, Decisions!LogSpec, DecisionVars, ToldBefore
=============================================================================
