-------------------------- MODULE ModelsConfigProofs --------------------------
(***************************************************************************)
(* The model file, for any number of launches, crashes and edits.          *)
(***************************************************************************)
EXTENDS ModelsConfig, TLAPS

\* What Next is made of.
LEMMA ConfigCases ==
  ASSUME [ConfigNext]_configVars
  PROVE  \/ \E l \in Launches, request \in Request : Begin(l, request)
         \/ \E l \in Launches : Look(l)
         \/ \E l \in Launches : Aside(l)
         \/ \E l \in Launches : Read(l)
         \/ \E l \in Launches : OpenTmp(l)
         \/ \E l \in Launches, overlaid \in BOOLEAN : WriteTmp(l, overlaid)
         \/ \E l \in Launches : Replace(l)
         \/ \E l \in Launches : Mark(l)
         \/ \E l \in Launches : Crash(l)
         \/ \E content \in Texts : UserWrites(content)
         \/ TakeOver
         \/ UNCHANGED configVars
  BY Zenon DEF ConfigNext, Step

LEMMA NothingType == Nothing \in Providers
  BY DEF Nothing, Providers

\* What a file contains: only what was opened is empty, only a text is whole.
LEMMA ContentFacts ==
  /\ \A data \in Providers :
        /\ Whole(data) \in Contents /\ Whole(data) # Empty
        /\ Whole(data).state = "whole" /\ Whole(data).data = data
  /\ {Empty, Garbled, Broken} \subseteq Contents
  /\ Garbled # Empty
  /\ Absent \notin Contents
  /\ \A c \in Texts : c \in Contents /\ c.state \in {"whole", "broken"} /\ c # Empty
  /\ \A c \in Contents : c.data \in Providers
  /\ \A c \in Contents : c.state # "whole" => c.data = Nothing
<1> USE NothingType
<1>1. \A data \in Providers :
        /\ Whole(data) \in Contents /\ Whole(data) # Empty
        /\ Whole(data).state = "whole" /\ Whole(data).data = data
  BY DEF Contents, Written, Whole, Empty
<1>2. {Empty, Garbled, Broken} \subseteq Contents /\ Garbled # Empty /\ Broken # Empty
  BY DEF Contents, Garbled, Empty, Broken
<1>3. Absent \notin Contents BY ConfigAssumption
<1>4. ASSUME NEW c \in Texts
      PROVE  c \in Contents /\ c.state \in {"whole", "broken"} /\ c # Empty
  <2>1. CASE c \in Written BY <2>1 DEF Contents, Written, Whole, Empty
  <2>2. CASE c = Broken BY <2>2 DEF Contents, Broken, Empty
  <2> QED BY <2>1, <2>2, ConfigAssumption
<1>5. ASSUME NEW c \in Contents
      PROVE  c.data \in Providers /\ (c.state # "whole" => c.data = Nothing)
  <2>1. CASE c \in Written BY <2>1 DEF Written, Whole
  <2>2. CASE c \in {Empty, Garbled, Broken} BY <2>2 DEF Empty, Garbled, Broken
  <2> QED BY <2>1, <2>2 DEF Contents
<1> QED BY <1>1, <1>2, <1>3, <1>4, <1>5

\* A block in its place leaves a mapping of providers.
LEMMA BlockType ==
  ASSUME NEW data \in Providers, NEW request \in Request
  PROVE  [data EXCEPT ![request.name] = request.block] \in Providers
  BY DEF Providers, Request

LEMMA MovedType ==
  ASSUME ConfigTypeOK, NEW to \in {"live", "backup"}, NEW from
  PROVE  /\ Moved(from, to) \in [Launches -> {"none", "tmp", "live", "backup", "gone"}]
         /\ \A l \in Launches : fd[l] = "none" /\ from # "none" => Moved(from, to)[l] = "none"
  BY DEF Moved, ConfigTypeOK

\* Every variable keeps its type; a launch has a provider to write exactly while
\* it runs, and a file open only while it writes.
LEMMA ConfigTypeStep ==
  ASSUME ConfigTypeOK, [ConfigNext]_configVars
  PROVE  ConfigTypeOK'
<1> USE ContentFacts, NothingType, ConfigAssumption
<1> USE DEF ConfigTypeOK, Goto, Ends, Disturb, Stages, files, bounds, Edit, Entrusts
<1>1. ASSUME NEW l \in Launches, NEW request \in Request, Begin(l, request)
      PROVE  ConfigTypeOK'
  <2>1. request # Absent BY DEF Request
  <2> QED BY <1>1, <2>1 DEF Begin
<1>2. ASSUME NEW l \in Launches, Look(l) PROVE ConfigTypeOK' BY <1>2 DEF Look
<1>3. ASSUME NEW l \in Launches, Aside(l) PROVE ConfigTypeOK'
  <2>1. CASE live = Absent BY <1>3, <2>1 DEF Aside
  <2>2. CASE live # Absent BY <1>3, <2>2, MovedType DEF Aside
  <2> QED BY <2>1, <2>2
<1>4. ASSUME NEW l \in Launches, Read(l) PROVE ConfigTypeOK' BY <1>4 DEF Read
<1>5. ASSUME NEW l \in Launches, OpenTmp(l) PROVE ConfigTypeOK'
  <2>1. config' = [config EXCEPT ![l] = [config[l] EXCEPT ![want[l].name] = want[l].block]]
    BY <1>5 DEF OpenTmp
  <2>2. want[l] \in Request BY <1>5 DEF OpenTmp
  <2>3. config' \in [Launches -> Providers] BY <2>1, <2>2, BlockType
  <2> QED BY <1>5, <2>3 DEF OpenTmp
<1>6. ASSUME NEW l \in Launches, NEW overlaid \in BOOLEAN, WriteTmp(l, overlaid)
      PROVE  ConfigTypeOK'
  <2>1. {live', backup', tmp'} \subseteq Contents \cup {Absent} BY <1>6 DEF WriteTmp
  <2> QED BY <1>6, <2>1 DEF WriteTmp
<1>7. ASSUME NEW l \in Launches, Replace(l) PROVE ConfigTypeOK'
  <2>1. CASE tmp = Absent BY <1>7, <2>1 DEF Replace
  <2>2. CASE tmp # Absent BY <1>7, <2>2, MovedType DEF Replace
  <2> QED BY <2>1, <2>2
<1>8. ASSUME NEW l \in Launches, Mark(l) PROVE ConfigTypeOK' BY <1>8 DEF Mark
<1>9. ASSUME NEW l \in Launches, Crash(l) PROVE ConfigTypeOK' BY <1>9 DEF Crash
<1>10. ASSUME NEW content \in Texts, UserWrites(content) PROVE ConfigTypeOK'
  BY <1>10 DEF UserWrites
<1>11. CASE TakeOver
  <2>1. live \in Contents \cup {Absent} OBVIOUS
  <2>2. entrusted' \in Contents \cup {Absent} BY <1>11, <2>1 DEF TakeOver
  <2>3. UNCHANGED <<format, live, backup, tmp, pc, want, config, fd, crashes, raced>>
    BY <1>11 DEF TakeOver
  <2>4. edits' \in 0 .. MaxEdits /\ quiet' = {} /\ marker' = FALSE BY <1>11 DEF TakeOver
  <2> QED BY <2>2, <2>3, <2>4
<1>12. CASE UNCHANGED configVars BY <1>12 DEF configVars
<1> HIDE ContentFacts, NothingType, ConfigAssumption
    DEF ConfigTypeOK, Goto, Ends, Disturb, Stages, files, bounds, Edit, Entrusts
<1> QED BY ConfigCases, <1>1, <1>2, <1>3, <1>4, <1>5, <1>6, <1>7, <1>8, <1>9, <1>10, <1>11,
           <1>12, Zenon

-----------------------------------------------------------------------------
(* One launch at a time: the temporary file is its own, and the model file  *)
(* is replaced only by what the launch wrote.                               *)

Alone ==
    /\ \A k, l \in Launches : pc[k] # "idle" /\ pc[l] # "idle" => k = l
    /\ \A l \in Launches : pc[l] = "write" => fd[l] = "tmp" /\ tmp = Empty
    /\ \A l \in Launches : pc[l] = "replace" => tmp = Whole(config[l])

SoloInv == ~raced => Alone

LEMMA SoloStep ==
  ASSUME ConfigTypeOK, SoloInv, [ConfigNext]_configVars
  PROVE  SoloInv'
<1> USE DEF ConfigTypeOK, SoloInv, Alone, Goto, Ends, files, bounds, Edit
<1>1. ASSUME NEW l \in Launches, NEW request \in Request, Begin(l, request)
      PROVE  SoloInv'
  BY <1>1 DEF Begin
<1>2. ASSUME NEW l \in Launches, Look(l) PROVE SoloInv' BY <1>2 DEF Look
<1>3. ASSUME NEW l \in Launches, Aside(l) PROVE SoloInv'
  <2>1. CASE live = Absent BY <1>3, <2>1 DEF Aside
  <2>2. CASE live # Absent BY <1>3, <2>2 DEF Aside
  <2> QED BY <2>1, <2>2
<1>4. ASSUME NEW l \in Launches, Read(l) PROVE SoloInv' BY <1>4 DEF Read
<1>5. ASSUME NEW l \in Launches, OpenTmp(l) PROVE SoloInv' BY <1>5 DEF OpenTmp
<1>6. ASSUME NEW l \in Launches, NEW overlaid \in BOOLEAN, WriteTmp(l, overlaid)
      PROVE  SoloInv'
  BY <1>6 DEF WriteTmp
<1>7. ASSUME NEW l \in Launches, Replace(l) PROVE SoloInv'
  <2>1. CASE tmp = Absent BY <1>7, <2>1 DEF Replace
  <2>2. CASE tmp # Absent BY <1>7, <2>2 DEF Replace
  <2> QED BY <2>1, <2>2
<1>8. ASSUME NEW l \in Launches, Mark(l) PROVE SoloInv' BY <1>8 DEF Mark
<1>9. ASSUME NEW l \in Launches, Crash(l) PROVE SoloInv' BY <1>9 DEF Crash
<1>10. ASSUME NEW content \in Texts, UserWrites(content) PROVE SoloInv'
  BY <1>10 DEF UserWrites
<1>11. CASE TakeOver BY <1>11 DEF TakeOver
<1>12. CASE UNCHANGED configVars BY <1>12 DEF configVars
<1> HIDE DEF ConfigTypeOK, SoloInv, Alone, Goto, Ends, files, bounds, Edit
<1> QED BY ConfigCases, <1>1, <1>2, <1>3, <1>4, <1>5, <1>6, <1>7, <1>8, <1>9, <1>10, <1>11,
           <1>12, Zenon

\* Only Aside, WriteTmp, Replace and the user change the model file.
LEMMA LiveStep ==
  ASSUME ConfigTypeOK, SoloInv, LiveIsWhole, [ConfigNext]_configVars
  PROVE  LiveIsWhole'
<1> USE DEF LiveIsWhole
<1>1. ASSUME NEW l \in Launches, NEW request \in Request, Begin(l, request)
      PROVE  LiveIsWhole'
  BY <1>1 DEF Begin, files
<1>2. ASSUME NEW l \in Launches, Look(l) PROVE LiveIsWhole' BY <1>2 DEF Look, files
<1>3. ASSUME NEW l \in Launches, Aside(l) PROVE LiveIsWhole' BY <1>3 DEF Aside
<1>4. ASSUME NEW l \in Launches, Read(l) PROVE LiveIsWhole' BY <1>4 DEF Read, files
<1>5. ASSUME NEW l \in Launches, OpenTmp(l) PROVE LiveIsWhole' BY <1>5 DEF OpenTmp
<1>6. ASSUME NEW l \in Launches, NEW overlaid \in BOOLEAN, WriteTmp(l, overlaid)
      PROVE  LiveIsWhole'
  BY <1>6 DEF WriteTmp, SoloInv, Alone
<1>7. ASSUME NEW l \in Launches, Replace(l) PROVE LiveIsWhole'
  <2>1. CASE tmp = Absent BY <1>7, <2>1 DEF Replace
  <2>2. CASE tmp # Absent
    <3>1. ~raced => tmp = Whole(config[l]) BY <1>7 DEF SoloInv, Alone, Replace
    <3>2. config[l] \in Providers BY DEF ConfigTypeOK
    <3>3. live' = tmp /\ raced' = raced BY <1>7, <2>2 DEF Replace
    <3> QED BY <3>1, <3>2, <3>3, ContentFacts
  <2> QED BY <2>1, <2>2
<1>8. ASSUME NEW l \in Launches, Mark(l) PROVE LiveIsWhole' BY <1>8 DEF Mark
<1>9. ASSUME NEW l \in Launches, Crash(l) PROVE LiveIsWhole' BY <1>9 DEF Crash, files
<1>10. ASSUME NEW content \in Texts, UserWrites(content) PROVE LiveIsWhole'
  BY <1>10, ContentFacts DEF UserWrites
<1>11. CASE TakeOver BY <1>11 DEF TakeOver
<1>12. CASE UNCHANGED configVars BY <1>12 DEF configVars, files
<1> HIDE DEF LiveIsWhole
<1> QED BY ConfigCases, <1>1, <1>2, <1>3, <1>4, <1>5, <1>6, <1>7, <1>8, <1>9, <1>10, <1>11,
           <1>12, Zenon

-----------------------------------------------------------------------------
(* The user's file is in its backup, or still in place, unmarked, and no     *)
(* launch has passed the point at which it is moved aside.                   *)

Early == \A l \in Launches : pc[l] \in {"idle", "look", "aside"}

Kept ==
    /\ entrusted # Absent =>
          \/ entrusted = backup
          \/ backup = Absent /\ entrusted = live /\ ~marker /\ Early
    /\ \A l \in Launches : pc[l] = "aside" => ~marker /\ backup = Absent /\ live # Absent
    /\ crashes = 0 => backup \in {Absent, entrusted}
    /\ crashes = 0 /\ ~marker /\ backup = Absent /\ live # Absent /\ Early => entrusted = live

KeptInv == ~raced => Kept

LEMMA KeptStep ==
  ASSUME ConfigTypeOK, SoloInv, KeptInv, [ConfigNext]_configVars
  PROVE  KeptInv'
<1> USE DEF ConfigTypeOK, SoloInv, Alone, KeptInv, Kept, Early, Goto, Ends, files, bounds, Edit
<1>1. ASSUME NEW l \in Launches, NEW request \in Request, Begin(l, request)
      PROVE  KeptInv'
  BY <1>1 DEF Begin
<1>2. ASSUME NEW l \in Launches, Look(l) PROVE KeptInv'
  <2>1. CASE live # Absent /\ ~marker /\ backup = Absent BY <1>2, <2>1 DEF Look
  <2>2. CASE ~(live # Absent /\ ~marker /\ backup = Absent)
    <3>1. pc' = [pc EXCEPT ![l] = pc'[l]] /\ pc'[l] \in {"open", "read"}
      BY <1>2, <2>2 DEF Look
    <3>2. pc[l] = "look" /\ UNCHANGED <<files, want, config, fd, bounds, raced, entrusted>>
      BY <1>2 DEF Look
    <3> QED BY <2>2, <3>1, <3>2
  <2> QED BY <2>1, <2>2
<1>3. ASSUME NEW l \in Launches, Aside(l) PROVE KeptInv'
  <2>1. CASE live = Absent BY <1>3, <2>1 DEF Aside
  <2>2. CASE live # Absent BY <1>3, <2>2 DEF Aside
  <2> QED BY <2>1, <2>2
<1>4. ASSUME NEW l \in Launches, Read(l) PROVE KeptInv' BY <1>4 DEF Read
<1>5. ASSUME NEW l \in Launches, OpenTmp(l) PROVE KeptInv' BY <1>5 DEF OpenTmp
<1>6. ASSUME NEW l \in Launches, NEW overlaid \in BOOLEAN, WriteTmp(l, overlaid)
      PROVE  KeptInv'
  BY <1>6 DEF WriteTmp
<1>7. ASSUME NEW l \in Launches, Replace(l) PROVE KeptInv'
  <2>1. CASE tmp = Absent
    <3>1. raced
      <4>1. config[l] \in Providers OBVIOUS
      <4>2. Whole(config[l]) # Absent BY <4>1, ContentFacts
      <4> QED BY <1>7, <2>1, <4>2 DEF Replace
    <3> QED BY <1>7, <3>1 DEF Replace
  <2>2. CASE tmp # Absent BY <1>7, <2>2 DEF Replace
  <2> QED BY <2>1, <2>2
<1>8. ASSUME NEW l \in Launches, Mark(l) PROVE KeptInv' BY <1>8 DEF Mark
<1>9. ASSUME NEW l \in Launches, Crash(l) PROVE KeptInv' BY <1>9, ConfigAssumption DEF Crash
<1>10. ASSUME NEW content \in Texts, UserWrites(content) PROVE KeptInv'
  BY <1>10, ContentFacts DEF UserWrites, Entrusts
<1>11. CASE TakeOver BY <1>11 DEF TakeOver, Entrusts
<1>12. CASE UNCHANGED configVars BY <1>12 DEF configVars
<1> HIDE DEF ConfigTypeOK, SoloInv, Alone, KeptInv, Kept, Early, Goto, Ends, files, bounds, Edit
<1> QED BY ConfigCases, <1>1, <1>2, <1>3, <1>4, <1>5, <1>6, <1>7, <1>8, <1>9, <1>10, <1>11,
           <1>12, Zenon

-----------------------------------------------------------------------------
(* Any number of launches at once, none of them interrupted: what is empty   *)
(* has somebody who will write to it, and what is missing somebody who has   *)
(* still to put a file there.                                                *)

Filled ==
    /\ tmp = Empty => \E l \in Launches : fd[l] = "tmp"
    /\ live = Empty => \E l \in Launches : fd[l] = "live"
    /\ live = Absent /\ (marker \/ \E l \in Launches : pc[l] = "mark") =>
          \/ \E l \in Launches : pc[l] = "open"
          \/ tmp # Absent /\ \E l \in Launches : pc[l] \in {"write", "replace"}

TextInv == crashes = 0 => Filled

LEMMA TextStep ==
  ASSUME ConfigTypeOK, TextInv, [ConfigNext]_configVars
  PROVE  TextInv'
<1> USE ContentFacts
<1> USE DEF ConfigTypeOK, TextInv, Filled, Goto, Ends, files, bounds, Edit
<1>1. ASSUME NEW l \in Launches, NEW request \in Request, Begin(l, request)
      PROVE  TextInv'
  BY <1>1 DEF Begin
<1>2. ASSUME NEW l \in Launches, Look(l) PROVE TextInv' BY <1>2 DEF Look
<1>3. ASSUME NEW l \in Launches, Aside(l) PROVE TextInv'
  <2>1. CASE live = Absent BY <1>3, <2>1 DEF Aside
  <2>2. CASE live # Absent BY <1>3, <2>2 DEF Aside, Moved
  <2> QED BY <2>1, <2>2
<1>4. ASSUME NEW l \in Launches, Read(l) PROVE TextInv' BY <1>4 DEF Read
<1>5. ASSUME NEW l \in Launches, OpenTmp(l) PROVE TextInv' BY <1>5 DEF OpenTmp
<1>6. ASSUME NEW l \in Launches, NEW overlaid \in BOOLEAN, WriteTmp(l, overlaid)
      PROVE  TextInv'
  BY <1>6 DEF WriteTmp
<1>7. ASSUME NEW l \in Launches, Replace(l) PROVE TextInv'
  <2>1. CASE tmp = Absent BY <1>7, <2>1 DEF Replace
  <2>2. CASE tmp # Absent BY <1>7, <2>2 DEF Replace, Moved
  <2> QED BY <2>1, <2>2
<1>8. ASSUME NEW l \in Launches, Mark(l) PROVE TextInv' BY <1>8 DEF Mark
<1>9. ASSUME NEW l \in Launches, Crash(l) PROVE TextInv' BY <1>9, ConfigAssumption DEF Crash
<1>10. ASSUME NEW content \in Texts, UserWrites(content) PROVE TextInv'
  BY <1>10 DEF UserWrites
<1>11. CASE TakeOver BY <1>11 DEF TakeOver
<1>12. CASE UNCHANGED configVars BY <1>12 DEF configVars
<1> HIDE ContentFacts
    DEF ConfigTypeOK, TextInv, Filled, Goto, Ends, files, bounds, Edit
<1> QED BY ConfigCases, <1>1, <1>2, <1>3, <1>4, <1>5, <1>6, <1>7, <1>8, <1>9, <1>10, <1>11,
           <1>12, Zenon

-----------------------------------------------------------------------------
(* A launch that nobody disturbs: what it has in memory is the file that it  *)
(* looked at, with its own block in it.                                      *)

Kin == IF format = "json" /\ marker /\ live # Absent THEN live.data ELSE Nothing

\* Until it has read, a launch has nothing in memory.
BlankInv ==
    \A l \in Launches : pc[l] \in {"idle", "look", "aside", "read"} => config[l] = Nothing

Merged(l) == [Kin EXCEPT ![want[l].name] = want[l].block]

Undisturbed(l) ==
    /\ pc[l] \notin {"idle", "look"}
    /\ pc[l] = "aside" => ~marker /\ live # Absent
    /\ pc[l] = "read" => marker /\ format = "json" /\ live # Absent
    /\ pc[l] = "open" => config[l] = Kin
    /\ pc[l] = "write" => config[l] = Merged(l) /\ fd[l] = "tmp" /\ tmp = Empty
    /\ pc[l] = "replace" => config[l] = Merged(l) /\ tmp = Whole(config[l])

MergeInv == \A l \in quiet : Undisturbed(l)

QuietInv == BlankInv /\ MergeInv

LEMMA BlankStep ==
  ASSUME ConfigTypeOK, BlankInv, [ConfigNext]_configVars
  PROVE  BlankInv'
<1> USE DEF ConfigTypeOK, BlankInv, Goto, Ends
<1>1. ASSUME NEW l \in Launches, NEW request \in Request, Begin(l, request)
      PROVE  BlankInv'
  BY <1>1 DEF Begin
<1>2. ASSUME NEW l \in Launches, Look(l) PROVE BlankInv' BY <1>2 DEF Look
<1>3. ASSUME NEW l \in Launches, Aside(l) PROVE BlankInv' BY <1>3 DEF Aside
<1>4. ASSUME NEW l \in Launches, Read(l) PROVE BlankInv' BY <1>4 DEF Read
<1>5. ASSUME NEW l \in Launches, OpenTmp(l) PROVE BlankInv' BY <1>5 DEF OpenTmp
<1>6. ASSUME NEW l \in Launches, NEW overlaid \in BOOLEAN, WriteTmp(l, overlaid)
      PROVE  BlankInv'
  BY <1>6 DEF WriteTmp
<1>7. ASSUME NEW l \in Launches, Replace(l) PROVE BlankInv' BY <1>7 DEF Replace
<1>8. ASSUME NEW l \in Launches, Mark(l) PROVE BlankInv' BY <1>8 DEF Mark
<1>9. ASSUME NEW l \in Launches, Crash(l) PROVE BlankInv' BY <1>9 DEF Crash
<1>10. ASSUME NEW content \in Texts, UserWrites(content) PROVE BlankInv'
  BY <1>10 DEF UserWrites
<1>11. CASE TakeOver BY <1>11 DEF TakeOver
<1>12. CASE UNCHANGED configVars BY <1>12 DEF configVars
<1> HIDE DEF ConfigTypeOK, BlankInv, Goto, Ends
<1> QED BY ConfigCases, <1>1, <1>2, <1>3, <1>4, <1>5, <1>6, <1>7, <1>8, <1>9, <1>10, <1>11,
           <1>12, Zenon

LEMMA QuietStep ==
  ASSUME ConfigTypeOK, QuietInv, [ConfigNext]_configVars
  PROVE  MergeInv'
<1> USE DEF ConfigTypeOK, QuietInv, BlankInv, MergeInv, Undisturbed, Merged, Kin,
            Goto, Ends, Disturb, files, bounds, Edit
<1>1. ASSUME NEW l \in Launches, NEW request \in Request, Begin(l, request)
      PROVE  MergeInv'
  BY <1>1 DEF Begin
<1>2. ASSUME NEW l \in Launches, Look(l) PROVE MergeInv' BY <1>2 DEF Look
<1>3. ASSUME NEW l \in Launches, Aside(l) PROVE MergeInv'
  <2>1. CASE live = Absent BY <1>3, <2>1 DEF Aside
  <2>2. CASE live # Absent BY <1>3, <2>2 DEF Aside
  <2> QED BY <2>1, <2>2
<1>4. ASSUME NEW l \in Launches, Read(l) PROVE MergeInv'
  <2>1. live # Absent /\ live.state # "whole" => live.data = Nothing BY ContentFacts
  <2> QED BY <1>4, <2>1 DEF Read
<1>5. ASSUME NEW l \in Launches, OpenTmp(l) PROVE MergeInv' BY <1>5 DEF OpenTmp
<1>6. ASSUME NEW l \in Launches, NEW overlaid \in BOOLEAN, WriteTmp(l, overlaid)
      PROVE  MergeInv'
  BY <1>6 DEF WriteTmp
<1>7. ASSUME NEW l \in Launches, Replace(l) PROVE MergeInv'
  <2>1. CASE tmp = Absent BY <1>7, <2>1 DEF Replace
  <2>2. CASE tmp # Absent BY <1>7, <2>2 DEF Replace
  <2> QED BY <2>1, <2>2
<1>8. ASSUME NEW l \in Launches, Mark(l) PROVE MergeInv' BY <1>8 DEF Mark
<1>9. ASSUME NEW l \in Launches, Crash(l) PROVE MergeInv' BY <1>9 DEF Crash
<1>10. ASSUME NEW content \in Texts, UserWrites(content) PROVE MergeInv'
  BY <1>10 DEF UserWrites
<1>11. CASE TakeOver BY <1>11 DEF TakeOver
<1>12. CASE UNCHANGED configVars BY <1>12 DEF configVars
<1> HIDE DEF ConfigTypeOK, QuietInv, BlankInv, MergeInv, Undisturbed, Merged, Kin,
             Goto, Ends, Disturb, files, bounds, Edit
<1> QED BY ConfigCases, <1>1, <1>2, <1>3, <1>4, <1>5, <1>6, <1>7, <1>8, <1>9, <1>10, <1>11,
           <1>12, Zenon

\* The step that puts the file in place puts there what the launch has merged.
LEMMA MergeStep ==
  ASSUME ConfigTypeOK, QuietInv, [ConfigNext]_configVars,
         NEW l \in Launches, pc[l] = "replace", pc'[l] = "mark", l \in quiet
  PROVE  live' = Whole(Merged(l))
<1> USE DEF ConfigTypeOK, Goto, Ends
<1>1. ASSUME NEW k \in Launches, Replace(k) PROVE live' = Whole(Merged(l))
  <2>1. k = l BY <1>1 DEF Replace
  <2>2. tmp # Absent BY <1>1, <2>1 DEF Replace
  <2>3. live' = tmp BY <1>1, <2>2 DEF Replace
  <2> QED BY <2>3 DEF QuietInv, MergeInv, Undisturbed
<1>2. ASSUME NEW k \in Launches, NEW request \in Request, Begin(k, request) PROVE FALSE
  BY <1>2 DEF Begin
<1>3. ASSUME NEW k \in Launches, Look(k) PROVE FALSE BY <1>3 DEF Look
<1>4. ASSUME NEW k \in Launches, Aside(k) PROVE FALSE BY <1>4 DEF Aside
<1>5. ASSUME NEW k \in Launches, Read(k) PROVE FALSE BY <1>5 DEF Read
<1>6. ASSUME NEW k \in Launches, OpenTmp(k) PROVE FALSE BY <1>6 DEF OpenTmp
<1>7. ASSUME NEW k \in Launches, NEW overlaid \in BOOLEAN, WriteTmp(k, overlaid) PROVE FALSE
  BY <1>7 DEF WriteTmp
<1>8. ASSUME NEW k \in Launches, Mark(k) PROVE FALSE BY <1>8 DEF Mark
<1>9. ASSUME NEW k \in Launches, Crash(k) PROVE FALSE BY <1>9 DEF Crash
<1>10. ASSUME NEW content \in Texts, UserWrites(content) PROVE FALSE BY <1>10 DEF UserWrites
<1>11. ASSUME TakeOver PROVE FALSE BY <1>11 DEF TakeOver
<1>12. ASSUME UNCHANGED configVars PROVE FALSE BY <1>12 DEF configVars
<1> HIDE DEF ConfigTypeOK, Goto, Ends
<1> QED BY ConfigCases, <1>1, <1>2, <1>3, <1>4, <1>5, <1>6, <1>7, <1>8, <1>9, <1>10, <1>11,
           <1>12, Zenon

-----------------------------------------------------------------------------
(* The theorems.                                                           *)

ConfigInv ==
    /\ ConfigTypeOK
    /\ SoloInv
    /\ LiveIsWhole
    /\ KeptInv
    /\ TextInv
    /\ QuietInv

\* All that the theorems below rest on: every step of a launch or of the user
\* keeps it.
THEOREM ConfigInvariant == ConfigSpec => []ConfigInv
<1>1. ConfigInit => ConfigInv
  <2> SUFFICES ASSUME ConfigInit PROVE ConfigInv OBVIOUS
  <2> USE DEF ConfigInit
  <2>1. live \in Contents \cup {Absent} /\ live # Empty
    BY ContentFacts DEF Contents
  <2>2. ConfigTypeOK
    <3>1. {live, backup, tmp, entrusted} \subseteq Contents \cup {Absent} BY <2>1
    <3>2. pc \in [Launches -> Stages] /\ fd \in [Launches -> {"none", "tmp", "live", "backup", "gone"}]
      BY DEF Stages
    <3>3. want \in [Launches -> Request \cup {Absent}] /\ config \in [Launches -> Providers]
      BY NothingType
    <3>4. crashes \in 0 .. MaxCrashes /\ edits \in 0 .. MaxEdits BY ConfigAssumption
    <3> QED BY <3>1, <3>2, <3>3, <3>4 DEF ConfigTypeOK
  <2>3. SoloInv /\ KeptInv BY DEF SoloInv, Alone, KeptInv, Kept, Early
  <2>4. LiveIsWhole BY ContentFacts DEF LiveIsWhole
  <2>5. TextInv BY <2>1, ContentFacts DEF TextInv, Filled
  <2>6. QuietInv BY DEF QuietInv, BlankInv, MergeInv
  <2> QED BY <2>2, <2>3, <2>4, <2>5, <2>6 DEF ConfigInv
<1>2. ConfigInv /\ [ConfigNext]_configVars => ConfigInv'
  <2> SUFFICES ASSUME ConfigInv, [ConfigNext]_configVars PROVE ConfigInv' OBVIOUS
  <2>1. ConfigTypeOK' /\ SoloInv' BY ConfigTypeStep, SoloStep DEF ConfigInv
  <2>2. LiveIsWhole' /\ KeptInv' /\ TextInv' BY LiveStep, KeptStep, TextStep DEF ConfigInv
  <2>3. QuietInv' BY BlankStep, QuietStep DEF ConfigInv, QuietInv
  <2> QED BY <2>1, <2>2, <2>3 DEF ConfigInv
<1> QED BY <1>1, <1>2, PTL DEF ConfigSpec

\* Every variable of the model file's protocol keeps its type.
THEOREM ConfigTypeCorrect == ConfigSpec => []ConfigTypeOK
<1>1. ConfigInv => ConfigTypeOK BY DEF ConfigInv
<1> QED BY <1>1, ConfigInvariant, PTL

\* os.replace (models_config.py:150) never shows a half-written model file, as
\* long as one launch at a time is on it.
THEOREM NeverHalfWritten == ConfigSpec => []LiveIsWhole
<1>1. ConfigInv => LiveIsWhole BY DEF ConfigInv
<1> QED BY <1>1, ConfigInvariant, PTL

\* The file that the user had before the first backup is never lost, wherever a
\* launch is interrupted.
THEOREM UserFileSurvives == ConfigSpec => []UserFileKept
<1>1. ConfigInv => UserFileKept BY DEF ConfigInv, KeptInv, Kept, UserFileKept
<1> QED BY <1>1, ConfigInvariant, PTL

\* Without an interruption the backup is the user's own file.
THEOREM BackupIsOriginal == ConfigSpec => []BackupIsTheUsers
<1>1. ConfigInv => BackupIsTheUsers BY DEF ConfigInv, KeptInv, Kept, BackupIsTheUsers
<1> QED BY <1>1, ConfigInvariant, PTL

\* Any number of launches at once leave a file with a text, if none of them is
\* interrupted.
THEOREM LaunchesLeaveText == ConfigSpec => []SettledHasText
<1>1. ConfigInv => SettledHasText
  BY DEF ConfigInv, TextInv, Filled, SettledHasText, ConfigTypeOK
<1> QED BY <1>1, ConfigInvariant, PTL

\* A launch that nobody disturbs changes its own provider block only.
THEOREM MergesOnlyItsBlock == ConfigSpec => LaunchMerges
<1> DEFINE
      OwnBlock ==
        \A l \in Launches :
           pc[l] = "replace" /\ pc'[l] = "mark" /\ l \in quiet =>
              LET kept == IF format = "json" /\ marker /\ live # Absent THEN live.data ELSE Nothing
              IN  live' = Whole([kept EXCEPT ![want[l].name] = want[l].block])
<1>1. ConfigInv /\ [ConfigNext]_configVars => [OwnBlock]_configVars
  <2> SUFFICES ASSUME ConfigInv, [ConfigNext]_configVars PROVE OwnBlock OBVIOUS
  <2> QED BY MergeStep DEF ConfigInv, Merged, Kin
<1> HIDE DEF OwnBlock
<1>2. ConfigSpec => [][OwnBlock]_configVars BY <1>1, ConfigInvariant, PTL DEF ConfigSpec
<1>3. [][OwnBlock]_configVars <=> LaunchMerges BY DEF OwnBlock, LaunchMerges
<1> QED BY <1>2, <1>3
=============================================================================
