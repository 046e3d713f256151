-------------------------- MODULE ToolchainProofs --------------------------
(***************************************************************************)
(* Theorems about Toolchain for any number of build directories, of users  *)
(* who bootstrap by hand and of configures.  BootInv says why a bootstrap  *)
(* that is alone ends with a whole executable: what it has checked is what *)
(* it moves.  ModeInv relates the cached check of the mode to the modes    *)
(* of past configures, ErrorInv the flag to the errors that were raised.   *)
(***************************************************************************)
EXTENDS Toolchain, TLAPS

\* As long as no two bootstraps have overlapped.
BootInv ==
  ~overlapped =>
    /\ \A a, b \in Actors : boot[a] \in Running /\ boot[b] \in Running => a = b
    /\ exe = NoFile \/ Runs(exe)
    /\ \A a \in Actors : part.data = a => boot[a] = "fetch"
    /\ \A a \in Actors : boot[a] \in {"chmod", "move"} => Whole(part)
    /\ \A a \in Actors : boot[a] = "move" => part.x

\* The bootstrap script has returned to the configure.
Returned(a) ==
  /\ boot[a] \in {"done", "failed"} /\ Goto(a, "idle")
  /\ UNCHANGED <<exe, part, overlapped>>

\* All that may happen to a bootstrap.
BootAction(a) ==
  BootStart(a) \/ Refuse(a) \/ BootStep(a) \/ BootKilled(a) \/ Returned(a)

-----------------------------------------------------------------------------
\* A step of a configure or of a user is, for each script, a step of that script,
\* the return of it, or none.
LEMMA NextIsBootAction ==
  ASSUME Next
  PROVE  UNCHANGED bootVars \/ \E a \in Actors : BootAction(a)
<1>1. ASSUME NEW a \in Actors, BootStep(a)
      PROVE  BootAction(a)
  BY <1>1 DEF BootAction
<1>2. ASSUME NEW a \in Actors, ByHand(a)
      PROVE  BootAction(a)
  BY <1>2 DEF ByHand, BootAction
<1>3. ASSUME NEW d \in Dirs,
             \/ Configure(d) \/ ConfigureWithout(d) \/ Install(d) \/ Report(d)
             \/ EndWithout(d) \/ AddManifest(d) \/ RemoveManifest(d) \/ DeleteBuildDir(d)
             \/ \E option \in OnOff : SetMode(d, option) \/ SetInstall(d, option)
      PROVE  UNCHANGED bootVars
  BY <1>3 DEF Configure, ConfigureWithout, Start, Install, Report, EndWithout, End, AddManifest, RemoveManifest, DeleteBuildDir,
              SetMode, SetInstall, Changes
<1>4. ASSUME NEW d \in Dirs, Exists(d)
      PROVE  UNCHANGED bootVars \/ BootAction(d)
  BY <1>4 DEF Exists, BootAction
<1>5. ASSUME NEW d \in Dirs, Bootstrapped(d)
      PROVE  BootAction(d)
  BY <1>5 DEF Bootstrapped, BootAction, Returned
<1>6. ASSUME NEW d \in Dirs, Kill(d)
      PROVE  BootAction(d)
  BY <1>6 DEF Kill, BootAction
<1> QED
  BY <1>1, <1>2, <1>3, <1>4, <1>5, <1>6, DirsAssumption DEF Next

\* Every step of a script keeps the types of its files.
LEMMA BootActionKeepsType ==
  ASSUME BootTypeOK, NEW a \in Actors, BootAction(a)
  PROVE  BootTypeOK'
<1>1. CASE BootStart(a) \/ Refuse(a) \/ Returned(a) \/ Check(a) \/ Version(a)
  BY <1>1 DEF BootTypeOK, BootStart, Refuse, Returned, Check, Version, Goto, Running
<1>2. CASE RemovePart(a) \/ Open(a) \/ Chmod(a) \/ Move(a)
  <2>1. NoFile \in Files /\ part \in Files /\ exe \in Files
    BY DEF BootTypeOK, Files, NoFile
  <2>2. [part EXCEPT !.data = a] \in Files /\ [part EXCEPT !.x = TRUE] \in Files
    BY <2>1 DEF Files
  <2>3. part' \in Files /\ exe' \in Files
    BY <1>2, <2>1, <2>2 DEF RemovePart, Open, Chmod, Move
  <2>4. PICK step \in Running \cup {"failed"} : Goto(a, step)
    BY <1>2 DEF RemovePart, Open, Chmod, Move, Running
  <2>5. overlapped' = overlapped
    BY <1>2 DEF RemovePart, Open, Chmod, Move
  <2> QED
    BY <2>3, <2>4, <2>5 DEF BootTypeOK, Goto
<1>3. ASSUME NEW data \in {"whole", "wrong"}, Ended(a, data)
      PROVE  exe' \in Files /\ part' \in Files
  BY <1>3 DEF BootTypeOK, Ended, Files
<1>4. CASE Fetched(a) \/ FetchStops(a) \/ BootKilled(a)
  BY <1>3, <1>4 DEF BootTypeOK, Fetched, FetchStops, BootKilled, Goto, Running
<1> QED
  BY <1>1, <1>2, <1>4 DEF BootAction, BootStep

\* A bootstrap that is alone keeps BootInv; one that is not has overlapped.
LEMMA BootActionKeepsInv ==
  ASSUME BootTypeOK, BootInv, NEW a \in Actors, BootAction(a)
  PROVE  BootInv'
<1> SUFFICES ASSUME ~overlapped'
             PROVE  BootInv'
  BY DEF BootInv
<1>1. ~overlapped
  BY DEF BootAction, BootStep, BootStart, Refuse, Returned, BootKilled, RemovePart, Open,
         Fetched, FetchStops, Check, Chmod, Move, Version
<1>2. \A b \in Actors : b # "none" /\ b # "whole" /\ b # "wrong"
  BY ActorsAssumption
<1>3. exe.data \notin Actors
  BY <1>1, <1>2 DEF BootInv, NoFile, Runs, Whole
<1>4. ASSUME NEW data \in {"whole", "wrong"}, Ended(a, data)
      PROVE  /\ exe' = exe
             /\ part.data # a => part' = part
             /\ \A b \in Actors : part'.data = b => part.data = b /\ b # a
  BY <1>2, <1>3, <1>4 DEF Ended, BootTypeOK, Files
<1>5. CASE BootStart(a)
  <2>1. \A b \in Actors : boot'[b] = IF b = a THEN "remove" ELSE boot[b]
    BY <1>5 DEF BootStart, Goto, BootTypeOK
  <2>2. \A b \in Actors \ {a} : boot[b] \notin Running
    BY <1>5 DEF BootStart
  <2>3. part.data # a
    BY <1>1, <1>5 DEF BootInv, BootStart, Running
  <2> QED
    BY <1>1, <1>5, <2>1, <2>2, <2>3 DEF BootInv, BootStart, Running, Runs, Whole
<1>6. ASSUME boot[a] \in Running
      PROVE  \A b \in Actors \ {a} : boot[b] \notin Running
  BY <1>1, <1>6 DEF BootInv
<1>7. CASE RemovePart(a)
  BY <1>1, <1>2, <1>6, <1>7 DEF BootInv, BootTypeOK, RemovePart, Goto, Running, NoFile
<1>8. CASE Open(a)
  BY <1>1, <1>2, <1>6, <1>8 DEF BootInv, BootTypeOK, Open, Goto, Running, Files
<1>9. CASE Chmod(a)
  <2>1. CASE part = NoFile
    BY <1>1, <1>6, <1>9, <2>1 DEF BootInv, BootTypeOK, Chmod, Goto, Running
  <2>2. CASE part # NoFile
    <3>1. part'.data = part.data /\ part'.x
      BY <1>9, <2>2 DEF BootTypeOK, Chmod, Files
    <3>2. Goto(a, "move") /\ exe' = exe /\ Whole(part)
      BY <1>1, <1>9, <2>2 DEF BootInv, Chmod
    <3> QED
      BY <1>1, <1>2, <1>6, <1>9, <3>1, <3>2 DEF BootInv, BootTypeOK, Goto, Running, Whole, Chmod
  <2> QED
    BY <2>1, <2>2
<1>10. CASE Move(a)
  <2>1. Whole(part) /\ part.x /\ part # NoFile
    BY <1>1, <1>10 DEF BootInv, Move, Whole, NoFile
  <2>2. Goto(a, "version") /\ Runs(exe') /\ part' = NoFile
    BY <1>10, <2>1 DEF Move, Runs, Whole
  <2> QED
    BY <1>1, <1>2, <1>6, <1>10, <2>2 DEF BootInv, BootTypeOK, Move, Goto, Running, NoFile
<1>11. ASSUME NEW data \in {"whole", "wrong"}, Ended(a, data),
              NEW step \in {"check", "failed", "idle"}, Goto(a, step),
              step = "check" => boot[a] \in Running
       PROVE  BootInv'
  <2>1. \A b \in Actors \ {a} : boot'[b] = boot[b]
    BY <1>11 DEF Goto, BootTypeOK
  <2>2. boot'[a] = step
    BY <1>11 DEF Goto, BootTypeOK
  <2>3. \A b \in Actors : boot[b] \in {"chmod", "move"} => part' = part
    BY <1>1, <1>4, <1>11 DEF BootInv, Running
  <2> QED
    BY <1>1, <1>4, <1>6, <1>11, <2>1, <2>2, <2>3 DEF BootInv, Running, Runs, Whole
<1>12. CASE Refuse(a) \/ Returned(a) \/ Check(a) \/ Version(a)
  <2>1. PICK step \in {"failed", "idle", "chmod", "done"} : Goto(a, step)
    BY <1>12 DEF Refuse, Returned, Check, Version
  <2>2. \A b \in Actors : boot'[b] = IF b = a THEN step ELSE boot[b]
    BY <2>1 DEF Goto, BootTypeOK
  <2>3. step = "chmod" => boot[a] \in Running /\ Whole(part)
    BY <1>12, <2>1 DEF Refuse, Returned, Check, Version, Goto, BootTypeOK, Running
  <2>4. UNCHANGED <<exe, part>> /\ boot[a] # "fetch"
    BY <1>12 DEF Refuse, Returned, Check, Version, Running
  <2> QED
    BY <1>1, <1>6, <2>2, <2>3, <2>4 DEF BootInv, Running, Runs, Whole
<1>13. CASE Fetched(a) \/ FetchStops(a) \/ BootKilled(a)
  BY <1>11, <1>13 DEF Fetched, FetchStops, BootKilled, Running
<1> QED
  BY <1>5, <1>7, <1>8, <1>9, <1>10, <1>12, <1>13 DEF BootAction, BootStep
-----------------------------------------------------------------------------
\* What TypeOK says of the configures.
ToolTypeOK ==
  /\ manifest \in [Dirs -> BOOLEAN]
  /\ cache \in [Dirs -> Entries] /\ run \in [Dirs -> Entries]
  /\ \A d \in Dirs : pc[d] # "idle" =>
       run[d].dir # Unset /\ {run[d].mode, run[d].check} \subseteq OnOff
  /\ pc \in [Dirs -> Steps]
  /\ hasError \in [Dirs -> BOOLEAN]
  /\ message \in [Dirs -> Seq(Errors)] /\ raised \in [Dirs -> Seq(Errors)]
  /\ result \in [Dirs -> Results]
  /\ first \in [Dirs -> OnOff \cup {Unset}] /\ followed \in [Dirs -> BOOLEAN]
  /\ configures \in [Dirs -> Nat] /\ \A d \in Dirs : configures[d] <= MaxConfigures[d]

\* The cached check is the mode of the first configure that ended, and the mode
\* of a configure that goes well is the one it checked: another one is an error,
\* which a configure without vcpkg does not report.
ModeInv ==
  \A d \in Dirs :
    /\ first[d] = cache[d].check
    /\ result[d] = "success" => cache[d].mode = cache[d].check
    /\ pc[d] # "idle" =>
         /\ result[d] = "none"
         /\ run[d].check = Or(cache[d].check, run[d].mode)
         /\ run[d].mode # run[d].check => hasError[d]

\* No error escapes the flag, and nothing but the end of the configure follows one.
ErrorInv ==
  \A d \in Dirs :
    /\ raised[d] # <<>> => hasError[d]
    /\ hasError[d] => pc[d] \in {"idle", "report", "without"} /\ result[d] # "success"

ToolInv == ToolTypeOK /\ ModeInv /\ ErrorInv
IInv == BootTypeOK /\ BootInv /\ ToolInv

\* The options of a configure are options of a cache.
LEMMA OptionsType ==
  ASSUME NEW c \in Entries, NEW hasManifest \in BOOLEAN
  PROVE  LET o == WithOptions(c, hasManifest) IN
         /\ o \in Entries /\ o.dir # Unset /\ o.mode \in OnOff /\ o.check \in OnOff
         /\ o.check = Or(c.check, o.mode)
<1> DEFINE dir == DirOf(c, hasManifest)
           mode == Or(c.mode, IF dir # "" THEN "ON" ELSE "OFF")
           check == CheckOf(c, mode)
           install == IF mode = "ON" THEN Or(c.install, "ON") ELSE c.install
<1>1. dir \in Dir \ {Unset}
  BY DEF DirOf, Entries, Dir, Unset
<1>2. mode \in OnOff
  BY DEF Or, Entries, OnOff, Unset
<1>3. check \in OnOff /\ check = Or(c.check, mode)
  BY <1>2 DEF CheckOf, Or, Entries, OnOff, Unset
<1>4. install \in OnOff \cup {Unset}
  BY DEF Or, Entries, OnOff, Unset
<1>5. WithOptions(c, hasManifest) =
        [c EXCEPT !.dir = dir, !.mode = mode, !.check = check, !.install = install]
  BY DEF WithOptions
<1> HIDE DEF dir, mode, check, install
<1> QED
  BY <1>1, <1>2, <1>3, <1>4, <1>5 DEF Entries

\* The triplet and the root change nothing else of the cache.
LEMMA LocatedType ==
  ASSUME NEW c \in Entries, NEW found \in BOOLEAN
  PROVE  LET l == Located(c, found) IN
         l \in Entries /\ l.dir = c.dir /\ l.mode = c.mode /\ l.check = c.check
BY DEF Located, Entries

\* The errors of the options, at least one if the mode is not the checked one.
LEMMA ModeErrorsType ==
  ASSUME NEW c \in Entries
  PROVE  /\ ModeErrors(c) \in Seq(Errors)
         /\ c.mode # c.check => ModeErrors(c) # <<>>
<1> DEFINE missing == IF c.mode = "ON" /\ c.dir = "" THEN <<NoManifest>> ELSE <<>>
           changed == IF c.mode = c.check THEN <<>>
                      ELSE IF c.mode = "OFF" THEN <<WasEnabled>> ELSE <<WasDisabled>>
<1>1. <<>> \in Seq(Errors) /\ \A e \in Errors : <<e>> \in Seq(Errors) /\ Len(<<e>>) = 1
  OBVIOUS
<1>2. {NoManifest, WasEnabled, WasDisabled} \subseteq Errors
  BY DEF Errors
<1>3. missing \in Seq(Errors) /\ changed \in Seq(Errors)
  BY <1>1, <1>2, Zenon
<1>4. c.mode # c.check => Len(changed) = 1
  BY <1>1, <1>2
<1>5. ModeErrors(c) = missing \o changed
  BY DEF ModeErrors
<1> HIDE DEF missing, changed
<1>6. missing \o changed \in Seq(Errors) /\ Len(missing) \in Nat
      /\ Len(missing \o changed) = Len(missing) + Len(changed)
  BY <1>3
<1>7. ASSUME c.mode # c.check
      PROVE  missing \o changed # <<>>
  <2>1. Len(missing \o changed) = Len(missing) + 1
    BY <1>4, <1>6, <1>7
  <2> QED
    BY <1>6, <2>1
<1> QED
  BY <1>5, <1>6, <1>7

\* With the root, the errors are at least those of the mode.
LEMMA LocatedErrorsType ==
  ASSUME NEW c \in Entries, NEW found \in BOOLEAN
  PROVE  /\ LocatedErrors(c, found) \in Seq(Errors)
         /\ c.mode # c.check => LocatedErrors(c, found) # <<>>
<1> DEFINE root == IF found THEN <<>> ELSE <<NoRoot>>
<1>1. ModeErrors(c) \in Seq(Errors) /\ (c.mode # c.check => ModeErrors(c) # <<>>)
  BY ModeErrorsType
<1>2. <<>> \in Seq(Errors) /\ <<NoRoot>> \in Seq(Errors)
  BY DEF Errors
<1>3. root \in Seq(Errors)
  BY <1>2, Zenon
<1>4. LocatedErrors(c, found) = ModeErrors(c) \o root
  BY DEF LocatedErrors
<1> HIDE DEF root
<1>5. ModeErrors(c) \o root \in Seq(Errors)
      /\ Len(ModeErrors(c) \o root) = Len(ModeErrors(c)) + Len(root)
      /\ Len(ModeErrors(c)) \in Nat /\ Len(root) \in Nat
  BY <1>1, <1>3
<1>6. ASSUME ModeErrors(c) # <<>>
      PROVE  ModeErrors(c) \o root # <<>>
  <2>1. Len(ModeErrors(c)) > 0
    BY <1>1, <1>6
  <2> QED
    BY <1>5, <2>1
<1> QED
  BY <1>1, <1>4, <1>5, <1>6

\* AddErrors raises the flag if it is given an error.
LEMMA AddErrorsRaises ==
  ASSUME ToolTypeOK, NEW d \in Dirs, NEW has \in BOOLEAN, NEW text \in Seq(Errors),
         NEW errors \in Seq(Errors),
         AddErrors(d, [has |-> has, message |-> text], errors)
  PROVE  /\ hasError' \in [Dirs -> BOOLEAN] /\ message' \in [Dirs -> Seq(Errors)]
         /\ \A e \in Dirs \ {d} : hasError'[e] = hasError[e]
         /\ hasError'[d] <=> has \/ errors # <<>>
<1> DEFINE States == [has : BOOLEAN, message : Seq(Errors)]
           before == [has |-> has, message |-> text]
           one == IF Len(errors) >= 1 THEN Added(before, errors[1]) ELSE before
           two == IF Len(errors) >= 2 THEN Added(one, errors[2]) ELSE one
           now == IF Len(errors) >= 3 THEN Added(two, errors[3]) ELSE two
<1>1. ASSUME NEW s \in States, NEW error \in Errors
      PROVE  Added(s, error) \in States /\ Added(s, error).has
  BY <1>1 DEF Added
<1>2. Len(errors) \in Nat /\ (errors # <<>> <=> Len(errors) >= 1)
  OBVIOUS
<1>3. \A i \in 1..Len(errors) : errors[i] \in Errors
  OBVIOUS
<1>4. hasError' = [hasError EXCEPT ![d] = now.has]
      /\ message' = [message EXCEPT ![d] = now.message]
  BY DEF AddErrors
<1>5. before \in States
  OBVIOUS
<1>6. CASE errors = <<>>
  <2>1. now = before
    BY <1>2, <1>6
  <2>2. now.has = has /\ now.message = text
    BY <2>1
  <2> HIDE DEF now
  <2> QED
    BY <1>4, <1>6, <2>2 DEF ToolTypeOK
<1>7. CASE errors # <<>>
  <2>1. one = Added(before, errors[1]) /\ errors[1] \in Errors
    BY <1>2, <1>3, <1>7
  <2>2. one \in States /\ one.has
    BY <1>1, <1>5, <2>1
  <2> HIDE DEF one
  <2>3. two \in States /\ two.has
    <3>1. CASE Len(errors) >= 2
      <4>1. two = Added(one, errors[2]) /\ errors[2] \in Errors
        BY <1>2, <1>3, <3>1
      <4> QED
        BY <1>1, <2>2, <4>1
    <3>2. CASE ~(Len(errors) >= 2)
      BY <2>2, <3>2
    <3> QED
      BY <3>1, <3>2
  <2> HIDE DEF two
  <2>4. now \in States /\ now.has
    <3>1. CASE Len(errors) >= 3
      <4>1. now = Added(two, errors[3]) /\ errors[3] \in Errors
        BY <1>2, <1>3, <3>1
      <4> QED
        BY <1>1, <2>3, <4>1
    <3>2. CASE ~(Len(errors) >= 3)
      BY <2>3, <3>2
    <3> QED
      BY <3>1, <3>2
  <2> HIDE DEF now
  <2> QED
    BY <1>4, <1>7, <2>4 DEF ToolTypeOK
<1> QED
  BY <1>6, <1>7
-----------------------------------------------------------------------------
\* A configure that starts with a mode that agrees with the check, or an error.
LEMMA StartKeepsInv ==
  ASSUME ToolInv, NEW d \in Dirs, Ready(d),
         NEW c \in Entries, NEW errors \in Seq(Errors), NEW next \in Steps \ {"idle"},
         c.dir # Unset, c.mode \in OnOff, c.check = Or(cache[d].check, c.mode),
         c.mode # c.check => errors # <<>>,
         Start(d, c, errors, next),
         hasError'[d] => next \in {"report", "without"}
  PROVE  ToolInv'
<1> USE DEF ToolInv
<1>1. /\ run' = [run EXCEPT ![d] = c]
      /\ AddErrors(d, [has |-> FALSE, message |-> <<>>], errors)
      /\ raised' = [raised EXCEPT ![d] = errors]
      /\ pc' = [pc EXCEPT ![d] = next]
      /\ result' = [result EXCEPT ![d] = "none"]
      /\ configures' = [configures EXCEPT ![d] = @ + 1] /\ configures[d] < MaxConfigures[d]
      /\ UNCHANGED <<manifest, cache, first, followed>>
  BY DEF Start, Ready
<1>2. /\ hasError' \in [Dirs -> BOOLEAN] /\ message' \in [Dirs -> Seq(Errors)]
      /\ \A e \in Dirs \ {d} : hasError'[e] = hasError[e]
      /\ hasError'[d] <=> errors # <<>>
  <2>1. <<>> \in Seq(Errors)
    OBVIOUS
  <2> QED
    BY <1>1, <2>1, AddErrorsRaises
<1>3. configures' \in [Dirs -> Nat] /\ \A e \in Dirs : configures'[e] <= MaxConfigures[e]
  <2>1. configures \in [Dirs -> Nat] /\ \A e \in Dirs : configures[e] <= MaxConfigures[e]
    BY DEF ToolTypeOK
  <2>2. MaxConfigures[d] \in Nat /\ configures[d] \in Nat
    BY <2>1, ConfiguresAssumption
  <2>3. configures[d] + 1 \in Nat /\ configures[d] + 1 <= MaxConfigures[d]
    BY <1>1, <2>2
  <2>4. configures' = [configures EXCEPT ![d] = configures[d] + 1]
    BY <1>1
  <2> QED
    BY <2>1, <2>3, <2>4
<1>4. c.check \in OnOff
  BY DEF Or, Entries, OnOff, Unset
<1>5. ToolTypeOK'
  <2>1. run' \in [Dirs -> Entries] /\ raised' \in [Dirs -> Seq(Errors)]
        /\ result' \in [Dirs -> Results] /\ pc' \in [Dirs -> Steps]
    BY <1>1 DEF ToolTypeOK, Results
  <2>2. \A e \in Dirs : pc'[e] # "idle" =>
          run'[e].dir # Unset /\ {run'[e].mode, run'[e].check} \subseteq OnOff
    BY <1>1, <1>4 DEF ToolTypeOK
  <2> QED
    BY <1>1, <1>2, <1>3, <2>1, <2>2 DEF ToolTypeOK
<1>6. ModeInv'
  <2>1. result'[d] = "none" /\ run'[d] = c
    BY <1>1 DEF ToolTypeOK
  <2>2. \A e \in Dirs \ {d} : result'[e] = result[e] /\ run'[e] = run[e] /\ pc'[e] = pc[e]
    BY <1>1 DEF ToolTypeOK
  <2> QED
    BY <1>1, <1>2, <2>1, <2>2 DEF ModeInv
<1>7. ErrorInv'
  <2>1. raised'[d] = errors /\ result'[d] = "none" /\ pc'[d] = next
    BY <1>1 DEF ToolTypeOK
  <2>2. \A e \in Dirs \ {d} : /\ raised'[e] = raised[e] /\ result'[e] = result[e]
                              /\ pc'[e] = pc[e]
    BY <1>1 DEF ToolTypeOK
  <2> QED
    BY <1>2, <2>1, <2>2 DEF ErrorInv
<1> QED
  BY <1>5, <1>6, <1>7

\* Both ways to begin, with vcpkg and without, are such starts.
LEMMA ConfigureKeepsInv ==
  ASSUME ToolInv, NEW d \in Dirs, Configure(d) \/ ConfigureWithout(d)
  PROVE  ToolInv'
<1> DEFINE c == WithOptions(cache[d], manifest[d])
<1>1. cache[d] \in Entries /\ manifest[d] \in BOOLEAN
  BY DEF ToolInv, ToolTypeOK
<1>2. /\ c \in Entries /\ c.dir # Unset /\ c.mode \in OnOff
      /\ c.check = Or(cache[d].check, c.mode)
  BY <1>1, OptionsType
<1>3. Ready(d)
  BY DEF Configure, ConfigureWithout
<1>4. CASE Configure(d)
  <2> DEFINE next == IF c.mode = "ON" /\ c.install = "ON" /\ ~hasError'[d]
                     THEN "exists" ELSE "report"
  <2>1. PICK found \in {TRUE, c.root} : Start(d, Located(c, found), LocatedErrors(c, found), next)
    BY <1>4 DEF Configure
  <2>2. next \in Steps \ {"idle"} /\ (hasError'[d] => next \in {"report", "without"})
    BY DEF Steps
  <2> HIDE DEF c, next
  <2>3. found \in BOOLEAN
    BY <1>2 DEF Entries
  <2> DEFINE l == Located(c, found)
             errors == LocatedErrors(c, found)
  <2>4. l \in Entries /\ l.dir = c.dir /\ l.mode = c.mode /\ l.check = c.check
    BY <1>2, <2>3, LocatedType
  <2>5. errors \in Seq(Errors) /\ (c.mode # c.check => errors # <<>>)
    BY <1>2, <2>3, LocatedErrorsType
  <2> HIDE DEF l, errors
  <2>6. Start(d, l, errors, next)
    BY <2>1 DEF l, errors
  <2> QED
    BY <1>2, <1>3, <2>2, <2>4, <2>5, <2>6, StartKeepsInv
<1>5. CASE ConfigureWithout(d)
  <2>1. Start(d, c, ModeErrors(c), "without")
    BY <1>5 DEF ConfigureWithout
  <2> HIDE DEF c
  <2>2. ModeErrors(c) \in Seq(Errors) /\ (c.mode # c.check => ModeErrors(c) # <<>>)
    BY <1>2, ModeErrorsType
  <2>3. "without" \in Steps \ {"idle"}
    BY DEF Steps
  <2> QED
    BY <1>2, <1>3, <2>1, <2>2, <2>3, StartKeepsInv
<1> QED
  BY <1>4, <1>5

\* A step of a running configure that raises an error goes to the report.
LEMMA RaiseKeepsInv ==
  ASSUME ToolInv, NEW d \in Dirs, NEW error \in Errors, Raise(d, error), Kept,
         pc[d] # "idle", pc' = [pc EXCEPT ![d] = "report"]
  PROVE  ToolInv' /\ hasError'[d]
<1> USE DEF ToolInv
<1>1. <<error>> \in Seq(Errors) /\ <<error>> # <<>>
  OBVIOUS
<1>2. hasError[d] \in BOOLEAN /\ message[d] \in Seq(Errors)
  BY DEF ToolTypeOK
<1>3. /\ hasError' \in [Dirs -> BOOLEAN] /\ message' \in [Dirs -> Seq(Errors)]
      /\ \A e \in Dirs \ {d} : hasError'[e] = hasError[e]
      /\ hasError'[d]
  <2>1. AddErrors(d, [has |-> hasError[d], message |-> message[d]], <<error>>)
    BY DEF Raise, State
  <2> QED
    BY <1>1, <1>2, <2>1, AddErrorsRaises
<1>4. raised' \in [Dirs -> Seq(Errors)] /\ \A e \in Dirs \ {d} : raised'[e] = raised[e]
  BY DEF Raise, ToolTypeOK
<1>5. ToolTypeOK'
  BY <1>3, <1>4 DEF ToolTypeOK, Kept, Steps
<1>6. ModeInv'
  BY <1>3 DEF ModeInv, Kept, ToolTypeOK
<1>7. ErrorInv'
  <2>1. result'[d] = "none" /\ pc'[d] = "report"
    BY DEF ModeInv, Kept, ToolTypeOK
  <2>2. \A e \in Dirs \ {d} : pc'[e] = pc[e] /\ result'[e] = result[e]
    BY DEF Kept, ToolTypeOK
  <2> QED
    BY <1>3, <1>4, <2>1, <2>2 DEF ErrorInv
<1> QED
  BY <1>3, <1>5, <1>6, <1>7

\* A step of a running configure that raises none.
LEMMA GoOnKeepsInv ==
  ASSUME ToolInv, NEW d \in Dirs, Kept, UNCHANGED <<hasError, message, raised>>,
         NEW step \in {"bootstrap", "install", "report"}, pc' = [pc EXCEPT ![d] = step],
         pc[d] \in {"exists", "bootstrap", "install"}
  PROVE  ToolInv'
<1> USE DEF ToolInv, Kept
<1>1. ToolTypeOK'
  BY DEF ToolTypeOK, Steps
<1>2. ModeInv' /\ ErrorInv'
  BY DEF ModeInv, ErrorInv, ToolTypeOK
<1> QED
  BY <1>1, <1>2

\* The steps between the options and the report: the executable, bootstrap, install.
LEMMA RunningKeepsInv ==
  ASSUME ToolInv, NEW d \in Dirs, Exists(d) \/ Bootstrapped(d) \/ Install(d)
  PROVE  ToolInv'
<1>1. CASE Exists(d)
  <2>1. PICK step \in {"bootstrap", "install"} : pc' = [pc EXCEPT ![d] = step]
    BY <1>1 DEF Exists
  <2> QED
    BY <1>1, <2>1, GoOnKeepsInv DEF Exists
<1>2. CASE Bootstrapped(d)
  <2>1. CASE UNCHANGED <<hasError, message, raised>>
    <3>1. pc[d] = "bootstrap" /\ Kept
      BY <1>2 DEF Bootstrapped
    <3>2. ~hasError'[d]
      BY <2>1, <3>1 DEF ToolInv, ErrorInv
    <3>3. pc' = [pc EXCEPT ![d] = "install"]
      BY <1>2, <3>2 DEF Bootstrapped
    <3> QED
      BY <2>1, <3>1, <3>3, GoOnKeepsInv
  <2>2. CASE Raise(d, BootstrapFailed)
    <3>1. pc[d] = "bootstrap" /\ Kept /\ BootstrapFailed \in Errors
      BY <1>2 DEF Bootstrapped, Errors
    <3>2. hasError'[d]
      <4>1. AddErrors(d, [has |-> hasError[d], message |-> message[d]], <<BootstrapFailed>>)
        BY <2>2 DEF Raise, State
      <4>2. <<BootstrapFailed>> \in Seq(Errors) /\ <<BootstrapFailed>> # <<>>
        BY <3>1
      <4>3. hasError[d] \in BOOLEAN /\ message[d] \in Seq(Errors) /\ ToolTypeOK
        BY DEF ToolInv, ToolTypeOK
      <4> QED
        BY <4>1, <4>2, <4>3, AddErrorsRaises
    <3>3. pc' = [pc EXCEPT ![d] = "report"]
      BY <1>2, <3>2 DEF Bootstrapped
    <3> QED
      BY <2>2, <3>1, <3>3, RaiseKeepsInv
  <2> QED
    BY <1>2, <2>1, <2>2 DEF Bootstrapped
<1>3. CASE Install(d)
  <2>1. pc[d] = "install" /\ pc' = [pc EXCEPT ![d] = "report"] /\ Kept
        /\ InstallFailed \in Errors
    BY <1>3 DEF Install, Errors
  <2>2. CASE UNCHANGED <<hasError, message, raised>>
    BY <2>1, <2>2, GoOnKeepsInv
  <2>3. CASE Raise(d, InstallFailed)
    BY <2>1, <2>3, RaiseKeepsInv
  <2> QED
    BY <1>3, <2>2, <2>3 DEF Install
<1> QED
  BY <1>1, <1>2, <1>3

\* The cache is saved, with or without vcpkg: the first mode is the one of the
\* check.
LEMMA ReportKeepsInv ==
  ASSUME ToolInv, NEW d \in Dirs, Report(d) \/ EndWithout(d)
  PROVE  ToolInv'
<1> USE DEF ToolInv
<1>0. PICK how \in Results : /\ pc[d] # "idle" /\ End(d, how)
                             /\ hasError[d] => how # "success"
  BY DEF Report, EndWithout, Results
<1>1. /\ pc[d] # "idle" /\ pc' = [pc EXCEPT ![d] = "idle"]
      /\ result' = [result EXCEPT ![d] = how]
      /\ cache' = [cache EXCEPT ![d] = run[d]]
      /\ first' = [first EXCEPT ![d] = Or(first[d], run[d].mode)]
      /\ run' = [run EXCEPT ![d] = Empty]
      /\ UNCHANGED <<manifest, hasError, message, raised, followed, configures>>
  BY <1>0 DEF End
<1>2. /\ run[d] \in Entries /\ run[d].mode \in OnOff /\ first[d] = cache[d].check
      /\ run[d].check = Or(cache[d].check, run[d].mode)
      /\ run[d].mode # run[d].check => hasError[d]
  BY <1>1 DEF ToolTypeOK, ModeInv
<1>3. ToolTypeOK'
  <2>1. Empty \in Entries
    BY DEF Empty, Entries, Dir, OnOff, Unset
  <2>2. Or(first[d], run[d].mode) \in OnOff \cup {Unset}
    BY <1>2 DEF Or, ToolTypeOK
  <2>3. \A e \in Dirs : pc'[e] # "idle" => e # d /\ run'[e] = run[e] /\ pc'[e] = pc[e]
    BY <1>1 DEF ToolTypeOK
  <2> QED
    BY <1>1, <1>2, <2>1, <2>2, <2>3 DEF ToolTypeOK, Steps, Results
<1>4. ModeInv'
  <2>1. cache'[d] = run[d] /\ first'[d] = run[d].check /\ pc'[d] = "idle"
        /\ (result'[d] = "success" => ~hasError[d])
    BY <1>0, <1>1, <1>2 DEF ToolTypeOK
  <2>2. \A e \in Dirs \ {d} :
          /\ cache'[e] = cache[e] /\ first'[e] = first[e] /\ pc'[e] = pc[e]
          /\ result'[e] = result[e] /\ run'[e] = run[e]
    BY <1>1 DEF ToolTypeOK
  <2> QED
    BY <1>1, <1>2, <2>1, <2>2 DEF ModeInv
<1>5. ErrorInv'
  BY <1>0, <1>1 DEF ErrorInv, ToolTypeOK
<1> QED
  BY <1>3, <1>4, <1>5

\* A killed configure leaves the cache, the check and the first mode as they were.
LEMMA KillKeepsInv ==
  ASSUME ToolInv, NEW d \in Dirs, Kill(d)
  PROVE  ToolInv'
<1> USE DEF ToolInv
<1>1. /\ pc[d] # "idle" /\ pc' = [pc EXCEPT ![d] = "idle"] /\ run' = [run EXCEPT ![d] = Empty]
      /\ Forget(d)
      /\ UNCHANGED <<manifest, cache, result, first, followed, configures>>
  BY DEF Kill
<1>2. Empty \in Entries /\ <<>> \in Seq(Errors)
  BY DEF Empty, Entries, Dir, OnOff, Unset
<1>3. ToolTypeOK'
  BY <1>1, <1>2 DEF ToolTypeOK, Forget, Steps
<1>4. ModeInv' /\ ErrorInv'
  BY <1>1 DEF ModeInv, ErrorInv, ToolTypeOK, Forget
<1> QED
  BY <1>3, <1>4

\* Whatever the user changes, the check and the first mode stay, or go together.
LEMMA UserKeepsInv ==
  ASSUME ToolInv, NEW d \in Dirs, pc[d] = "idle", NEW asTold \in BOOLEAN, Changes(d, asTold),
         manifest' \in [Dirs -> BOOLEAN],
         NEW c \in Entries, cache' = [cache EXCEPT ![d] = c],
         \/ c.check = cache[d].check /\ UNCHANGED first
         \/ c.check = Unset /\ first' = [first EXCEPT ![d] = Unset]
  PROVE  ToolInv'
<1> USE DEF ToolInv
<1>1. <<>> \in Seq(Errors) /\ (Advised(d) /\ asTold) \in BOOLEAN
  BY DEF Advised
<1>2. cache' \in [Dirs -> Entries] /\ first' \in [Dirs -> OnOff \cup {Unset}]
  BY DEF ToolTypeOK
<1>3. ToolTypeOK'
  BY <1>1, <1>2 DEF ToolTypeOK, Changes, Forget, Results
<1>4. first'[d] = cache'[d].check
  BY DEF ModeInv, ToolTypeOK
<1>5. \A e \in Dirs \ {d} : first'[e] = first[e] /\ cache'[e] = cache[e]
  BY DEF ToolTypeOK
<1>6. ModeInv' /\ ErrorInv'
  BY <1>4, <1>5 DEF ModeInv, ErrorInv, ToolTypeOK, Changes, Forget
<1> QED
  BY <1>3, <1>6

\* What the user does between configures.
LEMMA OptionsKeepInv ==
  ASSUME ToolInv, NEW d \in Dirs,
         \/ \E option \in OnOff : SetMode(d, option) \/ SetInstall(d, option)
         \/ AddManifest(d) \/ RemoveManifest(d) \/ DeleteBuildDir(d)
  PROVE  ToolInv'
<1>1. cache[d] \in Entries /\ manifest \in [Dirs -> BOOLEAN] /\ cache \in [Dirs -> Entries]
  BY DEF ToolInv, ToolTypeOK
<1>2. ASSUME NEW mode \in OnOff, SetMode(d, mode)
      PROVE  ToolInv'
  <2> DEFINE c == [cache[d] EXCEPT !.mode = mode]
  <2>1. c \in Entries /\ c.check = cache[d].check
    BY <1>1 DEF Entries
  <2>2. cache' = [cache EXCEPT ![d] = c]
    BY <1>2 DEF SetMode
  <2> HIDE DEF c
  <2>3. pc[d] = "idle" /\ Changes(d, mode = "OFF") /\ UNCHANGED <<manifest, first>>
    BY <1>2 DEF SetMode, Between
  <2> QED
    BY <1>1, <2>1, <2>2, <2>3, UserKeepsInv
<1>3. ASSUME NEW install \in OnOff, SetInstall(d, install)
      PROVE  ToolInv'
  <2> DEFINE c == [cache[d] EXCEPT !.install = install]
  <2>1. c \in Entries /\ c.check = cache[d].check
    BY <1>1 DEF Entries
  <2>2. cache' = [cache EXCEPT ![d] = c]
    BY <1>3 DEF SetInstall
  <2> HIDE DEF c
  <2>3. pc[d] = "idle" /\ Changes(d, FALSE) /\ UNCHANGED <<manifest, first>>
    BY <1>3 DEF SetInstall, Between
  <2> QED
    BY <1>1, <2>1, <2>2, <2>3, UserKeepsInv
<1>4. CASE AddManifest(d) \/ RemoveManifest(d)
  <2>1. pc[d] = "idle" /\ UNCHANGED <<cache, first>> /\ manifest' \in [Dirs -> BOOLEAN]
    BY <1>1, <1>4 DEF AddManifest, RemoveManifest, Between
  <2>2. PICK asTold \in BOOLEAN : Changes(d, asTold)
    BY <1>4 DEF AddManifest, RemoveManifest
  <2>3. cache' = [cache EXCEPT ![d] = cache[d]]
    BY <1>1, <2>1
  <2> QED
    BY <1>1, <2>1, <2>2, <2>3, UserKeepsInv
<1>5. CASE DeleteBuildDir(d)
  <2>1. PICK c \in Options[d] : cache' = [cache EXCEPT ![d] = c]
    BY <1>5 DEF DeleteBuildDir
  <2>2. c \in Entries /\ c.check = Unset
    BY OptionsAssumption
  <2>3. /\ pc[d] = "idle" /\ Changes(d, FALSE) /\ UNCHANGED manifest
        /\ first' = [first EXCEPT ![d] = Unset]
    BY <1>5 DEF DeleteBuildDir, Between
  <2> QED
    BY <1>1, <2>1, <2>2, <2>3, UserKeepsInv
<1> QED
  BY <1>2, <1>3, <1>4, <1>5

\* At the start no build directory has been configured and no script has run.
LEMMA InitHasInv == Init => IInv
<1> SUFFICES ASSUME Init
             PROVE  IInv
  OBVIOUS
<1>1. BootTypeOK /\ BootInv
  BY ActorsAssumption DEF Init, BootInit, BootTypeOK, BootInv, Files, NoFile, Running
<1>2. Empty \in Entries /\ <<>> \in Seq(Errors)
  BY DEF Empty, Entries, Dir, OnOff, Unset
<1>3. ToolTypeOK
  BY <1>2, ConfiguresAssumption DEF Init, ToolTypeOK, Steps, Results
<1>4. \A d \in Dirs : cache[d].check = Unset
  BY OptionsAssumption DEF Init
<1>5. ModeInv /\ ErrorInv
  BY <1>4 DEF Init, ModeInv, ErrorInv
<1> QED
  BY <1>1, <1>3, <1>5 DEF IInv, ToolInv

\* IInv is inductive: one step for each action of Next.
LEMMA NextKeepsInv == IInv /\ [Next]_toolchainVars => IInv'
<1> SUFFICES ASSUME IInv, [Next]_toolchainVars
             PROVE  IInv'
  OBVIOUS
<1> USE DEF IInv
<1>1. CASE UNCHANGED toolchainVars
  BY <1>1 DEF toolchainVars, bootVars, toolVars, BootTypeOK, BootInv, ToolInv, ToolTypeOK,
              ModeInv, ErrorInv, Whole, Runs
<1>2. CASE Next
  <2>1. BootTypeOK' /\ BootInv'
    <3>1. CASE UNCHANGED bootVars
      BY <3>1 DEF bootVars, BootTypeOK, BootInv, Whole, Runs
    <3>2. CASE \E a \in Actors : BootAction(a)
      BY <3>2, BootActionKeepsType, BootActionKeepsInv
    <3> QED
      BY <1>2, <3>1, <3>2, NextIsBootAction
  <2>2. CASE UNCHANGED toolVars
    BY <2>1, <2>2 DEF toolVars, ToolInv, ToolTypeOK, ModeInv, ErrorInv
  <2>3. ASSUME NEW d \in Dirs,
               \/ Configure(d) \/ Exists(d) \/ Bootstrapped(d) \/ Install(d) \/ Report(d)
               \/ ConfigureWithout(d) \/ EndWithout(d)
               \/ Kill(d) \/ AddManifest(d) \/ RemoveManifest(d) \/ DeleteBuildDir(d)
               \/ \E option \in OnOff : SetMode(d, option) \/ SetInstall(d, option)
        PROVE  ToolInv'
    BY <2>3, ConfigureKeepsInv, RunningKeepsInv, ReportKeepsInv, KillKeepsInv, OptionsKeepInv
  <2> QED
    BY <1>2, <2>1, <2>2, <2>3 DEF Next, ByHand
<1> QED
  BY <1>1, <1>2

\* The inductive invariant of Bootstrap and Toolchain together holds always.
THEOREM InvIsInvariant == Spec => []IInv
BY InitHasInv, NextKeepsInv, PTL DEF Spec

-----------------------------------------------------------------------------
\* The types of the bootstraps and of the configures.
THEOREM TypeIsInvariant == Spec => []TypeOK
<1>1. IInv => TypeOK
  BY DEF IInv, ToolInv, ToolTypeOK, TypeOK
<1> QED
  BY <1>1, InvIsInvariant, PTL

\* Unless bootstraps overlap, no executable is broken, whatever is killed.
THEOREM BootstrapLeavesWholeExecutable == Spec => []ExecutableIsWhole
<1>1. IInv => ExecutableIsWhole
  BY DEF IInv, BootInv, ExecutableIsWhole
<1> QED
  BY <1>1, InvIsInvariant, PTL

\* A build directory that is configured with vcpkg stays in its mode.
THEOREM BuildDirKeepsMode == Spec => []ModeIsKept
<1>1. IInv => ModeIsKept
  BY DEF IInv, ToolInv, ModeInv, ModeIsKept
<1> QED
  BY <1>1, InvIsInvariant, PTL

\* Nothing is bootstrapped or installed after a fatal error, and only a configure
\* without vcpkg does not fail.
THEOREM FatalErrorsStopConfigure == Spec => []ErrorsAreFatal
<1>1. IInv => ErrorsAreFatal
  BY DEF IInv, ToolInv, ErrorInv, ErrorsAreFatal
<1> QED
  BY <1>1, InvIsInvariant, PTL
=============================================================================
