----------------------------- MODULE ApacheProofs -----------------------------
(***************************************************************************)
(* Proofs about the two domains that change Apache's configuration, for    *)
(* any number of connections, sites, contents and addresses.               *)
(*                                                                         *)
(* AdminAccess: as long as an update meets no other (verdict is "running") *)
(* it is the only one at work, and each of its steps knows what it may     *)
(* have changed since the files were read (AloneInv).                      *)
(*                                                                         *)
(* ApacheSites: a command that meets no other on its site (alone) knows at *)
(* each of its steps what the file, the link and the last test are         *)
(* (Known), and how much of its undo is left (Shape).  Every step of a     *)
(* command is a step on one site (SiteStep): a command on another site,    *)
(* and a site at rest, do not see it.                                      *)
(***************************************************************************)
EXTENDS MCApacheSites, TLAPS

UpdateSteps == {"idle", "write", "switch", "test", "reload", "profile",
                "undo", "unswitch", "unprofile", "unload"}

UpdateRecord == [step: UpdateSteps, want: Settings, old: Publishable, was: BOOLEAN,
                 oldProfile: Settings]

\* The values that the model begins with are well formed.
LEMMA AdminValues ==
    /\ AnySettings \in Settings /\ AnySettings \in Offered
    /\ NoUpdate \in UpdateRecord /\ NoUpdate.step = "idle" /\ NoUpdate.want = AnySettings
    /\ NothingFound \in [file: Publishable, enabled: BOOLEAN, serving: Publishable \cup {"down"},
                         profile: Settings]
<1>1. AnySettings \in Offered /\ Offered \subseteq Settings
  BY AdminAssumption DEF AnySettings
<1>2. QED BY <1>1 DEF NoUpdate, NothingFound, UpdateRecord, UpdateSteps, Publishable

\* How an update moves on, falls back and ends.
LEMMA UpdateMoves ==
    ASSUME AdminTypeOK, NEW u \in AdminSlots
    PROVE  /\ updates \in [AdminSlots -> UpdateRecord] /\ updates[u] \in UpdateRecord
           /\ updates[u].step = "idle" => updates[u] = NoUpdate
           /\ \A step \in UpdateSteps : Goto(u, step) =>
                 /\ updates' \in [AdminSlots -> UpdateRecord]
                 /\ updates'[u].step = step
                 /\ updates'[u].want = updates[u].want /\ updates'[u].old = updates[u].old
                 /\ updates'[u].was = updates[u].was /\ updates'[u].oldProfile = updates[u].oldProfile
                 /\ \A v \in AdminSlots \ {u} : updates'[v] = updates[v]
           /\ FallBack(u) =>
                 /\ updates' \in [AdminSlots -> UpdateRecord]
                 /\ updates'[u].step = "undo" /\ updates'[u].old = updates[u].old
                 /\ updates'[u].was = updates[u].was /\ updates'[u].oldProfile = updates[u].oldProfile
                 /\ \A v \in AdminSlots \ {u} : updates'[v] = updates[v]
           /\ \A result : FinishUpdate(u, result) =>
                 /\ updates' \in [AdminSlots -> UpdateRecord] /\ updates'[u] = NoUpdate
                 /\ \A v \in AdminSlots \ {u} : updates'[v] = updates[v]
<1>1. updates \in [AdminSlots -> UpdateRecord] /\ (updates[u].step = "idle" => updates[u] = NoUpdate)
  BY DEF AdminTypeOK, UpdateRecord, UpdateSteps
<1>2. \A step \in UpdateSteps : Goto(u, step) =>
                 /\ updates' \in [AdminSlots -> UpdateRecord]
                 /\ updates'[u].step = step
                 /\ updates'[u].want = updates[u].want /\ updates'[u].old = updates[u].old
                 /\ updates'[u].was = updates[u].was /\ updates'[u].oldProfile = updates[u].oldProfile
                 /\ \A v \in AdminSlots \ {u} : updates'[v] = updates[v]
  BY <1>1 DEF Goto, UpdateRecord
<1>3. FallBack(u) =>
                 /\ updates' \in [AdminSlots -> UpdateRecord]
                 /\ updates'[u].step = "undo" /\ updates'[u].old = updates[u].old
                 /\ updates'[u].was = updates[u].was /\ updates'[u].oldProfile = updates[u].oldProfile
                 /\ \A v \in AdminSlots \ {u} : updates'[v] = updates[v]
  <2>1. SUFFICES ASSUME FallBack(u) PROVE <1>3!2
    OBVIOUS
  <2> DEFINE back == [updates[u] EXCEPT !.step = "undo", !.want = AnySettings]
  <2>2. updates[u] \in UpdateRecord /\ AnySettings \in Settings
    BY <1>1, AdminValues
  <2>3. /\ back \in UpdateRecord /\ back.step = "undo" /\ back.old = updates[u].old
        /\ back.was = updates[u].was /\ back.oldProfile = updates[u].oldProfile
    BY <2>2 DEF UpdateRecord, UpdateSteps
  <2>4. updates' = [updates EXCEPT ![u] = back]
    BY <2>1 DEF FallBack
  <2> HIDE DEF back
  <2>5. QED BY <1>1, <2>3, <2>4
<1>4. \A result : FinishUpdate(u, result) =>
                 /\ updates' \in [AdminSlots -> UpdateRecord] /\ updates'[u] = NoUpdate
                 /\ \A v \in AdminSlots \ {u} : updates'[v] = updates[v]
  BY <1>1, AdminValues DEF FinishUpdate
<1>5. QED BY <1>1, <1>2, <1>3, <1>4

\* What the state of one connection's update becomes, whatever the step: it goes on to a
\* later step, falls back, or ends; the others stay.
LEMMA StepOf ==
    ASSUME AdminInv, NEW u \in AdminSlots, UpdateStep(u)
    PROVE  /\ updates' \in [AdminSlots -> UpdateRecord]
           /\ \A v \in AdminSlots \ {u} : updates'[v] = updates[v]
           /\ updates[u].step # "idle" /\ mode' = mode /\ before' = before
           /\ \/ /\ updates'[u].step # "idle" /\ verdict' = verdict
                 /\ updates'[u].old = updates[u].old /\ updates'[u].was = updates[u].was
                 /\ updates'[u].oldProfile = updates[u].oldProfile
              \/ \E result \in {"ok", "refused"} : FinishUpdate(u, result) /\ updates'[u] = NoUpdate
<1>1. AdminTypeOK
  BY DEF AdminInv
<1>2. \/ /\ verdict' = verdict
         /\ FallBack(u) \/ \E step \in UpdateSteps \ {"idle"} : Goto(u, step)
      \/ \E result \in {"ok", "refused"} : FinishUpdate(u, result)
  BY DEF UpdateStep, WriteSite, SwitchSite, ConfigTest, ReloadServer, WriteProfile, RestoreSite,
         RestoreLink, RestoreProfile, RestoreServed, UpdateSteps
<1>3. updates[u].step # "idle" /\ mode' = mode /\ before' = before
  BY DEF UpdateStep, WriteSite, SwitchSite, ConfigTest, ReloadServer, WriteProfile, RestoreSite,
         RestoreLink, RestoreProfile, RestoreServed, UpdateAt
<1>4. CASE FallBack(u) /\ verdict' = verdict
  BY <1>1, <1>3, <1>4, UpdateMoves
<1>5. ASSUME NEW step \in UpdateSteps \ {"idle"}, Goto(u, step), verdict' = verdict
      PROVE  /\ updates' \in [AdminSlots -> UpdateRecord]
             /\ \A v \in AdminSlots \ {u} : updates'[v] = updates[v]
             /\ updates'[u].step # "idle" /\ verdict' = verdict
             /\ updates'[u].old = updates[u].old /\ updates'[u].was = updates[u].was
             /\ updates'[u].oldProfile = updates[u].oldProfile
  BY <1>1, <1>5, UpdateMoves
<1>6. ASSUME NEW result \in {"ok", "refused"}, FinishUpdate(u, result)
      PROVE  /\ updates' \in [AdminSlots -> UpdateRecord] /\ updates'[u] = NoUpdate
             /\ \A v \in AdminSlots \ {u} : updates'[v] = updates[v]
  BY <1>1, <1>6, UpdateMoves
<1>7. QED BY <1>2, <1>3, <1>4, <1>5, <1>6

\* The files, the server and the profile stay well formed.
LEMMA FilesOf ==
    ASSUME AdminInv, NEW u \in AdminSlots, UpdateStep(u)
    PROVE  /\ file' \in Publishable /\ enabled' \in BOOLEAN
           /\ serving' \in Publishable \cup {"down"} /\ profile' \in Settings
           /\ lost' \in BOOLEAN /\ (enabled' => mode = "sites")
<1>1. AdminTypeOK /\ updates[u] \in UpdateRecord
  BY UpdateMoves DEF AdminInv
<1>2. /\ file \in Publishable /\ enabled \in BOOLEAN /\ serving \in Publishable \cup {"down"}
      /\ profile \in Settings /\ lost \in BOOLEAN /\ (enabled => mode = "sites")
      /\ updates[u].want \in Settings /\ updates[u].old \in Publishable
      /\ updates[u].was \in BOOLEAN /\ updates[u].oldProfile \in Settings
  BY <1>1 DEF AdminTypeOK, UpdateRecord
<1>3. updates[u].want.address \in Publishable /\ updates[u].want.enabled \in BOOLEAN
      /\ render(updates[u].want) \in Publishable
  BY <1>2 DEF Settings, Publishable, render
<1>4. LoadedSite(file, enabled) \in Publishable
      /\ AfterFailure \subseteq Publishable \cup {"down"}
  BY <1>2 DEF LoadedSite, AfterFailure, Publishable
<1>5. CASE WriteSite(u) \/ ConfigTest(u) \/ WriteProfile(u)
  BY <1>2, <1>3, <1>5 DEF WriteSite, ConfigTest, WriteProfile
<1>6. CASE SwitchSite(u)
  <2>1. file' \in {file, NoSite} /\ (enabled' = enabled \/ (enabled' = updates[u].want.enabled /\ mode = "sites"))
        /\ serving' = serving /\ profile' = profile /\ lost' = lost
    BY <1>6 DEF SwitchSite
  <2>2. QED BY <1>2, <1>3, <2>1 DEF Publishable
<1>7. CASE ReloadServer(u)
  BY <1>2, <1>4, <1>7 DEF ReloadServer
<1>8. CASE RestoreSite(u) \/ RestoreProfile(u) \/ RestoreServed(u)
  <2>1. lost' \in BOOLEAN
    BY <1>2, <1>8 DEF RestoreSite, RestoreProfile, RestoreServed, UndoStep
  <2>2. QED BY <1>2, <1>4, <1>8, <2>1 DEF RestoreSite, RestoreProfile, RestoreServed, UndoStep
<1>9. CASE RestoreLink(u)
  <2>1. mode = "sites"
    BY <1>9 DEF RestoreLink, AdminInv
  <2>2. lost' \in BOOLEAN
    BY <1>2, <1>9 DEF RestoreLink, UndoStep
  <2>3. QED BY <1>2, <1>9, <2>1, <2>2 DEF RestoreLink, UndoStep
<1>10. QED BY <1>5, <1>6, <1>7, <1>8, <1>9 DEF UpdateStep

\* The bookkeeping of a step: which updates are at work, and what the verdict says of them.
LEMMA StepBooks ==
    ASSUME AdminInv, NEW u \in AdminSlots, UpdateStep(u)
    PROVE  /\ AdminTypeOK'
           /\ \A v \in AdminSlots : UpdateAt(v, "unswitch")' => mode' = "sites"
           /\ verdict' \in {"none", "ok", "refused"} => ActiveUpdates' = {}
           /\ verdict' \in {"running", "ok", "refused"} =>
                 verdict = "running" /\ ActiveUpdates = {u}
           /\ verdict' = "running" => ActiveUpdates' = {u}
<1> USE DEF UpdateAt
<1>1. AdminTypeOK /\ u \in ActiveUpdates
  BY StepOf DEF AdminInv, ActiveUpdates
<1>2. \/ /\ updates'[u].step # "idle" /\ verdict' = verdict /\ ActiveUpdates' = ActiveUpdates
      \/ /\ updates'[u] = NoUpdate /\ ActiveUpdates' = ActiveUpdates \ {u}
         /\ \E result \in {"ok", "refused"} : FinishUpdate(u, result)
  BY StepOf, AdminValues DEF ActiveUpdates
<1>3. /\ verdict \notin {"none", "ok", "refused"} /\ (verdict = "running" => ActiveUpdates = {u})
      /\ verdict \in {"running", "mixed"}
  BY <1>1 DEF AdminInv, AdminTypeOK
<1>4. /\ verdict' \in {"none", "ok", "refused"} => ActiveUpdates' = {}
      /\ verdict' \in {"running", "ok", "refused"} => verdict = "running" /\ ActiveUpdates = {u}
      /\ verdict' = "running" => ActiveUpdates' = {u}
      /\ verdict' \in {"none", "running", "mixed", "ok", "refused"}
  <2>1. CASE verdict' = verdict /\ ActiveUpdates' = ActiveUpdates
    BY <1>3, <2>1
  <2>2. ASSUME NEW result \in {"ok", "refused"}, FinishUpdate(u, result),
               ActiveUpdates' = ActiveUpdates \ {u}
        PROVE  <1>4!1 /\ <1>4!2 /\ <1>4!3 /\ <1>4!4
    BY <1>3, <2>2 DEF FinishUpdate
  <2>3. QED BY <1>2, <2>1, <2>2
<1>5. AdminTypeOK'
  <2>1. \A v \in AdminSlots : updates'[v].step = "idle" => updates'[v] = NoUpdate
    BY <1>1, <1>2, StepOf DEF AdminTypeOK
  <2>2. mode' = mode /\ before' = before /\ updates' \in [AdminSlots -> UpdateRecord]
    BY StepOf
  <2>3. QED BY <1>1, <1>4, <2>1, <2>2, FilesOf DEF AdminTypeOK, UpdateRecord, UpdateSteps
<1>6. \A v \in AdminSlots : updates'[v].step = "unswitch" => mode' = "sites"
  <2>1. ASSUME NEW v \in AdminSlots, v # u, updates'[v].step = "unswitch"
        PROVE  mode' = "sites"
    BY <2>1, StepOf DEF AdminInv
  <2>2. ASSUME updates'[u].step = "unswitch"
        PROVE  mode' = "sites"
    <3>1. ~FallBack(u) /\ \A result : ~FinishUpdate(u, result)
      BY <1>1, <2>2, UpdateMoves, AdminValues
    <3>2. \A step \in UpdateSteps : Goto(u, step) => step = "unswitch"
      BY <1>1, <2>2, UpdateMoves
    <3>3. RestoreSite(u) /\ Goto(u, IF mode = "direct" THEN "unprofile" ELSE IF mode = "sites" THEN "unswitch" ELSE "unload")
      BY <3>1, <3>2 DEF UpdateStep, WriteSite, SwitchSite, ConfigTest, ReloadServer, WriteProfile,
                        RestoreSite, RestoreLink, RestoreProfile, RestoreServed, UpdateSteps
    <3>4. mode = "sites"
      BY <3>2, <3>3 DEF UpdateSteps
    <3>5. QED BY <3>4, StepOf
  <2>3. QED BY <2>1, <2>2
<1>7. QED BY <1>4, <1>5, <1>6

\* A step that goes on keeps what an update alone knows, action by action.
LEMMA AloneGoesOn ==
    ASSUME AdminInv, NEW u \in AdminSlots, UpdateStep(u), AloneInv(u),
           verdict = "running", updates'[u].step # "idle"
    PROVE  AloneInv(u)'
<1> DEFINE op == updates[u]
           op1 == updates'[u]
<1>1. AdminTypeOK /\ op \in UpdateRecord
  BY UpdateMoves DEF AdminInv
<1>2. /\ mode' = mode /\ before' = before /\ op1.step # "idle"
      /\ op1.old = op.old /\ op1.was = op.was /\ op1.oldProfile = op.oldProfile
      /\ \A result : ~FinishUpdate(u, result)
  BY <1>1, StepOf, AdminValues, UpdateMoves
<1>3. /\ \A step \in UpdateSteps : Goto(u, step) => op1.step = step /\ op1.want = op.want
      /\ FallBack(u) => op1.step = "undo"
  BY <1>1, UpdateMoves
<1>4. /\ mode \in {"sites", "confd", "direct"} /\ (enabled => mode = "sites")
      /\ enabled \in BOOLEAN /\ lost \in BOOLEAN
      /\ op.want.enabled \in BOOLEAN /\ before.enabled \in BOOLEAN
  BY <1>1 DEF AdminTypeOK, UpdateRecord, Settings
<1> HIDE DEF op, op1
<1> DEFINE Kept == /\ before.enabled => mode = "sites"
                   /\ op.old = before.file
                   /\ mode = "sites" => op.was = before.enabled
                   /\ mode = "direct" => op.oldProfile = before.profile
<1>5. Kept
  BY DEF AloneInv, op
<1> DEFINE Rest(step) ==
      /\ step \in {"write", "switch", "test", "reload", "profile", "undo"} => ~lost
      /\ step \in {"switch", "test"} => mode # "direct"
      /\ profile = before.profile \/ (mode = "direct" /\ step \in {"reload", "undo", "unprofile"})
          \/ (lost /\ step = "unload")
      /\ step = "write" =>
          FilesAsFound /\ serving \in {before.serving, LoadedSite(file, enabled)}
      /\ step = "switch" => file = op.want.address /\ enabled = before.enabled
      /\ step \in {"test", "reload", "profile"} => LoadedSite(file, enabled) = Target(op.want)
      /\ step = "reload" /\ mode = "direct" => profile = op.want
      /\ step = "profile" /\ mode # "direct" => serving = LoadedSite(file, enabled)
      /\ step = "unprofile" => mode = "direct"
      /\ step \in {"unswitch", "unprofile"} /\ ~lost => file = before.file
      /\ step = "unload" /\ ~lost => FilesAsFound
<1>6. Rest(op.step)
  BY DEF AloneInv, op
<1> DEFINE New ==
      /\ op1.step \in {"write", "switch", "test", "reload", "profile", "undo"} => ~lost'
      /\ op1.step \in {"switch", "test"} => mode # "direct"
      /\ profile' = before.profile \/ (mode = "direct" /\ op1.step \in {"reload", "undo", "unprofile"})
          \/ (lost' /\ op1.step = "unload")
      /\ op1.step # "write"
      /\ op1.step = "switch" => file' = op1.want.address /\ enabled' = before.enabled
      /\ op1.step \in {"test", "reload", "profile"} => LoadedSite(file', enabled') = Target(op1.want)
      /\ op1.step = "reload" /\ mode = "direct" => profile' = op1.want
      /\ op1.step = "profile" /\ mode # "direct" => serving' = LoadedSite(file', enabled')
      /\ op1.step = "unprofile" => mode = "direct"
      /\ op1.step \in {"unswitch", "unprofile"} /\ ~lost' => file' = before.file
      /\ op1.step = "unload" /\ ~lost' => file' = before.file /\ enabled' = before.enabled
<1>7. New => AloneInv(u)'
  <2>1. LoadedSite(file, enabled)' = LoadedSite(file', enabled')
    BY <1>2 DEF LoadedSite
  <2>2. QED BY <1>2, <1>5, <2>1 DEF AloneInv, op1, FilesAsFound, Target
<1> SUFFICES New
  BY <1>7
<1> USE DEF UpdateAt, UpdateSteps
<1>8. CASE WriteSite(u)
  <2>1. op.step = "write" /\ enabled' = enabled /\ profile' = profile /\ lost' = lost
        /\ file' = render(op.want) /\ Goto(u, IF mode = "direct" THEN "profile" ELSE "switch")
    BY <1>2, <1>8 DEF WriteSite, op
  <2>2. op1.want = op.want /\ op1.step = IF mode = "direct" THEN "profile" ELSE "switch"
    BY <1>3, <2>1
  <2>3. QED BY <1>4, <1>6, <2>1, <2>2 DEF FilesAsFound, render, LoadedSite, Target
<1>9. CASE SwitchSite(u)
  <2>1. op.step = "switch" /\ profile' = profile /\ lost' = lost /\ serving' = serving
    BY <1>9 DEF SwitchSite, op
  <2>2. CASE FallBack(u)
    BY <1>3, <1>6, <2>1, <2>2
  <2>3. CASE Goto(u, "test")
    <3>1. op1.step = "test" /\ op1.want = op.want
      BY <1>3, <2>3
    <3>2. LoadedSite(file', enabled') = Target(op.want)
      <4>1. ~FallBack(u)
        BY <1>3, <3>1
      <4>2. CASE mode = "sites"
        <5>1. file' = op.want.address /\ enabled' = op.want.enabled
          <6>1. file' = file
            BY <1>9, <4>1, <4>2 DEF SwitchSite, op
          <6>2. enabled' = op.want.enabled
            BY <1>4, <1>5, <1>6, <1>9, <2>1, <4>1, <4>2 DEF SwitchSite, op
          <6>3. QED BY <1>6, <2>1, <6>1, <6>2
        <5>2. QED BY <4>2, <5>1 DEF LoadedSite, Target
      <4>3. CASE mode = "confd"
        <5>1. file' = Target(op.want)
          BY <1>6, <1>9, <2>1, <4>1, <4>3 DEF SwitchSite, op, Target
        <5>2. QED BY <4>3, <5>1 DEF LoadedSite
      <4>4. QED BY <1>4, <1>6, <2>1, <4>2, <4>3
    <3>3. QED BY <1>6, <2>1, <3>1, <3>2
  <2>4. QED BY <1>9, <2>2, <2>3 DEF SwitchSite
<1>10. CASE ConfigTest(u)
  <2>1. op.step = "test" /\ profile' = profile /\ lost' = lost /\ file' = file /\ enabled' = enabled
    BY <1>10 DEF ConfigTest, op
  <2>2. op1.step = "undo" \/ (op1.step = "reload" /\ op1.want = op.want)
    BY <1>3, <1>10 DEF ConfigTest
  <2>3. QED BY <1>6, <2>1, <2>2
<1>11. CASE ReloadServer(u)
  <2>1. op.step = "reload" /\ profile' = profile /\ lost' = lost /\ file' = file /\ enabled' = enabled
    BY <1>11 DEF ReloadServer, op
  <2>2. \/ op1.step = "undo"
        \/ /\ op1.step = "profile" /\ op1.want = op.want /\ mode # "direct"
           /\ serving' = LoadedSite(file, enabled)
    BY <1>2, <1>3, <1>11 DEF ReloadServer
  <2>3. QED BY <1>6, <2>1, <2>2
<1>12. CASE WriteProfile(u)
  <2>1. op.step = "profile" /\ lost' = lost /\ file' = file /\ enabled' = enabled
    BY <1>12 DEF WriteProfile, op
  <2>2. \/ op1.step = "undo" /\ profile' = profile
        \/ /\ op1.step = "reload" /\ op1.want = op.want /\ mode = "direct"
           /\ profile' = op.want
    BY <1>2, <1>3, <1>12 DEF WriteProfile, op
  <2>3. QED BY <1>6, <2>1, <2>2
<1>13. CASE RestoreSite(u)
  <2>1. op.step = "undo" /\ profile' = profile /\ enabled' = enabled
        /\ op1.step = IF mode = "direct" THEN "unprofile" ELSE IF mode = "sites" THEN "unswitch" ELSE "unload"
    BY <1>3, <1>13 DEF RestoreSite, op
  <2>2. ~lost' => file' = before.file
    BY <1>5, <1>13, <2>1 DEF RestoreSite, op, UndoStep
  <2>3. QED BY <1>4, <1>5, <1>6, <2>1, <2>2
<1>14. CASE RestoreLink(u)
  <2>1. op.step = "unswitch" /\ profile' = profile /\ file' = file /\ op1.step = "unload"
    BY <1>3, <1>14 DEF RestoreLink, op
  <2>2. mode = "sites"
    BY <2>1 DEF AdminInv, op
  <2>3. ~lost' => enabled' = before.enabled /\ ~lost
    BY <1>5, <1>14, <2>2 DEF RestoreLink, op, UndoStep
  <2>4. QED BY <1>4, <1>6, <2>1, <2>2, <2>3
<1>15. CASE RestoreProfile(u)
  <2>1. op.step = "unprofile" /\ enabled' = enabled /\ file' = file /\ op1.step = "unload"
        /\ mode = "direct"
    BY <1>3, <1>6, <1>15 DEF RestoreProfile, op
  <2>2. ~lost' => profile' = before.profile /\ ~lost
    BY <1>5, <1>15, <2>1 DEF RestoreProfile, op, UndoStep
  <2>3. lost' \in BOOLEAN
    BY FilesOf
  <2>4. QED BY <1>4, <1>5, <1>6, <2>1, <2>2, <2>3
<1>16. CASE RestoreServed(u)
  BY <1>2, <1>16 DEF RestoreServed
<1>17. QED BY <1>8, <1>9, <1>10, <1>11, <1>12, <1>13, <1>14, <1>15, <1>16 DEF UpdateStep

\* A step that ends an update alone leaves what its answer promises.
LEMMA AloneEnds ==
    ASSUME AdminInv, NEW u \in AdminSlots, UpdateStep(u), AloneInv(u), verdict = "running"
    PROVE  SuccessAgrees' /\ RefusedUndone'
<1> DEFINE op == updates[u]
<1>1. AdminTypeOK /\ op \in UpdateRecord
  BY UpdateMoves DEF AdminInv
<1>2. /\ mode \in {"sites", "confd", "direct"} /\ (enabled => mode = "sites")
      /\ enabled \in BOOLEAN /\ before.enabled \in BOOLEAN /\ lost \in BOOLEAN
  BY <1>1 DEF AdminTypeOK
<1>3. mode' = mode /\ before' = before
  BY StepOf
<1>5. LoadedSite(file, enabled)' = LoadedSite(file', enabled')
      /\ LoadedSite(before.file, before.enabled)' = LoadedSite(before.file, before.enabled)
  BY <1>3 DEF LoadedSite
<1>6. SUFFICES /\ verdict' = "ok" => /\ serving' = Target(profile')
                                     /\ LoadedSite(file', enabled') = serving'
               /\ verdict' = "refused" /\ ~lost' =>
                     /\ file' = before.file /\ enabled' = before.enabled /\ profile' = before.profile
                     /\ before.serving = LoadedSite(before.file, before.enabled) =>
                           serving' = before.serving
  BY <1>3, <1>5 DEF SuccessAgrees, RefusedUndone, Target
<1>7. /\ op.step = "write" => /\ file = before.file /\ enabled = before.enabled
                              /\ profile = before.profile
                              /\ serving \in {before.serving, LoadedSite(file, enabled)}
      /\ op.step \in {"reload", "profile"} => LoadedSite(file, enabled) = Target(op.want)
      /\ op.step = "reload" /\ mode = "direct" => profile = op.want
      /\ op.step = "profile" /\ mode # "direct" => serving = LoadedSite(file, enabled)
      /\ op.step = "unload" /\ ~lost =>
            file = before.file /\ enabled = before.enabled /\ profile = before.profile
  BY DEF AloneInv, FilesAsFound
<1> HIDE DEF op
<1> USE DEF UpdateAt
<1>9. CASE WriteSite(u)
  <2>1. op.step = "write" /\ enabled' = enabled /\ profile' = profile /\ serving' = serving
        /\ (verdict' # verdict => verdict' = "refused" /\ file' = file)
    BY <1>9 DEF WriteSite, op, FinishUpdate
  <2>2. QED BY <1>7, <2>1
<1>10. CASE ReloadServer(u)
  <2>1. op.step = "reload" /\ enabled' = enabled /\ profile' = profile /\ file' = file
        /\ (verdict' # verdict => verdict' = "ok" /\ mode = "direct" /\ serving' = LoadedSite(file, enabled))
    BY <1>10 DEF ReloadServer, op, FinishUpdate
  <2>2. QED BY <1>7, <2>1
<1>11. CASE WriteProfile(u)
  <2>1. op.step = "profile" /\ enabled' = enabled /\ file' = file /\ serving' = serving
        /\ (verdict' # verdict => verdict' = "ok" /\ mode # "direct" /\ profile' = op.want)
    BY <1>11 DEF WriteProfile, op, FinishUpdate
  <2>2. QED BY <1>7, <2>1
<1>12. CASE RestoreServed(u)
  <2>1. op.step = "unload" /\ enabled' = enabled /\ file' = file /\ profile' = profile
        /\ verdict' = "refused"
    BY <1>12 DEF RestoreServed, op, FinishUpdate
  <2>2. ~lost' => ~lost /\ serving' = LoadedSite(file, enabled)
    BY <1>12 DEF RestoreServed, UndoStep
  <2>3. QED BY <1>7, <2>1, <2>2
<1>13. CASE SwitchSite(u) \/ ConfigTest(u) \/ RestoreSite(u) \/ RestoreLink(u) \/ RestoreProfile(u)
  <2>1. verdict' = "running"
    BY <1>13 DEF SwitchSite, ConfigTest, RestoreSite, RestoreLink, RestoreProfile
  <2>2. QED BY <2>1
<1>14. QED BY <1>9, <1>10, <1>11, <1>12, <1>13 DEF UpdateStep

\* Every step of an update keeps the invariant.
LEMMA UpdateStepInv ==
    ASSUME AdminInv, NEW u \in AdminSlots, UpdateStep(u)
    PROVE  AdminInv'
<1>1. /\ AdminTypeOK'
      /\ \A v \in AdminSlots : UpdateAt(v, "unswitch")' => mode' = "sites"
      /\ verdict' \in {"none", "ok", "refused"} => ActiveUpdates' = {}
      /\ verdict' \in {"running", "ok", "refused"} => verdict = "running" /\ ActiveUpdates = {u}
      /\ verdict' = "running" => ActiveUpdates' = {u}
  BY StepBooks
<1>2. verdict' \in {"running", "ok", "refused"} => AloneInv(u)
  BY <1>1 DEF AdminInv
<1>3. SuccessAgrees' /\ RefusedUndone'
  <2>1. CASE verdict' \in {"ok", "refused"}
    BY <1>1, <1>2, <2>1, AloneEnds
  <2>2. QED BY <2>1 DEF SuccessAgrees, RefusedUndone
<1>4. ASSUME verdict' = "running"
      PROVE  \A v \in ActiveUpdates' : AloneInv(v)' /\ ActiveUpdates' = {v}
  <2>1. updates'[u].step # "idle"
    BY <1>1, <1>4 DEF ActiveUpdates, UpdateAt
  <2>2. AloneInv(u)'
    BY <1>1, <1>2, <1>4, <2>1, AloneGoesOn
  <2>3. QED BY <1>1, <1>4, <2>2
<1>5. QED BY <1>1, <1>3, <1>4 DEF AdminInv

\* A new update: alone, it has just read the files as they are.
LEMMA BeginUpdateInv ==
    ASSUME AdminInv, NEW u \in AdminSlots, NEW want \in Settings, BeginUpdate(u, want)
    PROVE  AdminInv'
<1> DEFINE new == [NoUpdate EXCEPT !.step = "write", !.want = want, !.old = file,
             !.was = IF mode = "sites" THEN enabled ELSE mode = "confd" /\ file # NoSite,
             !.oldProfile = IF mode = "direct" THEN profile ELSE AnySettings]
<1>1. AdminTypeOK /\ updates \in [AdminSlots -> UpdateRecord]
  BY UpdateMoves DEF AdminInv
<1>2. /\ file \in Publishable /\ enabled \in BOOLEAN /\ serving \in Publishable \cup {"down"}
      /\ profile \in Settings /\ (enabled => mode = "sites") /\ mode \in {"sites", "confd", "direct"}
  BY <1>1 DEF AdminTypeOK
<1>3. /\ new \in UpdateRecord /\ new.step = "write" /\ new.want = want /\ new.old = file
      /\ (mode = "sites" => new.was = enabled) /\ (mode = "direct" => new.oldProfile = profile)
  BY <1>2, AdminValues DEF NoUpdate, UpdateRecord, UpdateSteps, Publishable
<1>4. /\ updates' = [updates EXCEPT ![u] = new] /\ updates[u].step = "idle"
      /\ verdict' = IF ActiveUpdates = {} THEN "running" ELSE "mixed"
      /\ before' = IF ActiveUpdates = {} THEN Found ELSE NothingFound
      /\ lost' = FALSE /\ mode' = mode /\ file' = file /\ enabled' = enabled
      /\ serving' = serving /\ profile' = profile
  BY DEF BeginUpdate, UpdateAt
<1> HIDE DEF new
<1>5. /\ updates' \in [AdminSlots -> UpdateRecord] /\ updates'[u] = new
      /\ \A v \in AdminSlots \ {u} : updates'[v] = updates[v]
  BY <1>1, <1>3, <1>4
<1>6. ActiveUpdates' = ActiveUpdates \cup {u}
  BY <1>3, <1>5 DEF ActiveUpdates, UpdateAt
<1>7. AdminTypeOK'
  <2>1. before' \in [file: Publishable, enabled: BOOLEAN, serving: Publishable \cup {"down"},
                      profile: Settings]
    BY <1>2, <1>4, AdminValues DEF Found
  <2>2. \A v \in AdminSlots : updates'[v].step = "idle" => updates'[v] = NoUpdate
    BY <1>1, <1>3, <1>5 DEF AdminTypeOK
  <2>3. QED BY <1>2, <1>4, <1>5, <2>1, <2>2 DEF AdminTypeOK, UpdateRecord, UpdateSteps
<1>8. \A v \in AdminSlots : UpdateAt(v, "unswitch")' => mode' = "sites"
  BY <1>3, <1>4, <1>5 DEF UpdateAt, AdminInv
<1>9. ASSUME ActiveUpdates = {}
      PROVE  AloneInv(u)'
  <2>1. before'.file = file /\ before'.enabled = enabled /\ before'.serving = serving
        /\ before'.profile = profile
    BY <1>4, <1>9 DEF Found
  <2>2. QED BY <1>2, <1>3, <1>4, <1>5, <2>1 DEF AloneInv, FilesAsFound
<1>10. QED BY <1>4, <1>6, <1>7, <1>8, <1>9 DEF AdminInv, SuccessAgrees, RefusedUndone

\* A reload of the server for another reason keeps it: what it loads are the files.
LEMMA ServerReloadsInv ==
    ASSUME AdminInv, ServerReloads
    PROVE  AdminInv'
<1>1. /\ serving' = LoadedSite(file, enabled)
      /\ mode' = mode /\ file' = file /\ enabled' = enabled /\ profile' = profile
      /\ updates' = updates /\ verdict' = verdict /\ before' = before /\ lost' = lost
  BY DEF ServerReloads
<1>2. LoadedSite(file, enabled)' = LoadedSite(file, enabled)
      /\ LoadedSite(before.file, before.enabled)' = LoadedSite(before.file, before.enabled)
      /\ ActiveUpdates' = ActiveUpdates
  BY <1>1 DEF LoadedSite, ActiveUpdates, UpdateAt
<1>3. AdminTypeOK'
  <2>1. LoadedSite(file, enabled) \in Publishable
    BY DEF AdminInv, AdminTypeOK, LoadedSite, Publishable
  <2>2. QED BY <1>1, <2>1 DEF AdminInv, AdminTypeOK
<1>4. SuccessAgrees' /\ RefusedUndone'
  BY <1>1, <1>2 DEF AdminInv, SuccessAgrees, RefusedUndone
<1>5. ASSUME NEW u \in AdminSlots, AloneInv(u)
      PROVE  AloneInv(u)'
  BY <1>1, <1>2, <1>5 DEF AloneInv, FilesAsFound
<1>6. QED BY <1>1, <1>2, <1>3, <1>4, <1>5 DEF AdminInv, UpdateAt, ActiveUpdates

\* The invariant holds at the start.
LEMMA AdminStart == AdminInit => AdminInv
<1> SUFFICES ASSUME AdminInit PROVE AdminInv
  OBVIOUS
<1>1. updates = [u \in AdminSlots |-> NoUpdate] /\ ActiveUpdates = {}
  BY AdminValues DEF AdminInit, ActiveUpdates, UpdateAt
<1>2. /\ profile \in Settings /\ file \in Publishable /\ enabled \in BOOLEAN
      /\ serving \in Publishable
  <2>1. profile \in Settings /\ mode \in {"sites", "confd", "direct"}
    BY AdminAssumption DEF AdminInit
  <2>2. profile.enabled \in BOOLEAN /\ profile.address \in Addresses
    BY <2>1 DEF Settings
  <2>3. file \in Publishable /\ enabled \in BOOLEAN
    BY <2>2 DEF AdminInit, Publishable
  <2>4. QED BY <2>1, <2>3 DEF AdminInit, LoadedSite, Publishable
<1>3. AdminTypeOK
  BY <1>1, <1>2, AdminValues DEF AdminInit, AdminTypeOK, UpdateRecord, UpdateSteps
<1>4. QED BY <1>1, <1>3, AdminValues DEF AdminInit, AdminInv, SuccessAgrees, RefusedUndone, UpdateAt

\* Every step keeps the invariant.
LEMMA AdminStepInv == AdminInv /\ [AdminNext]_accessVars => AdminInv'
<1> SUFFICES ASSUME AdminInv, [AdminNext]_accessVars PROVE AdminInv'
  OBVIOUS
<1>1. ASSUME NEW u \in AdminSlots, NEW want \in Offered, BeginUpdate(u, want)
      PROVE  AdminInv'
  <2>1. want \in Settings
    BY AdminAssumption
  <2>2. QED BY <1>1, <2>1, BeginUpdateInv
<1>2. ASSUME NEW u \in AdminSlots, reconcilePackage(u)
      PROVE  AdminInv'
  <2>1. profile \in Settings
    BY DEF AdminInv, AdminTypeOK
  <2>2. QED BY <1>2, <2>1, BeginUpdateInv DEF reconcilePackage
<1>3. ASSUME NEW u \in AdminSlots, UpdateStep(u)
      PROVE  AdminInv'
  BY <1>3, UpdateStepInv
<1>4. CASE AdminStop
  <2>1. updates' = [u \in AdminSlots |-> NoUpdate] /\ ActiveUpdates' = {}
    BY <1>4, AdminValues DEF AdminStop, ActiveUpdates, UpdateAt
  <2>2. AdminTypeOK'
    BY <1>4, <2>1, AdminValues DEF AdminStop, AdminInv, AdminTypeOK, UpdateRecord, UpdateSteps
  <2>3. QED BY <1>4, <2>1, <2>2, AdminValues DEF AdminStop, AdminInv, SuccessAgrees, RefusedUndone, UpdateAt
<1>5. CASE ServerReloads
  BY <1>5, ServerReloadsInv
<1>6. CASE UNCHANGED accessVars
  BY <1>6 DEF accessVars, AdminInv, AdminTypeOK, SuccessAgrees, RefusedUndone, UpdateAt, ActiveUpdates,
              AloneInv, FilesAsFound, LoadedSite
<1>7. QED BY <1>1, <1>2, <1>3, <1>4, <1>5, <1>6 DEF AdminNext

\* AdminInv is an invariant of the access address, whatever the number of connections.
THEOREM AdminInvariance == AdminSpec => []AdminInv
BY AdminStart, AdminStepInv, PTL DEF AdminSpec

\* The files, the server, the profile and every update stay well formed.
THEOREM AdminTypeCorrect == AdminSpec => []AdminTypeOK
<1>1. AdminInv => AdminTypeOK
  BY DEF AdminInv
<1>2. QED BY <1>1, AdminInvariance, PTL

\* An update that answers success, and met no other, left the server with what the profile
\* says and files that keep it so, through every failed step and stop before it.
THEOREM SuccessIsServed == AdminSpec => []SuccessAgrees
<1>1. AdminInv => SuccessAgrees
  BY DEF AdminInv
<1>2. QED BY <1>1, AdminInvariance, PTL

\* An update that is refused, and none of whose restoring steps failed, left the files, the
\* link and the profile as it found them, and the server as it was unless it was behind.
THEOREM RefusalIsUndone == AdminSpec => []RefusedUndone
<1>1. AdminInv => RefusedUndone
  BY DEF AdminInv
<1>2. QED BY <1>1, AdminInvariance, PTL

-----------------------------------------------------------------------------
(* ApacheSites. *)

\* What a step of a command never changes of it.
Same(x, a) ==
    /\ x.command = a.command /\ x.site = a.site /\ x.new = a.new /\ x.alone = a.alone
    /\ x.foundFile = a.foundFile /\ x.foundLink = a.foundLink

\* x is a at another step, with another result of its last program.
Moved(x, a, step, ran) ==
    /\ x \in Op /\ Same(x, a) /\ x.step = step /\ x.ran = ran /\ x.enabled = a.enabled
    /\ x.backup = a.backup /\ x.lost = a.lost

\* What holds where a command that is alone with its site ends.
Ended(op) ==
    /\ op.result # "ok" =>
          /\ "file" \notin op.lost => content[op.site] = op.foundFile
          /\ op.lost = {} /\ op.site \notin stale => (op.site \in links) = op.foundLink
    /\ op.result = "ok" =>
          /\ op.command = "enable" \/ (op.command = "update" /\ op.enabled)
                => served[op.site] # None /\ served[op.site] = content[op.site]
          /\ op.command = "disable" \/ (op.command = "delete" /\ op.enabled) => served[op.site] = None
          /\ (IF direct THEN content[op.site] # None ELSE op.site \in links \cup stale)
                => content[op.site] \in Good \cup {Empty}

\* A step that changes the files of one site and nothing of another.
OnSite(w, s) ==
    /\ UNCHANGED <<direct, stale>>
    /\ content' \in [Sites -> Contents \cup {None}] /\ links' \subseteq Sites
    /\ probes' \in [Slots -> Sites \cup {None}] /\ served' \in [Sites -> Contents \cup {None}]
    /\ up' \in BOOLEAN /\ scheduled' \in BOOLEAN
    /\ direct => links' = {} /\ probes'[w] = None
    /\ \A t \in Sites \ {s} : content'[t] = content[t] /\ (t \in links' <=> t \in links)
    /\ \A v \in Slots \ {w} : probes'[v] = probes[v]

\* The record of no command.
LEMMA IdleIsOp == Idle \in Op /\ Idle.step = "idle" /\ Idle.site = None
BY DEF Idle, Op, Commands, Steps, Outcomes

\* How the record of a command moves on.
LEMMA Records ==
    ASSUME NEW a \in Op
    PROVE  /\ \A r \in Outcomes :
                 /\ Finish(a, r) \in Op /\ Same(Finish(a, r), a) /\ Finish(a, r).step = "idle"
                 /\ Finish(a, r).result = r /\ Finish(a, r).lost = a.lost
                 /\ Finish(a, r).enabled = a.enabled
           /\ \A x \in {"file", "link"} :
                 /\ Lose(a, x) \in Op /\ Same(Lose(a, x), a) /\ Lose(a, x).lost = a.lost \cup {x}
                 /\ Lose(a, x).step = a.step /\ Lose(a, x).ran = a.ran /\ Lose(a, x).undo = a.undo
                 /\ Lose(a, x).result = a.result /\ Lose(a, x).enabled = a.enabled
                 /\ Lose(a, x).backup = a.backup
           /\ \A st \in Steps, o \in Outcomes :
                 /\ Moved([a EXCEPT !.step = st], a, st, a.ran)
                 /\ Moved([a EXCEPT !.step = st, !.ran = o], a, st, o)
<1>1. "idle" \in Steps
  BY DEF Steps
<1>2. ASSUME NEW r \in Outcomes
      PROVE  /\ Finish(a, r) \in Op /\ Same(Finish(a, r), a) /\ Finish(a, r).step = "idle"
             /\ Finish(a, r).result = r /\ Finish(a, r).lost = a.lost
             /\ Finish(a, r).enabled = a.enabled
  BY <1>1 DEF Op, Finish, Same
<1>3. ASSUME NEW x \in {"file", "link"}
      PROVE  /\ Lose(a, x) \in Op /\ Same(Lose(a, x), a) /\ Lose(a, x).lost = a.lost \cup {x}
             /\ Lose(a, x).step = a.step /\ Lose(a, x).ran = a.ran /\ Lose(a, x).undo = a.undo
             /\ Lose(a, x).result = a.result /\ Lose(a, x).enabled = a.enabled
             /\ Lose(a, x).backup = a.backup
  <2>1. a.lost \cup {x} \in SUBSET {"file", "link"}
    BY DEF Op
  <2>2. QED BY <2>1 DEF Op, Lose, Same
<1>4. ASSUME NEW st \in Steps, NEW o \in Outcomes
      PROVE  /\ Moved([a EXCEPT !.step = st], a, st, a.ran)
             /\ Moved([a EXCEPT !.step = st, !.ran = o], a, st, o)
  BY DEF Op, Same, Moved
<1>5. QED BY <1>2, <1>3, <1>4

\* The plans of one, two and three steps, undone from the front.
Undoing(b, a, step, rest, r) ==
    /\ b \in Op /\ Same(b, a) /\ b.step = step /\ b.undo = rest /\ b.result = r
    /\ b.enabled = a.enabled /\ b.backup = a.backup /\ b.ran = a.ran /\ b.lost = a.lost

LEMMA PlanSteps ==
    ASSUME NEW a \in Op, NEW r \in Outcomes,
           NEW x \in UndoSteps, NEW y \in UndoSteps, NEW z \in UndoSteps
    PROVE  /\ Undoing(Undo(a, <<x>>, r), a, x, <<>>, r)
           /\ Undoing(Undo(a, <<x, y>>, r), a, x, <<y>>, r)
           /\ Undoing(Undo(a, <<x, y, z>>, r), a, x, <<y, z>>, r)
           /\ Undo(a, <<>>, r) = Finish(a, r)
<1>1. ASSUME NEW p \in Seq(UndoSteps), p # <<>>, NEW q, NEW h, Head(p) = h, Tail(p) = q
      PROVE  Undoing(Undo(a, p, r), a, h, q, r)
  <2>1. h \in UndoSteps /\ q \in Seq(UndoSteps)
    BY <1>1
  <2>2. h \in Steps
    BY <2>1 DEF Steps
  <2>3. Undo(a, p, r) = [a EXCEPT !.step = h, !.undo = q, !.result = r]
    BY <1>1 DEF Undo
  <2>4. QED BY <2>1, <2>2, <2>3 DEF Op, Same, Undoing
<1>2. Undoing(Undo(a, <<x>>, r), a, x, <<>>, r)
  <2>1. <<x>> \in Seq(UndoSteps) /\ <<x>> # <<>> /\ Head(<<x>>) = x /\ Tail(<<x>>) = <<>>
    OBVIOUS
  <2>2. QED BY <2>1, <1>1, Zenon
<1>3. Undoing(Undo(a, <<x, y>>, r), a, x, <<y>>, r)
  <2>1. <<x, y>> \in Seq(UndoSteps) /\ <<x, y>> # <<>> /\ Head(<<x, y>>) = x /\ Tail(<<x, y>>) = <<y>>
    OBVIOUS
  <2>2. QED BY <2>1, <1>1, Zenon
<1>4. Undoing(Undo(a, <<x, y, z>>, r), a, x, <<y, z>>, r)
  <2>1. /\ <<x, y, z>> \in Seq(UndoSteps) /\ <<x, y, z>> # <<>>
        /\ Head(<<x, y, z>>) = x /\ Tail(<<x, y, z>>) = <<y, z>>
    OBVIOUS
  <2>2. QED BY <2>1, <1>1, Zenon
<1>5. Undo(a, <<>>, r) = Finish(a, r)
  BY DEF Undo
<1>6. QED BY <1>2, <1>3, <1>4, <1>5

-----------------------------------------------------------------------------
\* What the invariant says of the command of one connection.
LEMMA OpFacts ==
    ASSUME SitesInv, NEW w \in Slots
    PROVE  /\ ops[w] \in Op /\ Shape(ops[w]) /\ (ops[w].step = "idle" => ops[w] = Idle)
           /\ ops[w].site # None /\ ops[w].alone => Known(ops[w], probes[w])
           /\ probes[w] # None => ops[w].step \in {"test", "judge"} /\ probes[w] = ops[w].site /\ ~direct
           /\ content \in [Sites -> Contents \cup {None}] /\ links \subseteq Sites /\ stale \subseteq Sites
           /\ direct \in BOOLEAN /\ served \in [Sites -> Contents \cup {None}]
           /\ probes \in [Slots -> Sites \cup {None}] /\ up \in BOOLEAN /\ scheduled \in BOOLEAN
           /\ direct => links = {} /\ stale = {}
BY DEF SitesInv, TypeOK

\* A command that is alone with its site is the only one that probes it.
LEMMA NoOtherProbe ==
    ASSUME SitesInv, NEW w \in Slots, ops[w].alone, ops[w].site # None
    PROVE  \A v \in Slots \ {w} : ops[v].site # ops[w].site /\ probes[v] # ops[w].site
<1> SUFFICES ASSUME NEW v \in Slots \ {w}
             PROVE  ops[v].site # ops[w].site /\ probes[v] # ops[w].site
  OBVIOUS
<1>1. ops[v].site # ops[w].site
  BY DEF SitesInv
<1>2. probes[v] # None => probes[v] = ops[v].site
  BY OpFacts
<1>3. QED BY <1>1, <1>2

\* A step on one site keeps the invariant if it keeps it of its own command: another
\* command, and a site that no command is at work on, see nothing of it.
LEMMA SiteStep ==
    ASSUME SitesInv, NEW w \in Slots, ops[w].step # "idle", NEW op \in Op, NEW probe,
           Same(op, ops[w]), OnSite(w, op.site), Move(w, op), probes'[w] = probe,
           probe # None => op.step \in {"test", "judge"} /\ probe = op.site,
           Shape(op)',
           op.step # "idle" /\ op.alone /\ op.site # None => Known(op, probe)',
           op.step = "idle" /\ op.alone /\ op.site # None => Ended(op)'
    PROVE  SitesInv'
<1>1. PICK a, s : a = ops[w] /\ s = op.site
  OBVIOUS
<1>2. /\ a \in Op /\ s = a.site /\ op.alone = a.alone /\ op.command = a.command /\ s \in Sites \cup {None}
      /\ op.foundFile = a.foundFile /\ op.foundLink = a.foundLink
  BY <1>1, OpFacts DEF Same, Op
<1>3. /\ ops \in [Slots -> Op]
      /\ direct' = direct /\ stale' = stale /\ direct \in BOOLEAN
      /\ \A t \in Sites \ {s} : content'[t] = content[t] /\ (t \in links' <=> t \in links)
      /\ \A v \in Slots \ {w} : probes'[v] = probes[v]
  BY <1>1 DEF SitesInv, TypeOK, OnSite
<1>4. /\ ops' \in [Slots -> Op] /\ answer' \in Op
      /\ \A v \in Slots \ {w} : ops'[v] = ops[v]
      /\ op.step # "idle" => ops'[w] = op /\ answer' = Idle /\ shaken' = shaken
      /\ op.step = "idle" => ops'[w] = Idle /\ shaken' = Shake(op)
  <2>0. <<>> \in Seq(UndoSteps) /\ "ok" \in Outcomes
    BY DEF Outcomes
  <2>1. [op EXCEPT !.backup = None, !.new = None, !.ran = "ok", !.undo = <<>>] \in Op
    BY <2>0 DEF Op
  <2>2. QED BY <1>3, <2>1, IdleIsOp DEF Move
<1>5. op.step = "idle" =>
        /\ answer'.command = op.command /\ answer'.site = s /\ answer'.alone = op.alone
        /\ answer'.result = op.result /\ answer'.lost = op.lost /\ answer'.enabled = op.enabled
        /\ answer'.foundFile = op.foundFile /\ answer'.foundLink = op.foundLink
  BY <1>1 DEF Move, Op
<1>6. \A t \in Sites \ {s} : t \in shaken' <=> t \in shaken
  BY <1>1, <1>4 DEF Shake
<1>7. shaken' \subseteq Sites
  BY <1>1, <1>2, <1>4 DEF Shake, SitesInv, TypeOK
<1>8. \A v \in Slots : /\ ops'[v].step = "idle" => ops'[v] = Idle
                       /\ Shape(ops[v])'
  <2>1. Shape(Idle)'
    BY IdleIsOp DEF Shape, Idle, UndoSteps
  <2>2. \A v \in Slots \ {w} : (ops[v].step = "idle" => ops[v] = Idle) /\ Shape(ops[v])
    BY OpFacts
  <2>3. ASSUME NEW v \in Slots \ {w} PROVE (ops'[v].step = "idle" => ops'[v] = Idle) /\ Shape(ops[v])'
    BY <2>2, <1>3, <1>4 DEF Shape, PlansOf
  <2>4. ops'[w].step = "idle" => ops'[w] = Idle
    BY <1>4
  <2>5. Shape(ops[w])'
    BY <2>1, <1>4 DEF Shape, PlansOf
  <2>6. QED BY <2>3, <2>4, <2>5
<1>9. TypeOK'
  <2>1. ASSUME NEW v \in Slots
        PROVE  /\ direct => probes'[v] = None
               /\ probes'[v] # None => ops'[v].step \in {"test", "judge"} /\ probes'[v] = ops'[v].site
    <3>1. CASE v = w
      BY <3>1, <1>4, IdleIsOp DEF OnSite
    <3>2. CASE v # w
      BY <3>2, <1>3, <1>4 DEF SitesInv, TypeOK
    <3>3. QED BY <3>1, <3>2
  <2>2. \A v \in Slots : direct => ops'[v].step \notin {"probe", "unswitch"}
    BY <1>3, <1>8 DEF Shape
  <2>3. direct => stale = {} /\ stale \subseteq Sites
    BY DEF SitesInv, TypeOK
  <2>4. \A v \in Slots : /\ ops'[v].command \in Commands /\ ops'[v].site \in Sites \cup {None}
                         /\ ops'[v].step \in Steps
                         /\ ops'[v].result \in Outcomes /\ ops'[v].ran \in Outcomes
                         /\ ops'[v].backup \in Contents \cup {None}
                         /\ ops'[v].undo \in Seq(UndoSteps)
                         /\ ops'[v].lost \subseteq {"file", "link"}
    BY <1>4 DEF Op
  <2>5. stale \subseteq Sites
    BY DEF SitesInv, TypeOK
  <2>6. QED BY <1>3, <1>7, <2>1, <2>2, <2>3, <2>4, <2>5 DEF TypeOK, OnSite
<1>10. \A u, v \in Slots : u # v /\ ops'[u].site = ops'[v].site /\ ops'[v].site # None => ~ops'[v].alone
  <2>1. (ops'[w].site = a.site /\ ops'[w].alone = a.alone) \/ ops'[w].site = None
    BY <1>1, <1>2, <1>4, IdleIsOp
  <2>2. QED BY <2>1, <1>1, <1>4 DEF SitesInv
<1>11. ASSUME NEW v \in Slots, ops'[v].site # None, ops'[v].alone PROVE Known(ops[v], probes[v])'
  <2>1. CASE v = w
    <3>1. op.step # "idle" /\ ops'[w] = op
      BY <2>1, <1>4, <1>11, IdleIsOp
    <3>2. Known(op, probe)'
      BY <3>1, <2>1, <1>11
    <3>3. QED BY <3>1, <3>2, <2>1 DEF Known, FileKnown, LinkKnown, TestKnown, WasRead
  <2>2. CASE v # w
    <3>1. PICK b : b = ops[v] /\ ops'[v] = b /\ b \in Op /\ b.alone /\ b.site # None
      BY <2>2, <1>3, <1>4, <1>11
    <3>2. b.site # s /\ b.site \in Sites
      BY <3>1, <2>2, <1>1, <1>2 DEF SitesInv, Op
    <3>3. Known(b, probes[v]) /\ probes'[v] = probes[v]
      BY <3>1, <2>2, <1>3, OpFacts
    <3>4. content'[b.site] = content[b.site] /\ (b.site \in links' <=> b.site \in links)
          /\ (b.site \in shaken' <=> b.site \in shaken)
      BY <3>2, <1>3, <1>6
    <3>5. FileKnown(b)'
      BY <3>3, <3>4 DEF Known, FileKnown
    <3>6. LinkKnown(b)'
      BY <3>3, <3>4, <1>3 DEF Known, LinkKnown
    <3>7. TestKnown(b, probes[v])'
      BY <3>3, <3>4, <1>3 DEF Known, TestKnown, WasRead
    <3>8. QED BY <3>1, <3>3, <3>5, <3>6, <3>7 DEF Known, FileKnown, LinkKnown, TestKnown, WasRead
  <2>3. QED BY <2>1, <2>2
<1>12. ASSUME op.alone, s # None PROVE s \notin Probed' \/ op.step # "idle"
  <2>1. \A v \in Slots \ {w} : probes'[v] # s
    BY <1>1, <1>2, <1>3, <1>12, NoOtherProbe
  <2>2. op.step = "idle" => probes'[w] = None
    OBVIOUS
  <2>3. QED BY <2>1, <2>2, <1>12 DEF Probed
<1>13. SettledSitesAccepted'
  <2> SUFFICES ASSUME NEW t \in Included' \ shaken', \A v \in Slots : ops'[v].site # t
               PROVE  content'[t] \in Good \cup {Empty}
    BY DEF SettledSitesAccepted
  <2>1. CASE t = s /\ t \in Sites
    <3>1. op.step = "idle"
      BY <2>1, <1>1, <1>4
    <3>2. op.alone /\ op.lost = {} /\ s # None
      BY <2>1, <3>1, <1>1, <1>4, ContentAssumption DEF Shake
    <3>3. Ended(op)'
      BY <3>1, <3>2, <1>1
    <3>4. s \in Included' => IF direct THEN content'[s] # None ELSE s \in links' \cup stale
      BY <3>1, <3>2, <1>3, <1>12 DEF Included
    <3>5. CASE op.result = "ok"
      BY <3>3, <3>4, <3>5, <2>1, <1>1, <1>3 DEF Ended
    <3>6. CASE op.result # "ok"
      <4>1. s \notin shaken
        BY <3>1, <3>2, <3>6, <2>1, <1>1, <1>4 DEF Shake
      <4>2. content'[s] = op.foundFile /\ (s \notin stale => (s \in links') = op.foundLink)
        BY <3>2, <3>3, <3>6, <1>1, <1>3 DEF Ended
      <4>3. Known(a, probes[w])
        BY <3>2, <1>1, <1>2, OpFacts
      <4>4. WasRead(a) => a.foundFile \in Good \cup {Empty}
        BY <4>1, <4>3, <1>2 DEF Known, TestKnown
      <4>5. WasRead(a)
        BY <3>4, <4>2, <2>1, <1>2 DEF WasRead
      <4>6. QED BY <4>2, <4>4, <4>5, <2>1, <1>2
    <3>7. QED BY <3>5, <3>6
  <2>2. CASE t \in Sites /\ t # s
    <3>1. \A v \in Slots : ops[v].site # t
      <4>1. \A v \in Slots \ {w} : ops[v].site # t
        BY <1>4
      <4>2. QED BY <4>1, <2>2, <1>1, <1>2
    <3>2. t \notin Probed'
      <4>1. \A v \in Slots : probes'[v] # None => probes'[v] = ops'[v].site
        BY <1>9 DEF TypeOK
      <4>2. QED BY <4>1 DEF Probed
    <3>3. t \in Included
      BY <3>2, <2>2, <1>3 DEF Included
    <3>4. t \notin shaken
      BY <2>2, <1>6
    <3>5. content[t] \in Good \cup {Empty}
      BY <3>1, <3>3, <3>4 DEF SitesInv, SettledSitesAccepted
    <3>6. QED BY <3>5, <2>2, <1>3
  <2>3. t \in Sites
    <3>1. Probed' \subseteq Sites /\ links' \subseteq Sites /\ stale' \subseteq Sites
      BY <1>9 DEF Probed, TypeOK
    <3>2. QED BY <3>1 DEF Included
  <2>4. QED BY <2>1, <2>2, <2>3
<1>14. RefusedKeepsSite' /\ SuccessServed'
  <2>1. CASE op.step # "idle"
    BY <2>1, <1>4, IdleIsOp DEF RefusedKeepsSite, SuccessServed, Answered
  <2>2. CASE op.step = "idle" /\ ~(op.alone /\ s # None)
    BY <2>2, <1>5 DEF RefusedKeepsSite, SuccessServed, Answered
  <2>3. CASE op.step = "idle" /\ op.alone /\ s # None
    <3>1. Ended(op)'
      BY <2>3, <1>1
    <3>2. RefusedKeepsSite'
      BY <2>3, <3>1, <1>1, <1>5 DEF RefusedKeepsSite, Answered, Ended
    <3>3. SuccessServed'
      BY <2>3, <3>1, <1>1, <1>5 DEF SuccessServed, Answered, Ended
    <3>4. QED BY <3>2, <3>3
  <2>4. QED BY <2>1, <2>2, <2>3
<1>15. QED BY <1>4, <1>8, <1>9, <1>10, <1>11, <1>13, <1>14 DEF SitesInv

\* The same for a step that changes no file and no link.
LEMMA QuietStep ==
    ASSUME SitesInv, NEW w \in Slots, ops[w].step # "idle", NEW op \in Op,
           Same(op, ops[w]), Move(w, op), UNCHANGED <<content, links, probes, direct, stale>>,
           served' \in [Sites -> Contents \cup {None}], up' \in BOOLEAN, scheduled' \in BOOLEAN,
           probes[w] # None => op.step \in {"test", "judge"},
           Shape(op),
           op.step # "idle" /\ op.alone /\ op.site # None => Known(op, probes[w]),
           op.step = "idle" /\ op.alone /\ op.site # None => Ended(op)'
    PROVE  SitesInv'
<1>1. PICK probe : probe = probes[w]
  OBVIOUS
<1>2. probe # None => op.step \in {"test", "judge"} /\ probe = op.site /\ ~direct
  BY <1>1, OpFacts DEF Same
<1>3. OnSite(w, op.site) /\ probes'[w] = probe
  BY <1>1, <1>2, OpFacts DEF OnSite
<1>4. Shape(op)'
  BY DEF Shape, PlansOf
<1>5. op.step # "idle" /\ op.alone /\ op.site # None => Known(op, probe)'
  <2> SUFFICES ASSUME op.step # "idle", op.alone, op.site # None PROVE Known(op, probe)'
    OBVIOUS
  <2>1. Known(op, probe) /\ shaken' = shaken
    BY <1>1 DEF Move
  <2>2. QED BY <2>1 DEF Known, FileKnown, LinkKnown, TestKnown, WasRead
<1>6. QED BY <1>2, <1>3, <1>4, <1>5, SiteStep

\* A command that ends has no step left, and no shape to keep.
LEMMA EndShape ==
    ASSUME NEW op, op.step = "idle"
    PROVE  Shape(op) /\ Shape(op)'
BY DEF Shape, UndoSteps

\* A command that ends without success and changes nothing any more.
LEMMA QuietEnd ==
    ASSUME SitesInv, NEW w \in Slots, ops[w].step \notin {"idle", "test", "judge"}, NEW op \in Op,
           Same(op, ops[w]), op.step = "idle", op.result # "ok", Move(w, op),
           UNCHANGED <<content, links, probes, direct, stale, served, up, scheduled>>,
           op.alone /\ op.site # None =>
              /\ "file" \notin op.lost => content[op.site] = op.foundFile
              /\ op.lost = {} /\ op.site \notin stale => (op.site \in links) = op.foundLink
    PROVE  SitesInv'
<1>1. probes[w] = None
  BY OpFacts
<1>2. op.alone /\ op.site # None => Ended(op)'
  BY DEF Ended
<1>3. QED BY <1>1, <1>2, EndShape, QuietStep, OpFacts

\* Refused before any file is looked at.
LEMMA RefuseStep ==
    ASSUME SitesInv, NEW w \in Slots, Refuse(w)
    PROVE  SitesInv'
<1>1. PICK a : a = ops[w] /\ a \in Op
  BY OpFacts
<1>2. PICK r \in {"failed", "error"} : Move(w, Finish(a, r))
  BY <1>1 DEF Refuse
<1>3. PICK op : op = Finish(a, r)
  OBVIOUS
<1>a. r \in Outcomes /\ r # "ok"
  BY DEF Outcomes
<1>4. op \in Op /\ Same(op, a) /\ op.step = "idle" /\ op.result = r
  BY <1>1, <1>3, <1>a, Records
<1>5. a.step = "start"
  BY <1>1 DEF Refuse, At
<1>6. a.alone /\ a.site # None => content[a.site] = a.foundFile /\ (a.site \in links) = a.foundLink
  BY <1>1, <1>5, OpFacts DEF Known, FileKnown, LinkKnown
<1>7. QED BY <1>1, <1>2, <1>3, <1>a, <1>4, <1>5, <1>6, QuietEnd DEF Refuse, Disk, Server, Same

\* create begins.
LEMMA StartCreateStep ==
    ASSUME SitesInv, NEW w \in Slots, StartCreate(w)
    PROVE  SitesInv'
<1>1. PICK a : a = ops[w] /\ a \in Op
  BY OpFacts
<1>2. a.step = "start" /\ a.command = "create" /\ Shape(a)
  BY <1>1, OpFacts DEF StartCreate, At
<1>3. a.alone /\ a.site # None => Known(a, probes[w])
  BY <1>1, OpFacts
<1>4. CASE content[a.site] # None
  <2>1. PICK op : op = Finish(a, "failed")
    OBVIOUS
  <2>2. op \in Op /\ Same(op, a) /\ op.step = "idle" /\ op.result = "failed"
    BY <1>1, <2>1, Records DEF Outcomes
  <2>3. a.alone /\ a.site # None => content[a.site] = a.foundFile /\ (a.site \in links) = a.foundLink
    BY <1>2, <1>3 DEF Known, FileKnown, LinkKnown
  <2>4. QED BY <1>1, <1>2, <1>4, <2>1, <2>2, <2>3, QuietEnd DEF StartCreate, Disk, Server, Same
<1>5. CASE content[a.site] = None
  <2>1. PICK op : op = [a EXCEPT !.step = "write"]
    OBVIOUS
  <2>2. Moved(op, a, "write", a.ran)
    BY <1>1, <2>1, Records DEF Steps, Outcomes
  <2>3. Shape(op)
    BY <1>2, <2>2 DEF Shape, Moved, Same, StepsOf, UndoSteps
  <2>4. a.alone /\ a.site # None => Known(op, probes[w])
    BY <1>2, <1>3, <1>5, <2>2 DEF Known, FileKnown, LinkKnown, TestKnown, WasRead, Moved, Same
  <2>5. probes[w] = None
    BY <1>1, <1>2, OpFacts
  <2>6. op \in Op /\ Same(op, a) /\ op.step = "write"
    BY <2>2 DEF Moved
  <2>7. Move(w, op)
    BY <1>1, <1>5, <2>1 DEF StartCreate
  <2>8. QED BY <1>1, <1>2, <2>3, <2>4, <2>5, <2>6, <2>7, QuietStep, OpFacts DEF StartCreate, Disk, Server, Same
<1>6. QED BY <1>4, <1>5

\* Which commands are at a step.
LEMMA StepFacts ==
    ASSUME NEW a \in Op, Shape(a)
    PROVE  /\ a.step \in {"start", "backup", "write", "switch", "check", "remove", "probe"} \cup UndoSteps
                => a.site \in Sites /\ a.site # None /\ a.command \in SiteCommands
           /\ a.step = "backup" => a.command \in {"update", "delete"}
           /\ a.step \in {"write", "probe"} =>
                 a.command \in {"create", "update"} /\ a.new # None /\ a.new \in Contents
           /\ a.step \in {"switch", "check", "unswitch"} =>
                 a.command \in {"enable", "disable", "delete"} /\ ~direct
           /\ a.step = "probe" => ~direct
           /\ a.step = "remove" => a.command = "delete"
           /\ a.step = "unwrite" => a.command = "create"
           /\ a.step = "restore" => a.command \in {"update", "delete"}
           /\ a.step = "rereload" => a.command \in {"update", "enable", "disable", "delete"}
           /\ a.step = "schedule" => a.command = "restart"
           /\ a.step = "reload" => a.command # "restart"
           /\ a.step = "idle" \/ (a.site = None <=> a.command \in {"reload", "restart"})
           /\ a.step \in UndoSteps => a.undo \in PlansOf(a) /\ a.result # "ok"
<1>1. a.command \in {"create", "update", "enable", "disable", "delete", "reload", "restart"}
  BY DEF Op, Commands, SiteCommands
<1>2. /\ StepsOf["create"] = {"start", "write", "probe", "test", "judge", "reload", "unwrite"}
      /\ StepsOf["update"] = {"start", "backup", "write", "probe", "test", "judge", "reload", "restore",
                              "rereload"}
      /\ StepsOf["enable"] = {"start", "switch", "check", "test", "judge", "reload", "unswitch", "rereload"}
      /\ StepsOf["disable"] = {"start", "switch", "check", "test", "judge", "reload", "unswitch", "rereload"}
      /\ StepsOf["delete"] = {"start", "backup", "switch", "check", "remove", "test", "judge", "reload",
                              "restore", "unswitch", "rereload"}
      /\ StepsOf["reload"] = {"test", "judge", "reload"}
      /\ StepsOf["restart"] = {"test", "judge", "schedule"}
  BY DEF StepsOf
<1>3. a.step # "idle" =>
          /\ (a.command \in SiteCommands) = (a.site # None)
          /\ (a.command \in {"create", "update"}) = (a.new # None)
          /\ a.step \in StepsOf[a.command]
  BY DEF Shape
<1>4. direct => a.step \notin {"probe", "switch", "check", "unswitch"}
  BY DEF Shape
<1>5. a.step \in UndoSteps => a.undo \in PlansOf(a) /\ a.result # "ok"
  BY DEF Shape
<1>6. (a.site # None => a.site \in Sites) /\ (a.new # None => a.new \in Contents)
  BY DEF Op, Contents
<1>7. /\ a.step = "backup" => a.command \in {"update", "delete"}
      /\ a.step \in {"write", "probe"} => a.command \in {"create", "update"}
      /\ a.step \in {"switch", "check", "unswitch"} => a.command \in {"enable", "disable", "delete"}
      /\ a.step = "remove" => a.command = "delete"
      /\ a.step = "unwrite" => a.command = "create"
      /\ a.step = "restore" => a.command \in {"update", "delete"}
      /\ a.step = "rereload" => a.command \in {"update", "enable", "disable", "delete"}
      /\ a.step = "schedule" => a.command = "restart"
      /\ a.step = "reload" => a.command # "restart"
      /\ a.step = "start" => a.command \in SiteCommands
  BY <1>1, <1>2, <1>3 DEF SiteCommands
<1>8. a.step \in {"start", "backup", "write", "switch", "check", "remove", "probe"} \cup UndoSteps
                => a.command \in SiteCommands /\ a.step # "idle"
  BY <1>7 DEF SiteCommands, UndoSteps
<1>9. a.step = "idle" \/ (a.site = None <=> a.command \in {"reload", "restart"})
  BY <1>1, <1>3 DEF SiteCommands
<1>10. QED BY <1>3, <1>4, <1>5, <1>6, <1>7, <1>8, <1>9

\* The other commands on a site begin.
LEMMA StartExistingStep ==
    ASSUME SitesInv, NEW w \in Slots, StartExisting(w)
    PROVE  SitesInv'
<1>1. PICK a, on : a = ops[w] /\ a \in Op /\ on = siteEnabled(a.site)
  BY OpFacts
<1>2. a.step = "start" /\ a.command # "create" /\ Shape(a) /\ probes[w] = None
      /\ a.command \in {"update", "enable", "disable", "delete"} /\ a.site # None
  <2>1. a.step = "start" /\ a.command # "create" /\ Shape(a) /\ probes[w] = None
    BY <1>1, OpFacts DEF StartExisting, At
  <2>2. QED BY <1>1, <2>1, StepFacts DEF SiteCommands
<1>3. a.alone => Known(a, probes[w])
  BY <1>1, <1>2, OpFacts
<1>4. a.alone => /\ content[a.site] = a.foundFile /\ (a.site \in links) = a.foundLink
                 /\ direct => ~a.foundLink
  BY <1>2, <1>3 DEF Known, FileKnown, LinkKnown
<1>5. ASSUME Move(w, Finish(a, "failed")) PROVE SitesInv'
  <2>1. PICK op : op = Finish(a, "failed")
    OBVIOUS
  <2>2. op \in Op /\ Same(op, a) /\ op.step = "idle" /\ op.result = "failed"
    BY <1>1, <2>1, Records DEF Outcomes
  <2>3. QED BY <1>1, <1>2, <1>4, <1>5, <2>1, <2>2, QuietEnd DEF StartExisting, Disk, Server, Same
<1>6. ASSUME content[a.site] # None, ~(a.command = "enable" /\ on),
             ~(a.command = "disable" /\ (~on \/ direct)), NEW op,
             op = [a EXCEPT !.enabled = on,
                     !.step = IF a.command \in {"update", "delete"} THEN "backup" ELSE "switch"],
             Move(w, op)
      PROVE  SitesInv'
  <2>1. on \in BOOLEAN
    BY <1>1, OpFacts DEF siteEnabled
  <2>a. PICK st \in Steps : st = IF a.command \in {"update", "delete"} THEN "backup" ELSE "switch"
    BY DEF Steps
  <2>b. /\ op \in Op /\ Same(op, a) /\ op.enabled = on /\ op.lost = a.lost /\ op.step = st
    BY <1>1, <1>6, <2>1, <2>a DEF Op, Same
  <2>2. /\ op \in Op /\ Same(op, a) /\ op.enabled = on /\ op.lost = a.lost
        /\ op.step = IF a.command \in {"update", "delete"} THEN "backup" ELSE "switch"
    BY <2>a, <2>b
  <2>3. direct => on
    BY <1>1 DEF siteEnabled
  <2>4. Shape(op)
    BY <1>2, <1>6, <2>2, <2>3 DEF Shape, Same, StepsOf, UndoSteps
  <2>5. ASSUME a.alone PROVE Known(op, probes[w])
    <3>1. \A v \in Slots \ {w} : probes[v] # a.site
      BY <1>1, <1>2, <2>5, NoOtherProbe
    <3>2. a.site \notin Probed
      BY <3>1, <1>2 DEF Probed
    <3>3. on = (direct \/ a.foundLink \/ a.site \in stale)
      BY <3>2, <1>1, <1>4, <1>6, <2>5 DEF siteEnabled
    <3>4. FileKnown(op)
      BY <1>2, <1>4, <1>6, <2>2, <2>5 DEF FileKnown, Same
    <3>5. LinkKnown(op)
      <4>1. a.foundLink \in BOOLEAN
        BY <1>1 DEF Op
      <4>2. a.command \in {"update", "delete"} => LinkKnown(op)
        BY <4>1, <3>3, <1>2, <1>4, <2>1, <2>2, <2>5 DEF LinkKnown, Same
      <4>3. a.command = "enable" => LinkKnown(op)
        <5>1. a.command = "enable" => ~a.foundLink /\ a.site \notin stale
          BY <3>3, <1>6
        <5>2. QED BY <5>1, <4>1, <1>2, <1>4, <2>2, <2>5 DEF LinkKnown, Same
      <4>4. a.command = "disable" => LinkKnown(op)
        BY <4>1, <3>3, <1>2, <1>4, <1>6, <2>2, <2>5 DEF LinkKnown, Same
      <4>5. QED BY <4>2, <4>3, <4>4, <1>2
    <3>6. TestKnown(op, probes[w])
      BY <1>2, <1>3, <2>2, <2>5 DEF Known, TestKnown, WasRead, Same
    <3>7. QED BY <3>4, <3>5, <3>6 DEF Known
  <2>6. op.step # "idle"
    BY <2>2
  <2>7. UNCHANGED <<content, links, probes, direct, stale, served, up, scheduled>>
    BY DEF StartExisting, Disk, Server
  <2>8. op.alone = a.alone /\ op.site = a.site
    BY <2>2 DEF Same
  <2>9. QED BY <1>1, <1>2, <1>6, <2>2, <2>4, <2>5, <2>6, <2>7, <2>8, QuietStep, OpFacts
<1>7. QED BY <1>1, <1>5, <1>6 DEF StartExisting

\* backup.
LEMMA BackupStep ==
    ASSUME SitesInv, NEW w \in Slots, Backup(w)
    PROVE  SitesInv'
<1>1. PICK a : a = ops[w] /\ a \in Op
  BY OpFacts
<1>2. a.step = "backup" /\ Shape(a) /\ probes[w] = None /\ a.command \in {"update", "delete"}
      /\ a.site # None
  <2>1. a.step = "backup" /\ Shape(a) /\ probes[w] = None
    BY <1>1, OpFacts DEF Backup, At
  <2>2. QED BY <1>1, <2>1, StepFacts
<1>3. a.alone => Known(a, probes[w])
  BY <1>1, <1>2, OpFacts
<1>4. a.alone => content[a.site] = a.foundFile /\ (a.site \in links) = a.foundLink
  BY <1>2, <1>3 DEF Known, FileKnown, LinkKnown
<1>5. ASSUME Move(w, Finish(a, "error")) PROVE SitesInv'
  <2>1. PICK op : op = Finish(a, "error")
    OBVIOUS
  <2>2. op \in Op /\ Same(op, a) /\ op.step = "idle" /\ op.result = "error"
    BY <1>1, <2>1, Records DEF Outcomes
  <2>3. QED BY <1>1, <1>2, <1>4, <1>5, <2>1, <2>2, QuietEnd DEF Backup, Disk, Server, Same
<1>6. ASSUME content[a.site] # None, NEW op,
             op = [a EXCEPT !.backup = content[a.site],
                     !.step = IF a.command = "update" THEN "write"
                              ELSE IF a.enabled /\ ~direct THEN "switch"
                              ELSE "remove"],
             Move(w, op)
      PROVE  SitesInv'
  <2>1. content[a.site] \in Contents \cup {None}
    BY <1>1, <1>2, OpFacts DEF Op
  <2>2. /\ op \in Op /\ Same(op, a) /\ op.enabled = a.enabled /\ op.lost = a.lost
        /\ op.backup = content[a.site]
        /\ op.step = IF a.command = "update" THEN "write"
                     ELSE IF a.enabled /\ ~direct THEN "switch" ELSE "remove"
    <3>1. PICK st \in Steps : st = IF a.command = "update" THEN "write"
                                   ELSE IF a.enabled /\ ~direct THEN "switch" ELSE "remove"
      BY DEF Steps
    <3>2. /\ op \in Op /\ Same(op, a) /\ op.enabled = a.enabled /\ op.lost = a.lost
          /\ op.backup = content[a.site] /\ op.step = st
      BY <1>1, <1>6, <2>1, <3>1 DEF Op, Same
    <3>3. QED BY <3>1, <3>2
  <2>3. Shape(op)
    BY <1>2, <1>6, <2>2 DEF Shape, Same, StepsOf, UndoSteps
  <2>4. ASSUME a.alone PROVE Known(op, probes[w])
    <3>1. direct => links = {} /\ stale = {}
      BY OpFacts
    <3>2. FileKnown(op)
      BY <1>2, <1>3, <1>4, <1>6, <2>2, <2>4 DEF Known, FileKnown, Same
    <3>3. a.enabled = (direct \/ a.foundLink \/ a.site \in stale)
      BY <1>2, <1>3, <2>4 DEF Known, LinkKnown
    <3>4. LinkKnown(op)
      BY <3>1, <3>3, <1>2, <1>4, <2>2, <2>4 DEF LinkKnown, Same
    <3>5. TestKnown(op, probes[w])
      BY <1>2, <1>3, <2>2, <2>4 DEF Known, TestKnown, WasRead, Same
    <3>6. QED BY <3>2, <3>4, <3>5 DEF Known
  <2>5. op.step # "idle"
    BY <2>2
  <2>6. UNCHANGED <<content, links, probes, direct, stale, served, up, scheduled>>
    BY DEF Backup, Disk, Server
  <2>7. op.alone = a.alone /\ op.site = a.site
    BY <2>2 DEF Same
  <2>8. QED BY <1>1, <1>2, <1>6, <2>2, <2>3, <2>4, <2>5, <2>6, <2>7, QuietStep, OpFacts
<1>7. QED BY <1>1, <1>5, <1>6 DEF Backup

\* Writing a file of the site of w, and nothing else.
LEMMA WritesFile ==
    ASSUME SitesInv, NEW w \in Slots, ops[w].site # None, NEW c \in Contents \cup {None},
           content' = [content EXCEPT ![ops[w].site] = c], UNCHANGED <<links, probes, Server>>,
           ops[w].step \notin {"test", "judge"}
    PROVE  /\ OnSite(w, ops[w].site) /\ content'[ops[w].site] = c
           /\ probes'[w] = None /\ served' = served
<1>1. ops[w].site \in Sites
  BY OpFacts DEF Op
<1>2. QED BY <1>1, OpFacts DEF OnSite, Server

\* atomicWrite.
LEMMA WriteStep ==
    ASSUME SitesInv, NEW w \in Slots, Write(w)
    PROVE  SitesInv'
<1>1. PICK a : a = ops[w] /\ a \in Op
  BY OpFacts
<1>2. a.step = "write" /\ Shape(a) /\ probes[w] = None /\ a.command \in {"create", "update"}
      /\ a.site # None /\ a.new # None /\ a.new \in Contents
  <2>1. a.step = "write" /\ Shape(a) /\ probes[w] = None
    BY <1>1, OpFacts DEF Write, At
  <2>2. QED BY <1>1, <2>1, StepFacts
<1>3. a.alone => Known(a, probes[w])
  BY <1>1, <1>2, OpFacts
<1>4. CASE UNCHANGED content /\ Move(w, Finish(a, "error"))
  <2>1. PICK op : op = Finish(a, "error")
    OBVIOUS
  <2>2. op \in Op /\ Same(op, a) /\ op.step = "idle" /\ op.result = "error"
    BY <1>1, <2>1, Records DEF Outcomes
  <2>3. a.alone => content[a.site] = a.foundFile /\ (a.site \in links) = a.foundLink
    BY <1>2, <1>3 DEF Known, FileKnown, LinkKnown
  <2>4. QED BY <1>1, <1>2, <1>4, <2>1, <2>2, <2>3, QuietEnd DEF Write, Server, Same
<1>5. ASSUME content' = [content EXCEPT ![a.site] = a.new], NEW next,
             next = (IF direct \/ (a.command = "update" /\ a.enabled) THEN "test" ELSE "probe"),
             Move(w, [a EXCEPT !.step = next])
      PROVE  SitesInv'
  <2>1. PICK op : op = [a EXCEPT !.step = next]
    OBVIOUS
  <2>2. Moved(op, a, next, a.ran)
    BY <1>1, <1>5, <2>1, Records DEF Steps, Outcomes
  <2>3. OnSite(w, a.site) /\ content'[a.site] = a.new /\ probes'[w] = None
    <3>1. UNCHANGED <<links, probes, Server>> /\ a.new \in Contents \cup {None}
      BY <1>2 DEF Write
    <3>2. QED BY <1>1, <1>2, <1>5, <3>1, WritesFile
  <2>4. UNCHANGED <<links, stale, direct, shaken>> /\ op.step # "idle"
    BY <1>5, <2>1, <2>2 DEF Write, Server, Move, Moved
  <2>5. Shape(op)'
    BY <1>2, <1>5, <2>2, <2>4 DEF Shape, Moved, Same, StepsOf, UndoSteps
  <2>6. ASSUME a.alone PROVE Known(op, None)'
    <3>1. FileKnown(op)'
      BY <1>2, <1>3, <1>5, <2>2, <2>3, <2>4, <2>6 DEF Known, FileKnown, Moved, Same
    <3>2. LinkKnown(op)'
      BY <1>2, <1>3, <1>5, <2>2, <2>4, <2>6 DEF Known, LinkKnown, Moved, Same
    <3>3. TestKnown(op, None)'
      BY <1>2, <1>3, <1>5, <2>2, <2>4, <2>6 DEF Known, TestKnown, WasRead, Moved, Same
    <3>4. QED BY <3>1, <3>2, <3>3 DEF Known
  <2>7. op \in Op /\ Same(op, a) /\ op.site = a.site /\ op.alone = a.alone
    BY <2>2 DEF Moved, Same
  <2>8. QED BY <1>1, <1>2, <1>5, <2>1, <2>3, <2>4, <2>5, <2>6, <2>7, SiteStep
<1>6. QED BY <1>1, <1>4, <1>5 DEF Write

\* What a program may come to.
LEMMA RunFacts ==
    ASSUME NEW possible, NEW r \in Runs(possible)
    PROVE  /\ r.ran \in Outcomes /\ r.took \in BOOLEAN /\ (r.took => possible)
           /\ (r.ran = "ok" => r.took) /\ (r.ran = "failed" => ~r.took)
BY DEF Runs

\* Changing the link of the site of w, and nothing else.
LEMMA ChangesLink ==
    ASSUME SitesInv, NEW w \in Slots, ops[w].site \in Sites, ~direct, NEW took \in BOOLEAN, NEW on \in BOOLEAN,
           links' = (IF ~took THEN links ELSE IF on THEN Link(ops[w].site) ELSE Unlink(ops[w].site)),
           UNCHANGED <<content, probes, Server>>, ops[w].step \notin {"test", "judge"}
    PROVE  /\ OnSite(w, ops[w].site) /\ probes'[w] = None
           /\ UNCHANGED <<content, direct, stale, served>>
           /\ (ops[w].site \in links') = (IF took THEN on ELSE ops[w].site \in links)
<1>1. links' \subseteq Sites
  BY OpFacts DEF Link, Unlink
<1>2. \A t \in Sites \ {ops[w].site} : t \in links' <=> t \in links
  BY DEF Link, Unlink
<1>3. (ops[w].site \in links') = (IF took THEN on ELSE ops[w].site \in links)
  BY DEF Link, Unlink
<1>4. QED BY <1>1, <1>2, <1>3, OpFacts DEF OnSite, Server

\* A step that ends a command alone with its site.
LEMMA SiteEnd ==
    ASSUME SitesInv, NEW w \in Slots, ops[w].step # "idle", NEW op \in Op, Same(op, ops[w]),
           OnSite(w, op.site), Move(w, op), probes'[w] = None, op.step = "idle",
           op.alone /\ op.site # None => Ended(op)'
    PROVE  SitesInv'
BY EndShape, SiteStep

\* A command that ends without knowing what a program did.
LEMMA LostEnd ==
    ASSUME NEW a \in Op
    PROVE  LET op == Finish(Lose(a, "link"), "error") IN
           op \in Op /\ Same(op, a) /\ op.step = "idle" /\ op.result = "error" /\ op.lost = a.lost \cup {"link"}
<1>1. PICK b : b = Lose(a, "link")
  OBVIOUS
<1>2. b \in Op /\ Same(b, a) /\ b.lost = a.lost \cup {"link"}
  BY <1>1, Records
<1>3. PICK op : op = Finish(b, "error")
  OBVIOUS
<1>4. op \in Op /\ Same(op, b) /\ op.step = "idle" /\ op.result = "error" /\ op.lost = b.lost
  BY <1>2, <1>3, Records DEF Outcomes
<1>5. Same(op, a)
  BY <1>2, <1>4 DEF Same
<1>6. QED BY <1>1, <1>2, <1>3, <1>4, <1>5

\* siteCommand.
LEMMA SwitchStep ==
    ASSUME SitesInv, NEW w \in Slots, Switch(w)
    PROVE  SitesInv'
<1>1. PICK a : a = ops[w] /\ a \in Op
  BY OpFacts
<1>2. a.step = "switch" /\ Shape(a) /\ a.command \in {"enable", "disable", "delete"} /\ ~direct
      /\ a.site \in Sites /\ a.site # None
  <2>1. a.step = "switch" /\ Shape(a)
    BY <1>1, OpFacts DEF Switch, At
  <2>2. QED BY <1>1, <2>1, StepFacts
<1>3. PICK on \in BOOLEAN : on = (a.command = "enable")
  OBVIOUS
<1>4. PICK r \in Runs(on => content[a.site] # None) :
         /\ links' = IF ~r.took THEN links ELSE IF on THEN Link(a.site) ELSE Unlink(a.site)
         /\ Move(w, IF r.ran = "error" THEN Finish(Lose(a, "link"), "error")
                    ELSE [a EXCEPT !.step = "check", !.ran = r.ran])
  BY <1>1, <1>3 DEF Switch
<1>5. r.ran \in Outcomes /\ r.took \in BOOLEAN /\ (r.ran = "ok" => r.took) /\ (r.ran = "failed" => ~r.took)
  BY RunFacts
<1>6. /\ OnSite(w, a.site) /\ probes'[w] = None /\ UNCHANGED <<content, direct, stale, served>>
      /\ (a.site \in links') = (IF r.took THEN on ELSE a.site \in links)
  <2>1. UNCHANGED <<content, probes, Server>>
    BY DEF Switch
  <2>2. QED BY <1>1, <1>2, <1>4, <1>5, <2>1, ChangesLink
<1>7. a.alone => Known(a, probes[w])
  BY <1>1, <1>2, OpFacts
<1>8. a.alone => content[a.site] = a.foundFile /\ (a.site \in links) = a.foundLink
  BY <1>2, <1>7 DEF Known, FileKnown, LinkKnown
<1>9. CASE r.ran = "error"
  <2>1. PICK op : op = Finish(Lose(a, "link"), "error")
    OBVIOUS
  <2>2. op \in Op /\ Same(op, a) /\ op.step = "idle" /\ op.result = "error" /\ op.lost = a.lost \cup {"link"}
    BY <1>1, <2>1, LostEnd
  <2>3. a.alone => Ended(op)'
    BY <1>6, <1>8, <2>2 DEF Ended, Same
  <2>4. op.site = a.site /\ op.alone = a.alone
    BY <2>2 DEF Same
  <2>5. QED BY <1>1, <1>2, <1>4, <1>6, <1>9, <2>1, <2>2, <2>3, <2>4, SiteEnd
<1>10. CASE r.ran # "error"
  <2>1. PICK op : op = [a EXCEPT !.step = "check", !.ran = r.ran]
    OBVIOUS
  <2>2. Moved(op, a, "check", r.ran)
    BY <1>1, <1>5, <2>1, Records DEF Steps
  <2>3. op \in Op /\ Same(op, a) /\ op.site = a.site /\ op.alone = a.alone /\ op.step = "check"
    BY <2>2 DEF Moved, Same
  <2>4. Move(w, op) /\ shaken' = shaken
    BY <1>4, <1>10, <2>1, <2>3 DEF Move
  <2>5. Shape(op)'
    BY <1>2, <1>6, <2>2 DEF Shape, Moved, Same, StepsOf, UndoSteps
  <2>6. ASSUME a.alone PROVE Known(op, None)'
    <3>1. FileKnown(op)'
      BY <1>2, <1>6, <1>7, <2>2, <2>6 DEF Known, FileKnown, Moved, Same
    <3>2. \/ r.ran = "ok" /\ (a.site \in links') = (a.command = "enable")
          \/ r.ran = "failed" /\ (a.site \in links') = a.foundLink
      BY <1>3, <1>5, <1>6, <1>8, <1>10, <2>6 DEF Outcomes
    <3>3. LinkKnown(op)'
      BY <3>2, <1>2, <1>6, <1>7, <2>2, <2>6 DEF Known, LinkKnown, Moved, Same
    <3>4. TestKnown(op, None)'
      BY <1>2, <1>6, <1>7, <2>2, <2>4, <2>6 DEF Known, TestKnown, WasRead, Moved, Same
    <3>5. QED BY <3>1, <3>3, <3>4 DEF Known
  <2>7. QED BY <1>1, <1>2, <1>6, <2>3, <2>4, <2>5, <2>6, SiteStep
<1>11. QED BY <1>9, <1>10

\* siteEnabled, after the program.
LEMMA CheckStep ==
    ASSUME SitesInv, NEW w \in Slots, Check(w)
    PROVE  SitesInv'
<1>1. PICK a : a = ops[w] /\ a \in Op
  BY OpFacts
<1>2. a.step = "check" /\ Shape(a) /\ a.command \in {"enable", "disable", "delete"} /\ ~direct
      /\ a.site \in Sites /\ a.site # None /\ probes[w] = None
  <2>1. a.step = "check" /\ Shape(a) /\ probes[w] = None
    BY <1>1, OpFacts DEF Check, At
  <2>2. QED BY <1>1, <2>1, StepFacts
<1>3. PICK done \in BOOLEAN : done = (a.ran = "ok" /\ (siteEnabled(a.site) = (a.command = "enable")))
  OBVIOUS
<1>4. UNCHANGED <<content, links, probes, direct, stale, served, up, scheduled>>
  BY DEF Check, Disk, Server
<1>5. a.alone => Known(a, probes[w])
  BY <1>1, <1>2, OpFacts
<1>6. ASSUME a.alone
      PROVE  /\ content[a.site] = a.foundFile /\ a.foundFile # None
             /\ siteEnabled(a.site) = (a.site \in links \cup stale)
  <2>1. content[a.site] = a.foundFile /\ a.foundFile # None
    BY <1>2, <1>5, <1>6 DEF Known, FileKnown
  <2>2. \A v \in Slots : probes[v] # a.site
    BY <1>1, <1>2, <1>6, NoOtherProbe
  <2>3. QED BY <1>2, <2>1, <2>2 DEF siteEnabled, Probed
<1>7. a.alone => \/ a.ran = "ok" /\ (a.site \in links) = (a.command = "enable")
                 \/ a.ran = "failed" /\ (a.site \in links) = a.foundLink
  BY <1>2, <1>5 DEF Known, LinkKnown
<1>8. ASSUME NEW op, op = Finish(a, "failed"), ~done, Move(w, op) PROVE SitesInv'
  <2>1. op \in Op /\ Same(op, a) /\ op.step = "idle" /\ op.result = "failed"
    BY <1>1, <1>8, Records DEF Outcomes
  <2>2. a.alone /\ a.site \notin stale => (a.site \in links) = a.foundLink
    <3>1. a.alone /\ a.ran = "ok" => siteEnabled(a.site) # (a.command = "enable")
      BY <1>3, <1>8
    <3>2. a.alone /\ a.ran = "ok" /\ a.site \notin stale => (a.site \in links) # (a.command = "enable")
      BY <3>1, <1>6
    <3>3. QED BY <3>2, <1>7
  <2>3. QED BY <1>1, <1>2, <1>4, <1>6, <1>8, <2>1, <2>2, QuietEnd DEF Same
<1>9. ASSUME NEW op, op = Finish(Lose(a, "link"), "error"), Move(w, op) PROVE SitesInv'
  <2>1. op \in Op /\ Same(op, a) /\ op.step = "idle" /\ op.result = "error" /\ op.lost = a.lost \cup {"link"}
    BY <1>1, <1>9, LostEnd
  <2>2. QED BY <1>1, <1>2, <1>4, <1>6, <1>9, <2>1, QuietEnd DEF Same
<1>10. ASSUME done, NEW st, st = (IF a.command = "delete" THEN "remove" ELSE "test"),
              NEW op, op = [a EXCEPT !.step = st], Move(w, op)
       PROVE  SitesInv'
  <2>1. Moved(op, a, st, a.ran)
    BY <1>1, <1>10, Records DEF Steps, Outcomes
  <2>2. op \in Op /\ Same(op, a) /\ op.site = a.site /\ op.alone = a.alone /\ op.step = st /\ st # "idle"
    BY <1>10, <2>1 DEF Moved, Same
  <2>3. Shape(op)
    BY <1>2, <1>10, <2>1 DEF Shape, Moved, Same, StepsOf, UndoSteps
  <2>4. ASSUME a.alone PROVE Known(op, probes[w])
    <3>1. a.command = "enable" => a.site \in links
      BY <1>3, <1>7, <1>10, <2>4
    <3>2. a.command # "enable" => a.site \notin links \cup stale
      BY <1>3, <1>6, <1>10, <2>4
    <3>3. FileKnown(op)
      BY <1>2, <1>5, <1>6, <1>10, <2>1, <2>4 DEF Known, FileKnown, Moved, Same
    <3>4. LinkKnown(op)
      BY <3>1, <3>2, <1>2, <1>5, <1>10, <2>1, <2>4 DEF Known, LinkKnown, Moved, Same
    <3>5. TestKnown(op, probes[w])
      BY <1>2, <1>5, <1>10, <2>1, <2>4 DEF Known, TestKnown, WasRead, Moved, Same
    <3>6. QED BY <3>3, <3>4, <3>5 DEF Known
  <2>5. /\ UNCHANGED <<content, links, probes, direct, stale>>
        /\ served' \in [Sites -> Contents \cup {None}] /\ up' \in BOOLEAN /\ scheduled' \in BOOLEAN
    BY <1>4, OpFacts
  <2>6. QED BY <1>1, <1>2, <1>10, <2>2, <2>3, <2>4, <2>5, QuietStep
<1>11. QED BY <1>1, <1>3, <1>8, <1>9, <1>10 DEF Check

\* A step that changes no file, and where the command goes on.
LEMMA GoesOn ==
    ASSUME SitesInv, NEW w \in Slots, ops[w].step # "idle", NEW op \in Op, Same(op, ops[w]),
           op.step # "idle", Move(w, op), UNCHANGED <<content, links, probes, direct, stale, up>>,
           served' \in [Sites -> Contents \cup {None}], scheduled' \in BOOLEAN,
           probes[w] # None => op.step \in {"test", "judge"},
           Shape(op), ops[w].alone /\ ops[w].site # None => Known(op, probes[w])
    PROVE  SitesInv'
<1>1. op.alone = ops[w].alone /\ op.site = ops[w].site
  BY DEF Same
<1>2. up' \in BOOLEAN
  BY OpFacts
<1>3. QED BY <1>1, <1>2, QuietStep

\* os.Remove.
LEMMA RemoveStep ==
    ASSUME SitesInv, NEW w \in Slots, Remove(w)
    PROVE  SitesInv'
<1>1. PICK a : a = ops[w] /\ a \in Op
  BY OpFacts
<1>2. a.step = "remove" /\ Shape(a) /\ probes[w] = None /\ a.command = "delete" /\ a.site # None
  <2>1. a.step = "remove" /\ Shape(a) /\ probes[w] = None
    BY <1>1, OpFacts DEF Remove, At
  <2>2. QED BY <1>1, <2>1, StepFacts
<1>3. a.alone => Known(a, probes[w])
  BY <1>1, <1>2, OpFacts
<1>4. a.alone => /\ content[a.site] = a.foundFile /\ a.site \notin links /\ a.site \notin stale
                 /\ a.enabled = (direct \/ a.foundLink \/ a.site \in stale) /\ (direct => ~a.foundLink)
                 /\ a.backup = a.foundFile /\ a.foundFile # None
  BY <1>2, <1>3 DEF Known, FileKnown, LinkKnown
<1>5. a.enabled \in BOOLEAN /\ a.foundLink \in BOOLEAN /\ direct \in BOOLEAN
  BY <1>1, OpFacts DEF Op
<1>6. ASSUME content' = [content EXCEPT ![a.site] = None], NEW op, op = [a EXCEPT !.step = "test"],
             Move(w, op), UNCHANGED <<links, probes, Server>>
      PROVE  SitesInv'
  <2>1. Moved(op, a, "test", a.ran)
    BY <1>1, <1>6, Records DEF Steps, Outcomes
  <2>2. op \in Op /\ Same(op, a) /\ op.site = a.site /\ op.alone = a.alone /\ op.step = "test"
    BY <2>1 DEF Moved, Same
  <2>3. OnSite(w, a.site) /\ content'[a.site] = None /\ probes'[w] = None
    BY <1>1, <1>2, <1>6, WritesFile
  <2>4. UNCHANGED <<links, stale, direct, shaken>>
    BY <1>6, <2>2 DEF Server, Move
  <2>5. Shape(op)'
    BY <1>2, <2>1, <2>4 DEF Shape, Moved, Same, StepsOf, UndoSteps
  <2>6. ASSUME a.alone PROVE Known(op, None)'
    <3>1. FileKnown(op)'
      BY <1>2, <1>4, <2>1, <2>3, <2>6 DEF FileKnown, Moved, Same
    <3>2. LinkKnown(op)'
      BY <1>2, <1>4, <2>1, <2>4, <2>6 DEF LinkKnown, Moved, Same
    <3>3. TestKnown(op, None)'
      BY <1>2, <1>3, <2>1, <2>4, <2>6 DEF Known, TestKnown, WasRead, Moved, Same
    <3>4. QED BY <3>1, <3>2, <3>3 DEF Known
  <2>7. QED BY <1>1, <1>2, <1>6, <2>2, <2>3, <2>5, <2>6, SiteStep
<1>7. ASSUME UNCHANGED <<content, links, probes, Server>>,
             NEW op, op = Undo(a, IF a.enabled /\ ~direct THEN <<"unswitch">> ELSE <<>>, "error"), Move(w, op)
      PROVE  SitesInv'
  <2>1. UNCHANGED <<content, links, probes, direct, stale, served, up, scheduled>>
    BY <1>7 DEF Server
  <2>2. CASE ~(a.enabled /\ ~direct)
    <3>1. op = Finish(a, "error")
      BY <1>7, <2>2 DEF Undo
    <3>2. op \in Op /\ Same(op, a) /\ op.step = "idle" /\ op.result = "error"
      BY <1>1, <3>1, Records DEF Outcomes
    <3>3. a.alone => ~a.foundLink
      BY <1>4, <1>5, <2>2
    <3>4. a.alone => content[a.site] = a.foundFile /\ (a.site \in links) = a.foundLink
      BY <1>4, <1>5, <3>3
    <3>5. QED BY <1>1, <1>2, <1>7, <2>1, <3>2, <3>4, QuietEnd DEF Same
  <2>3. CASE a.enabled /\ ~direct
    <3>1. op = Undo(a, <<"unswitch">>, "error")
      BY <1>7, <2>3
    <3>2. Undoing(op, a, "unswitch", <<>>, "error")
      BY <1>1, <3>1, PlanSteps, Zenon DEF UndoSteps, Outcomes
    <3>3. /\ op \in Op /\ Same(op, a) /\ op.step = "unswitch" /\ op.undo = <<>> /\ op.result = "error"
          /\ op.enabled = a.enabled /\ op.backup = a.backup /\ op.lost = a.lost
      BY <3>2 DEF Undoing
    <3>4. Shape(op)
      BY <1>2, <2>3, <3>3 DEF Shape, Same, StepsOf, UndoSteps, PlansOf
    <3>5. ASSUME a.alone PROVE Known(op, probes[w])
      <4>1. FileKnown(op)
        BY <1>2, <1>4, <3>3, <3>5 DEF FileKnown, Same
      <4>2. LinkKnown(op)
        BY <1>2, <1>4, <1>5, <2>3, <3>3, <3>5 DEF LinkKnown, Same
      <4>3. TestKnown(op, probes[w])
        BY <1>2, <1>3, <3>3, <3>5 DEF Known, TestKnown, WasRead, Same
      <4>4. QED BY <4>1, <4>2, <4>3 DEF Known
    <3>6. served' \in [Sites -> Contents \cup {None}] /\ scheduled' \in BOOLEAN
      BY <2>1, OpFacts
    <3>7. QED BY <1>1, <1>2, <1>7, <2>1, <3>3, <3>4, <3>5, <3>6, GoesOn
  <2>4. QED BY <2>2, <2>3, <1>5
<1>8. QED BY <1>1, <1>6, <1>7 DEF Remove

\* The validation link.
LEMMA ProbeStep ==
    ASSUME SitesInv, NEW w \in Slots, Probe(w)
    PROVE  SitesInv'
<1>1. PICK a : a = ops[w] /\ a \in Op
  BY OpFacts
<1>2. a.step = "probe" /\ Shape(a) /\ probes[w] = None /\ a.command \in {"create", "update"}
      /\ a.site # None /\ a.site \in Sites /\ ~direct
  <2>1. a.step = "probe" /\ Shape(a) /\ probes[w] = None
    BY <1>1, OpFacts DEF Probe, At
  <2>2. QED BY <1>1, <2>1, StepFacts
<1>3. a.alone => Known(a, probes[w])
  BY <1>1, <1>2, OpFacts
<1>4. UNCHANGED <<content, links, direct, stale, served, up, scheduled>>
  BY DEF Probe, Server
<1>5. ASSUME NEW op, NEW st, NEW ran, st \in {"test", "judge"}, Moved(op, a, st, ran), NEW probe,
             st = "test" => probe = a.site, st = "judge" => ran = "error"
      PROVE  /\ op \in Op /\ Same(op, a) /\ op.site = a.site /\ op.alone = a.alone /\ op.step = st
             /\ Shape(op) /\ (a.alone => Known(op, probe))
  <2>1. op \in Op /\ Same(op, a) /\ op.site = a.site /\ op.alone = a.alone /\ op.step = st
    BY <1>5 DEF Moved, Same
  <2>2. Shape(op)
    BY <1>2, <1>5 DEF Shape, Moved, Same, StepsOf, UndoSteps
  <2>3. ASSUME a.alone PROVE Known(op, probe)
    <3>1. FileKnown(op)
      BY <1>2, <1>3, <1>5, <2>3 DEF Known, FileKnown, Moved, Same
    <3>2. LinkKnown(op)
      BY <1>2, <1>3, <1>5, <2>3 DEF Known, LinkKnown, Moved, Same
    <3>3. TestKnown(op, probe)
      BY <1>2, <1>3, <1>5, <2>3 DEF Known, TestKnown, WasRead, Moved, Same
    <3>4. QED BY <3>1, <3>2, <3>3 DEF Known
  <2>4. QED BY <2>1, <2>2, <2>3
<1>6. ASSUME probes' = [probes EXCEPT ![w] = a.site], NEW op, op = [a EXCEPT !.step = "test"], Move(w, op)
      PROVE  SitesInv'
  <2>1. Moved(op, a, "test", a.ran)
    BY <1>1, <1>6, Records DEF Steps, Outcomes
  <2>2. /\ op \in Op /\ Same(op, a) /\ op.site = a.site /\ op.alone = a.alone /\ op.step = "test"
        /\ Shape(op) /\ (a.alone => Known(op, a.site))
    BY <2>1, <1>5
  <2>3. OnSite(w, a.site) /\ probes'[w] = a.site
    BY <1>1, <1>2, <1>4, <1>6, OpFacts DEF OnSite
  <2>4. shaken' = shaken
    BY <1>6, <2>2 DEF Move
  <2>5. Shape(op)'
    BY <1>4, <2>2 DEF Shape, PlansOf
  <2>6. a.alone => Known(op, a.site)'
    BY <1>4, <2>2, <2>4 DEF Known, FileKnown, LinkKnown, TestKnown, WasRead
  <2>7. QED BY <1>1, <1>2, <1>6, <2>2, <2>3, <2>5, <2>6, SiteStep
<1>7. ASSUME UNCHANGED probes, NEW op, op = [a EXCEPT !.step = "judge", !.ran = "error"], Move(w, op)
      PROVE  SitesInv'
  <2>1. Moved(op, a, "judge", "error")
    BY <1>1, <1>7, Records DEF Steps, Outcomes
  <2>2. /\ op \in Op /\ Same(op, a) /\ op.site = a.site /\ op.alone = a.alone /\ op.step = "judge"
        /\ Shape(op) /\ (a.alone => Known(op, probes[w]))
    BY <2>1, <1>5
  <2>3. served' \in [Sites -> Contents \cup {None}] /\ scheduled' \in BOOLEAN
    BY <1>4, OpFacts
  <2>4. QED BY <1>1, <1>2, <1>4, <1>7, <2>2, <2>3, GoesOn
<1>8. QED BY <1>1, <1>6, <1>7 DEF Probe

\* configTest.
LEMMA TestStep ==
    ASSUME SitesInv, NEW w \in Slots, Test(w)
    PROVE  SitesInv'
<1>1. PICK a : a = ops[w] /\ a \in Op
  BY OpFacts
<1>2. a.step = "test" /\ Shape(a) /\ (a.site # None => a.site \in Sites)
  BY <1>1, OpFacts DEF Test, At, Op
<1>3. PICK r \in Runs(Accepted) : Move(w, [a EXCEPT !.step = "judge", !.ran = r.ran])
  BY <1>1 DEF Test
<1>4. r.ran \in Outcomes /\ (r.ran = "ok" => Accepted)
  BY RunFacts
<1>5. PICK op : op = [a EXCEPT !.step = "judge", !.ran = r.ran]
  OBVIOUS
<1>6. Moved(op, a, "judge", r.ran)
  BY <1>1, <1>4, <1>5, Records DEF Steps
<1>7. op \in Op /\ Same(op, a) /\ op.step = "judge"
  BY <1>6 DEF Moved
<1>8. Shape(op)
  <2>1. a.command \in {"create", "update", "enable", "disable", "delete", "reload", "restart"}
    BY <1>1 DEF Op, Commands, SiteCommands
  <2>2. "judge" \in StepsOf[a.command]
    BY <2>1 DEF StepsOf
  <2>3. QED BY <2>2, <1>2, <1>6 DEF Shape, Moved, Same, UndoSteps
<1>9. ASSUME a.alone, a.site # None PROVE Known(op, probes[w])
  <2>1. Known(a, probes[w])
    BY <1>1, <1>9, OpFacts
  <2>2. FileKnown(op)
    BY <2>1, <1>2, <1>6 DEF Known, FileKnown, Moved, Same
  <2>3. LinkKnown(op)
    BY <2>1, <1>2, <1>6 DEF Known, LinkKnown, Moved, Same
  <2>4. ASSUME r.ran = "ok", a.command \in {"create", "update", "enable"}
        PROVE  content[a.site] \in Good \cup {Empty}
    <3>1. CASE direct
      <4>1. a.command # "enable" /\ a.new # None
        BY <3>1, <2>4, <1>2 DEF Shape
      <4>2. content[a.site] # None
        BY <4>1, <2>1, <2>4, <1>2 DEF Known, FileKnown
      <4>3. a.site \in Included
        BY <3>1, <4>2, <1>2, <1>9 DEF Included
      <4>4. QED BY <4>3, <2>4, <1>4 DEF Accepted
    <3>2. CASE ~direct
      <4>1. a.command = "enable" => a.site \in links
        BY <2>1, <1>2 DEF Known, LinkKnown
      <4>2. a.command = "create" \/ (a.command = "update" /\ ~a.enabled) => a.site \in Probed
        <5>1. a.command = "create" \/ (a.command = "update" /\ ~a.enabled) => probes[w] = a.site
          BY <3>2, <2>1, <1>2 DEF Known, TestKnown
        <5>2. QED BY <5>1, <1>9 DEF Probed
      <4>3. a.command = "update" /\ a.enabled => a.site \in links \cup stale
        BY <3>2, <2>1, <1>2 DEF Known, LinkKnown
      <4>4. a.site \in links \cup stale \cup Probed
        BY <4>1, <4>2, <4>3, <2>4
      <4>5. QED BY <4>4, <3>2, <2>4, <1>4 DEF Accepted, Included
    <3>3. QED BY <3>1, <3>2
  <2>5. TestKnown(op, probes[w])
    BY <2>1, <2>4, <1>6 DEF Known, TestKnown, WasRead, Moved, Same
  <2>6. QED BY <2>2, <2>3, <2>5 DEF Known
<1>10. /\ UNCHANGED <<content, links, probes, direct, stale, up>>
       /\ served' \in [Sites -> Contents \cup {None}] /\ scheduled' \in BOOLEAN
  BY OpFacts DEF Test, Disk, Server
<1>11. QED BY <1>1, <1>2, <1>3, <1>5, <1>7, <1>8, <1>9, <1>10, GoesOn

\* A plan that begins with the link is not one that only reloads.
LEMMA OtherPlans == \A p \in {<<"unswitch">>, <<"unswitch", "rereload">>} : p \notin {<<>>, <<"rereload">>}
OBVIOUS

\* The undo of each command after its test or its reload: what is left to do, and what
\* is known, fit the plan.
LEMMA UndoBegins ==
    ASSUME SitesInv, NEW w \in Slots, ops[w].step \in {"judge", "reload"}, NEW op \in Op, Same(op, ops[w]),
           op.backup = ops[w].backup, op.enabled = ops[w].enabled, op.result # "ok",
           \/ op.command = "create" /\ op.step = "unwrite" /\ op.undo = <<>>
           \/ op.command = "update" /\ op.step = "restore" /\ op.undo \in {<<>>, <<"rereload">>}
           \/ /\ op.command = "delete" /\ op.step = "restore" /\ op.undo \in {<<>>, <<"rereload">>}
              /\ direct \/ ~op.enabled \/ "link" \in op.lost
           \/ /\ op.command = "delete" /\ op.step = "restore"
              /\ op.undo \in {<<"unswitch">>, <<"unswitch", "rereload">>}
              /\ ~direct /\ (op.alone /\ op.site # None => op.enabled)
           \/ /\ op.command \in {"enable", "disable"} /\ op.step = "unswitch"
              /\ op.undo \in {<<>>, <<"rereload">>}
    PROVE  Shape(op) /\ (op.alone /\ op.site # None => Known(op, None))
<1>1. PICK a : a = ops[w] /\ a \in Op
  BY OpFacts
<1>2. a.step \in {"judge", "reload"} /\ Shape(a)
  BY <1>1, OpFacts
<1>3. op.step \in {"unwrite", "restore", "unswitch"}
  OBVIOUS
<1>4. Shape(op)
  <2>1. op.undo \in PlansOf(op)
    BY DEF PlansOf
  <2>2. op.step \in StepsOf[op.command]
    BY DEF StepsOf
  <2>3. direct => op.step \notin {"probe", "switch", "check", "unswitch"}
                  /\ (op.command \in {"enable", "disable"} => op.step \in {"idle", "start"})
    BY <1>1, <1>2 DEF Shape, Same
  <2>4. (op.command \in SiteCommands) = (op.site # None)
        /\ (op.command \in {"create", "update"}) = (op.new # None)
    BY <1>1, <1>2 DEF Shape, Same
  <2>5. QED BY <2>1, <2>2, <2>3, <2>4 DEF Shape
<1>5. ASSUME op.alone, op.site # None PROVE Known(op, None)
  <2>1. Known(a, probes[w])
    BY <1>1, <1>5, OpFacts DEF Same
  <2>2. FileKnown(op)
    BY <2>1, <1>1, <1>2, <1>3 DEF Known, FileKnown, Same
  <2>3. LinkKnown(op)
    <3>1. CASE op.command = "create"
      BY <3>1, <2>1, <1>1, <1>2 DEF Known, LinkKnown, Same
    <3>2. CASE op.command = "update"
      BY <3>2, <2>1, <1>1, <1>2 DEF Known, LinkKnown, Same
    <3>3. CASE op.command \in {"enable", "disable"}
      BY <3>3, <2>1, <1>1, <1>2 DEF Known, LinkKnown, Same
    <3>4. CASE op.command = "delete"
      <4>1. op.undo \in {<<"unswitch">>, <<"unswitch", "rereload">>} => op.undo \notin {<<>>, <<"rereload">>}
        BY OtherPlans
      <4>2. op.step = "restore"
        BY <3>4
      <4>3. op.undo \notin {<<>>, <<"rereload">>} => op.enabled
        BY <3>4, <4>2, <1>5
      <4>4. op.undo \in {<<>>, <<"rereload">>} => direct \/ ~op.enabled \/ "link" \in op.lost
        BY <3>4, <4>1, <4>2
      <4>5. /\ op.site \notin links /\ op.site \notin stale /\ (direct => ~op.foundLink)
            /\ op.enabled = (direct \/ op.foundLink \/ op.site \in stale)
        BY <3>4, <2>1, <1>1, <1>2 DEF Known, LinkKnown, Same
      <4>6. QED BY <3>4, <4>2, <4>3, <4>4, <4>5 DEF LinkKnown
    <3>5. QED BY <3>1, <3>2, <3>3, <3>4
  <2>4. TestKnown(op, None)
    BY <2>1, <1>1, <1>3 DEF Known, TestKnown, WasRead, Same
  <2>5. QED BY <2>2, <2>3, <2>4 DEF Known
<1>6. QED BY <1>4, <1>5

\* A step of a command that takes its probe away, and nothing else.
LEMMA ProbeGone ==
    ASSUME SitesInv, NEW w \in Slots, ops[w].step # "idle", NEW op \in Op, Same(op, ops[w]), Move(w, op),
           probes' = [probes EXCEPT ![w] = None], UNCHANGED <<content, links, Server>>, Shape(op),
           op.step # "idle" /\ op.alone /\ op.site # None => Known(op, None),
           op.step = "idle" /\ op.alone /\ op.site # None => Ended(op)
    PROVE  SitesInv'
<1>1. UNCHANGED <<content, links, direct, stale, served, up, scheduled>>
  BY DEF Server
<1>2. OnSite(w, op.site) /\ probes'[w] = None
  BY <1>1, OpFacts DEF OnSite
<1>3. Shape(op)'
  BY <1>1 DEF Shape, PlansOf
<1>4. ASSUME op.step # "idle", op.alone, op.site # None PROVE Known(op, None)'
  <2>1. Known(op, None) /\ shaken' = shaken
    BY <1>4 DEF Move
  <2>2. QED BY <2>1, <1>1 DEF Known, FileKnown, LinkKnown, TestKnown, WasRead
<1>5. op.step = "idle" /\ op.alone /\ op.site # None => Ended(op)'
  BY <1>1 DEF Ended
<1>6. QED BY <1>2, <1>3, <1>4, <1>5, SiteStep

\* A test that says no, or says nothing.
LEMMA Rejected ==
    ASSUME SitesInv, NEW w \in Slots, ops[w].step = "judge", ops[w].ran # "ok",
           NEW op, op = Undo(Unjudged(ops[w]), AfterTest(ops[w]), ops[w].ran)
    PROVE  /\ op \in Op /\ Same(op, ops[w]) /\ Shape(op)
           /\ op.step # "idle" /\ op.alone /\ op.site # None => Known(op, None)
           /\ op.step = "idle" /\ op.alone /\ op.site # None => Ended(op)
<1>1. PICK a, b : a = ops[w] /\ a \in Op /\ b = Unjudged(a)
  BY OpFacts
<1>2. /\ a.step = "judge" /\ a.ran \in {"failed", "error"} /\ Shape(a) /\ a.ran \in Outcomes
      /\ a.command \in {"create", "update", "enable", "disable", "delete", "reload", "restart"}
  BY <1>1, OpFacts DEF Op, Outcomes, Commands, SiteCommands
<1>3. /\ b \in Op /\ Same(b, a) /\ b.backup = a.backup /\ b.enabled = a.enabled
      /\ a.ran = "error" /\ a.command \in {"enable", "disable"} => "link" \in b.lost
      /\ a.ran = "error" /\ a.command = "delete" /\ a.enabled /\ ~direct => "link" \in b.lost
  <2>1. b = a \/ b = Lose(a, "link")
    BY <1>1 DEF Unjudged
  <2>2. b \in Op /\ Same(b, a) /\ b.backup = a.backup /\ b.enabled = a.enabled
    <3>1. Same(a, a)
      BY DEF Same
    <3>2. PICK c : c = Lose(a, "link")
      OBVIOUS
    <3>3. c \in Op /\ Same(c, a) /\ c.backup = a.backup /\ c.enabled = a.enabled
      BY <1>1, <3>2, Records
    <3>4. QED BY <1>1, <2>1, <3>1, <3>2, <3>3
  <2>3. ASSUME a.ran = "error", a.command \in {"enable", "disable"} \/ (a.command = "delete" /\ a.enabled /\ ~direct)
        PROVE  "link" \in b.lost
    <3>1. b = Lose(a, "link")
      BY <1>1, <2>3 DEF Unjudged
    <3>2. b.lost = a.lost \cup {"link"}
      BY <3>1, <1>1, Records
    <3>3. QED BY <3>2
  <2>4. QED BY <2>2, <2>3
<1>4. op = Undo(b, AfterTest(a), a.ran)
  BY <1>1
<1>5. ASSUME NEW st \in UndoSteps, NEW rest, Undoing(op, b, st, rest, a.ran)
      PROVE  /\ op \in Op /\ Same(op, a) /\ op.backup = a.backup /\ op.enabled = a.enabled
             /\ op.result # "ok" /\ op.step = st /\ op.undo = rest /\ op.lost = b.lost /\ op.step # "idle"
             /\ op.command = a.command
  BY <1>2, <1>3, <1>5 DEF Undoing, Same, UndoSteps
<1>6. CASE a.command = "create"
  <2>1. Undoing(op, b, "unwrite", <<>>, a.ran)
    <3>1. op = Undo(b, <<"unwrite">>, a.ran)
      BY <1>4, <1>6 DEF AfterTest
    <3>2. QED BY <3>1, <1>2, <1>3, PlanSteps, Zenon DEF UndoSteps
  <2>2. "unwrite" \in UndoSteps
    BY DEF UndoSteps
  <2>3. QED BY <1>1, <1>2, <1>5, <1>6, <2>1, <2>2, UndoBegins
<1>7. CASE a.command = "delete" /\ a.ran = "failed" /\ a.enabled /\ ~direct
  <2>1. Undoing(op, b, "restore", <<"unswitch">>, a.ran)
    <3>1. op = Undo(b, <<"restore", "unswitch">>, a.ran)
      BY <1>4, <1>7 DEF AfterTest
    <3>2. QED BY <3>1, <1>2, <1>3, PlanSteps, Zenon DEF UndoSteps
  <2>2. "restore" \in UndoSteps
    BY DEF UndoSteps
  <2>3. QED BY <1>1, <1>2, <1>5, <1>7, <2>1, <2>2, UndoBegins
<1>8. CASE a.command = "update" \/ (a.command = "delete" /\ ~(a.ran = "failed" /\ a.enabled /\ ~direct))
  <2>1. Undoing(op, b, "restore", <<>>, a.ran)
    <3>1. op = Undo(b, <<"restore">>, a.ran)
      BY <1>4, <1>8 DEF AfterTest
    <3>2. QED BY <3>1, <1>2, <1>3, PlanSteps, Zenon DEF UndoSteps
  <2>2. "restore" \in UndoSteps
    BY DEF UndoSteps
  <2>3. a.command = "delete" => direct \/ ~a.enabled \/ "link" \in op.lost
    BY <1>2, <1>3, <1>5, <1>8, <2>1, <2>2
  <2>4. QED BY <1>1, <1>2, <1>5, <1>8, <2>1, <2>2, <2>3, UndoBegins
<1>9. CASE a.command \in {"enable", "disable"} /\ a.ran = "failed"
  <2>1. Undoing(op, b, "unswitch", <<>>, a.ran)
    <3>1. op = Undo(b, <<"unswitch">>, a.ran)
      BY <1>4, <1>9 DEF AfterTest
    <3>2. QED BY <3>1, <1>2, <1>3, PlanSteps, Zenon DEF UndoSteps
  <2>2. "unswitch" \in UndoSteps
    BY DEF UndoSteps
  <2>3. QED BY <1>1, <1>2, <1>5, <1>9, <2>1, <2>2, UndoBegins
<1>10. CASE a.command \in {"reload", "restart"} \/ (a.command \in {"enable", "disable"} /\ a.ran = "error")
  <2>0. AfterTest(a) = <<>>
    BY <1>2, <1>10 DEF AfterTest
  <2>1. op = Finish(b, a.ran)
    BY <2>0, <1>4 DEF Undo
  <2>a. a.ran \in Outcomes /\ b \in Op
    BY <1>2, <1>3
  <2>b. \A r \in Outcomes : /\ Finish(b, r) \in Op /\ Same(Finish(b, r), b) /\ Finish(b, r).step = "idle"
                            /\ Finish(b, r).result = r /\ Finish(b, r).lost = b.lost
    BY <2>a, Records
  <2>2. op \in Op /\ Same(op, b) /\ op.step = "idle" /\ op.result = a.ran /\ op.lost = b.lost
    BY <2>1, <2>a, <2>b
  <2>3. Same(op, a)
    BY <2>2, <1>3 DEF Same
  <2>4. Shape(op)
    BY <2>2, EndShape
  <2>5. ASSUME op.alone, op.site # None PROVE Ended(op)
    <3>1. a.command \in {"enable", "disable"} /\ a.ran = "error"
      BY <2>3, <2>5, <1>1, <1>2, <1>10, StepFacts DEF Same
    <3>2. content[a.site] = a.foundFile
      BY <3>1, <2>3, <2>5, <1>1, OpFacts DEF Known, FileKnown, Same
    <3>3. op.lost # {} /\ op.result # "ok"
      BY <3>1, <2>2, <1>2, <1>3
    <3>4. QED BY <3>2, <3>3, <2>3 DEF Ended, Same
  <2>6. QED BY <1>1, <2>2, <2>3, <2>4, <2>5
<1>11. QED BY <1>2, <1>6, <1>7, <1>8, <1>9, <1>10

\* The verdict.
LEMMA JudgeStep ==
    ASSUME SitesInv, NEW w \in Slots, Judge(w)
    PROVE  SitesInv'
<1>1. PICK a : a = ops[w] /\ a \in Op
  BY OpFacts
<1>2. /\ a.step = "judge" /\ Shape(a) /\ probes' = [probes EXCEPT ![w] = None]
      /\ UNCHANGED <<content, links, Server>>
      /\ a.command \in {"create", "update", "enable", "disable", "delete", "reload", "restart"}
  BY <1>1, OpFacts DEF Judge, At, Op, Commands, SiteCommands
<1>3. PICK op : Move(w, op) /\ op = IF a.ran # "ok" THEN Undo(Unjudged(a), AfterTest(a), a.ran)
                   ELSE IF a.command = "restart" THEN [a EXCEPT !.step = "schedule"]
                   ELSE IF Reloads(a) THEN [a EXCEPT !.step = "reload"]
                   ELSE Finish(a, "ok")
  BY <1>1 DEF Judge
<1>4. CASE a.ran # "ok"
  <2>1. op = Undo(Unjudged(a), AfterTest(a), a.ran)
    BY <1>3, <1>4
  <2>2. /\ op \in Op /\ Same(op, a) /\ Shape(op)
        /\ op.step # "idle" /\ op.alone /\ op.site # None => Known(op, None)
        /\ op.step = "idle" /\ op.alone /\ op.site # None => Ended(op)
    BY <2>1, <1>1, <1>2, <1>4, Rejected
  <2>3. QED BY <2>2, <1>1, <1>2, <1>3, ProbeGone
<1>5. CASE a.ran = "ok" /\ a.command = "restart"
  <2>1. Moved(op, a, "schedule", a.ran)
    BY <1>1, <1>3, <1>5, Records DEF Steps, Outcomes
  <2>2. op \in Op /\ Same(op, a) /\ op.step = "schedule" /\ op.site = a.site
    BY <2>1 DEF Moved, Same
  <2>3. Shape(op)
    BY <2>1, <1>2, <1>5 DEF Shape, Moved, Same, StepsOf, UndoSteps
  <2>4. a.site = None
    BY <1>1, <1>2, <1>5, StepFacts
  <2>5. QED BY <2>2, <2>3, <2>4, <1>1, <1>2, <1>3, ProbeGone
<1>6. CASE a.ran = "ok" /\ a.command # "restart" /\ Reloads(a)
  <2>1. Moved(op, a, "reload", a.ran)
    BY <1>1, <1>3, <1>6, Records DEF Steps, Outcomes
  <2>2. op \in Op /\ Same(op, a) /\ op.step = "reload" /\ op.site = a.site /\ op.alone = a.alone
    BY <2>1 DEF Moved, Same
  <2>3. Shape(op)
    BY <2>1, <1>2, <1>6 DEF Shape, Moved, Same, StepsOf, UndoSteps
  <2>4. ASSUME a.alone, a.site # None PROVE Known(op, None)
    <3>1. Known(a, probes[w])
      BY <2>4, <1>1, OpFacts
    <3>2. FileKnown(op)
      BY <3>1, <2>1, <1>2 DEF Known, FileKnown, Moved, Same
    <3>3. LinkKnown(op)
      BY <3>1, <2>1, <1>2, <1>6 DEF Known, LinkKnown, Moved, Same, Reloads
    <3>4. TestKnown(op, None)
      BY <3>1, <2>1, <1>2, <1>6 DEF Known, TestKnown, WasRead, Moved, Same
    <3>5. QED BY <3>2, <3>3, <3>4 DEF Known
  <2>5. QED BY <2>2, <2>3, <2>4, <1>1, <1>2, <1>3, ProbeGone
<1>7. CASE a.ran = "ok" /\ a.command # "restart" /\ ~Reloads(a)
  <2>1. op = Finish(a, "ok")
    BY <1>3, <1>7
  <2>2. op \in Op /\ Same(op, a) /\ op.step = "idle" /\ op.result = "ok" /\ op.enabled = a.enabled
    BY <2>1, <1>1, Records DEF Outcomes
  <2>3. \/ a.command = "create" /\ ~direct
        \/ a.command \in {"update", "delete"} /\ ~a.enabled
    BY <1>2, <1>7 DEF Reloads
  <2>4. ASSUME a.alone, a.site # None PROVE Ended(op)
    <3>1. Known(a, probes[w])
      BY <2>4, <1>1, OpFacts
    <3>2. a.command \in {"create", "update"} => content[a.site] \in Good \cup {Empty}
      BY <3>1, <1>2, <1>7 DEF Known, TestKnown
    <3>3. a.command = "delete" => ~direct /\ a.site \notin links /\ a.site \notin stale
      BY <3>1, <1>2, <2>3 DEF Known, LinkKnown
    <3>4. QED BY <3>2, <3>3, <2>2, <2>3 DEF Ended, Same
  <2>5. op.alone = a.alone /\ op.site = a.site
    BY <2>2 DEF Same
  <2>6. QED BY <2>2, <2>4, <2>5, <1>1, <1>2, <1>3, EndShape, ProbeGone
<1>8. QED BY <1>4, <1>5, <1>6, <1>7

\* Apache loads what it reads, and no more.
LEMMA Loading ==
    ASSUME SitesInv, NEW took \in BOOLEAN, served' = IF took THEN Loaded ELSE served
    PROVE  /\ served' \in [Sites -> Contents \cup {None}]
           /\ \A s \in Sites : took => served'[s] = IF s \in Included THEN content[s] ELSE None
<1>1. Loaded \in [Sites -> Contents \cup {None}]
  BY DEF Loaded, SitesInv, TypeOK
<1>2. \A s \in Sites : Loaded[s] = IF s \in Included THEN content[s] ELSE None
  BY DEF Loaded
<1>3. QED BY <1>1, <1>2 DEF SitesInv, TypeOK

\* reloadCommand: where Apache was reloaded the answer is true, else the undo begins.
LEMMA ReloadStep ==
    ASSUME SitesInv, NEW w \in Slots, Reload(w)
    PROVE  SitesInv'
<1>1. PICK a : a = ops[w] /\ a \in Op
  BY OpFacts
<1>2. /\ a.step = "reload" /\ Shape(a) /\ probes[w] = None /\ a.command # "restart"
      /\ a.command \in {"create", "update", "enable", "disable", "delete", "reload"}
      /\ (a.site # None => a.site \in Sites) /\ a.enabled \in BOOLEAN
  <2>1. a.step = "reload" /\ Shape(a) /\ probes[w] = None
    BY <1>1, OpFacts DEF Reload, At
  <2>2. QED BY <1>1, <2>1, StepFacts DEF Op, Commands, SiteCommands
<1>3. PICK r \in Runs(up /\ Accepted) :
         /\ Reloading(r)
         /\ Move(w, IF r.ran = "ok" THEN Finish(a, "ok") ELSE Undo(a, AfterReload(a), r.ran))
  BY <1>1 DEF Reload
<1>4. r.ran \in Outcomes /\ r.took \in BOOLEAN /\ (r.ran = "ok" => r.took)
  BY RunFacts
<1>5. /\ served' \in [Sites -> Contents \cup {None}]
      /\ r.took /\ a.site # None => served'[a.site] = IF a.site \in Included THEN content[a.site] ELSE None
  BY <1>2, <1>3, <1>4, Loading DEF Reloading
<1>6. UNCHANGED <<content, links, probes, direct, stale, up, scheduled>>
  BY DEF Reload, Disk
<1>7. up' \in BOOLEAN /\ scheduled' \in BOOLEAN
  BY <1>6, OpFacts
<1>8. ASSUME a.alone, a.site # None PROVE Known(a, probes[w])
  BY <1>1, <1>8, OpFacts
<1>9. CASE r.ran = "ok"
  <2>1. PICK op : op = Finish(a, "ok") /\ Move(w, op)
    BY <1>3, <1>9
  <2>2. op \in Op /\ Same(op, a) /\ op.step = "idle" /\ op.result = "ok" /\ op.enabled = a.enabled
    BY <2>1, <1>1, Records DEF Outcomes
  <2>3. ASSUME a.alone, a.site # None PROVE Ended(op)'
    <3>1. served'[a.site] = IF a.site \in Included THEN content[a.site] ELSE None
      BY <2>3, <1>4, <1>5, <1>9
    <3>2. a.command \in {"create", "update", "enable"} => content[a.site] \in Good \cup {Empty}
      BY <2>3, <1>2, <1>8 DEF Known, TestKnown
    <3>3. a.command \in {"create", "update", "enable"} => content[a.site] # None
      BY <3>2, ContentAssumption
    <3>4. a.site \notin Probed
      <4>1. \A v \in Slots \ {w} : probes[v] # a.site
        BY <2>3, <1>1, NoOtherProbe
      <4>2. QED BY <4>1, <1>2, <2>3 DEF Probed
    <3>5. a.site \in Included <=> IF direct THEN content[a.site] # None ELSE a.site \in links \cup stale
      BY <3>4, <1>2, <2>3 DEF Included
    <3>6. a.command = "enable" \/ (a.command = "update" /\ a.enabled)
             => (IF direct THEN content[a.site] # None ELSE a.site \in links \cup stale)
      BY <3>3, <2>3, <1>2, <1>8 DEF Known, LinkKnown
    <3>7. a.command = "disable" \/ a.command = "delete"
             => ~(IF direct THEN content[a.site] # None ELSE a.site \in links \cup stale)
      <4>1. direct => a.command # "disable"
        BY <1>2 DEF Shape
      <4>2. a.command = "disable" \/ a.command = "delete" => a.site \notin links /\ a.site \notin stale
        BY <2>3, <1>2, <1>8 DEF Known, LinkKnown
      <4>3. a.command = "delete" => content[a.site] = None
        BY <2>3, <1>2, <1>8 DEF Known, FileKnown
      <4>4. QED BY <4>1, <4>2, <4>3
    <3>8. a.command # "reload"
      BY <2>3, <1>1, <1>2, StepFacts
    <3>9. QED BY <3>1, <3>2, <3>3, <3>5, <3>6, <3>7, <3>8, <2>2, <1>2, <1>6 DEF Ended, Same
  <2>4. op.alone = a.alone /\ op.site = a.site
    BY <2>2 DEF Same
  <2>5. QED BY <2>1, <2>2, <2>3, <2>4, <1>1, <1>2, <1>5, <1>6, <1>7, EndShape, QuietStep
<1>10. CASE r.ran # "ok"
  <2>1. PICK op : op = Undo(a, AfterReload(a), r.ran) /\ Move(w, op)
    BY <1>3, <1>10
  <2>2. ASSUME NEW st \in UndoSteps, NEW rest, Undoing(op, a, st, rest, r.ran)
        PROVE  /\ op \in Op /\ Same(op, a) /\ op.backup = a.backup /\ op.enabled = a.enabled
               /\ op.result # "ok" /\ op.step = st /\ op.undo = rest /\ op.lost = a.lost /\ op.step # "idle"
               /\ op.command = a.command
    BY <2>2, <1>10 DEF Undoing, Same, UndoSteps
  <2>3. ASSUME op \in Op, Same(op, a), op.step # "idle", Shape(op), op.alone /\ op.site # None => Known(op, None)
        PROVE  SitesInv'
    BY <2>1, <2>3, <1>1, <1>2, <1>5, <1>6, <1>7, QuietStep
  <2>4. CASE a.command = "create"
    <3>1. op = Undo(a, <<"unwrite">>, r.ran)
      BY <2>1, <2>4 DEF AfterReload
    <3>2. Undoing(op, a, "unwrite", <<>>, r.ran) /\ "unwrite" \in UndoSteps
      BY <3>1, <1>1, <1>4, PlanSteps, Zenon DEF UndoSteps
    <3>3. QED BY <3>2, <2>2, <2>3, <2>4, <1>1, <1>2, UndoBegins
  <2>5. CASE a.command = "update" \/ (a.command = "delete" /\ direct)
    <3>1. op = Undo(a, <<"restore", "rereload">>, r.ran)
      BY <2>1, <2>5 DEF AfterReload
    <3>2. Undoing(op, a, "restore", <<"rereload">>, r.ran) /\ "restore" \in UndoSteps
      BY <3>1, <1>1, <1>4, PlanSteps, Zenon DEF UndoSteps
    <3>3. QED BY <3>2, <2>2, <2>3, <2>5, <1>1, <1>2, UndoBegins
  <2>6. CASE a.command = "delete" /\ ~direct
    <3>1. op = Undo(a, <<"restore", "unswitch", "rereload">>, r.ran)
      BY <2>1, <2>6 DEF AfterReload
    <3>2. Undoing(op, a, "restore", <<"unswitch", "rereload">>, r.ran) /\ "restore" \in UndoSteps
      BY <3>1, <1>1, <1>4, PlanSteps, Zenon DEF UndoSteps
    <3>3. a.alone /\ a.site # None => a.enabled
      BY <2>6, <1>2, <1>8 DEF Known, LinkKnown
    <3>4. op.alone = a.alone /\ op.site = a.site
      BY <3>2, <2>2 DEF Same
    <3>5. QED BY <3>2, <3>3, <3>4, <2>2, <2>3, <2>6, <1>1, <1>2, UndoBegins
  <2>7. CASE a.command \in {"enable", "disable"}
    <3>1. op = Undo(a, <<"unswitch", "rereload">>, r.ran)
      BY <2>1, <2>7 DEF AfterReload
    <3>2. Undoing(op, a, "unswitch", <<"rereload">>, r.ran) /\ "unswitch" \in UndoSteps
      BY <3>1, <1>1, <1>4, PlanSteps, Zenon DEF UndoSteps
    <3>3. QED BY <3>2, <2>2, <2>3, <2>7, <1>1, <1>2, UndoBegins
  <2>8. CASE a.command = "reload"
    <3>1. AfterReload(a) = <<>> /\ a.site = None
      BY <2>8, <1>1, <1>2, StepFacts DEF AfterReload
    <3>2. op = Finish(a, r.ran)
      BY <2>1, <3>1 DEF Undo
    <3>3. op \in Op /\ Same(op, a) /\ op.step = "idle" /\ op.site = None
      BY <3>1, <3>2, <1>1, <1>4, Records DEF Same
    <3>4. QED BY <3>3, <2>1, <1>1, <1>2, <1>5, <1>6, <1>7, EndShape, QuietStep
  <2>9. QED BY <2>4, <2>5, <2>6, <2>7, <2>8, <1>2
<1>11. QED BY <1>9, <1>10

\* systemd-run.
LEMMA ScheduleStep ==
    ASSUME SitesInv, NEW w \in Slots, Schedule(w)
    PROVE  SitesInv'
<1>1. PICK a : a = ops[w] /\ a \in Op
  BY OpFacts
<1>2. a.step = "schedule" /\ Shape(a) /\ probes[w] = None /\ a.site = None
  <2>1. a.step = "schedule" /\ Shape(a) /\ probes[w] = None
    BY <1>1, OpFacts DEF Schedule, At
  <2>2. QED BY <1>1, <2>1, StepFacts
<1>3. PICK r \in Runs(TRUE) : scheduled' = (scheduled \/ r.took) /\ Move(w, Finish(a, r.ran))
  BY <1>1 DEF Schedule
<1>4. r.ran \in Outcomes /\ r.took \in BOOLEAN
  BY RunFacts
<1>5. PICK op : op = Finish(a, r.ran)
  OBVIOUS
<1>6. op \in Op /\ Same(op, a) /\ op.step = "idle" /\ op.site = None
  BY <1>1, <1>2, <1>4, <1>5, Records DEF Same
<1>7. /\ UNCHANGED <<content, links, probes, direct, stale>> /\ served' \in [Sites -> Contents \cup {None}]
      /\ up' \in BOOLEAN /\ scheduled' \in BOOLEAN
  BY <1>3, <1>4, OpFacts DEF Schedule, Disk
<1>8. QED BY <1>1, <1>2, <1>3, <1>5, <1>6, <1>7, EndShape, QuietStep

\* Going on with the undo: the next step of the plan, or the answer.
LEMMA NextUndo ==
    ASSUME SitesInv, NEW w \in Slots, ops[w].step \in UndoSteps, NEW b \in Op, Same(b, ops[w]),
           b.undo = ops[w].undo, b.result = ops[w].result, b.enabled = ops[w].enabled,
           b.backup = ops[w].backup, NEW op, op = Undone(b)
    PROVE  /\ op \in Op /\ Same(op, ops[w]) /\ op.lost = b.lost /\ op.enabled = b.enabled
           /\ op.step # "idle" => op.backup = b.backup
           /\ op.result # "ok" /\ Shape(op)
           /\ \/ op.step = "idle" /\ b.undo = <<>>
              \/ op.step = "rereload" /\ b.undo = <<"rereload">> /\ ops[w].step \in {"restore", "unswitch"}
              \/ /\ op.step = "unswitch" /\ b.undo \notin {<<>>, <<"rereload">>}
                 /\ ops[w].step = "restore" /\ op.command = "delete" /\ ~direct
<1>1. PICK a : a = ops[w] /\ a \in Op
  BY OpFacts
<1>2. /\ Shape(a) /\ a.step \in UndoSteps /\ a.undo \in PlansOf(a) /\ a.result # "ok"
      /\ b.command = a.command /\ b.site = a.site /\ b.new = a.new /\ b.result \in Outcomes
  BY <1>1, OpFacts DEF Shape, Same, Op
<1>3. op = Undo(b, b.undo, b.result)
  BY DEF Undone
<1>4. \/ b.undo = <<>>
      \/ b.undo = <<"rereload">> /\ a.step \in {"restore", "unswitch"}
      \/ b.undo \in {<<"unswitch">>, <<"unswitch", "rereload">>} /\ a.step = "restore"
         /\ a.command = "delete" /\ ~direct
  BY <1>1, <1>2 DEF PlansOf, UndoSteps
<1>5. CASE b.undo = <<>>
  <2>1. op = Finish(b, b.result)
    BY <1>3, <1>5 DEF Undo
  <2>2. op \in Op /\ Same(op, b) /\ op.step = "idle" /\ op.result = b.result /\ op.lost = b.lost
        /\ op.enabled = b.enabled
    <3>1. PICK r \in Outcomes : r = b.result
      BY <1>2
    <3>2. /\ Finish(b, r) \in Op /\ Same(Finish(b, r), b) /\ Finish(b, r).step = "idle"
          /\ Finish(b, r).result = r /\ Finish(b, r).lost = b.lost /\ Finish(b, r).enabled = b.enabled
      BY Records
    <3>3. QED BY <2>1, <3>1, <3>2
  <2>3. Same(op, a)
    BY <2>2, <1>1 DEF Same
  <2>4. QED BY <2>2, <2>3, <1>1, <1>2, <1>5, EndShape
<1>6. ASSUME NEW st \in {"rereload", "unswitch"}, NEW rest, Undoing(op, b, st, rest, b.result),
             st = "rereload" => rest = <<>> /\ a.step \in {"restore", "unswitch"},
             st = "unswitch" => rest \in {<<>>, <<"rereload">>} /\ a.command = "delete" /\ ~direct
      PROVE  /\ op \in Op /\ Same(op, a) /\ op.lost = b.lost /\ op.enabled = b.enabled
             /\ op.backup = b.backup /\ op.step = st
             /\ op.result # "ok" /\ Shape(op) /\ op.command = a.command
  <2>1. /\ op \in Op /\ Same(op, b) /\ op.lost = b.lost /\ op.enabled = b.enabled
        /\ op.backup = b.backup /\ op.step = st /\ op.undo = rest /\ op.result = b.result
    BY <1>6 DEF Undoing
  <2>2. Same(op, a) /\ op.command = a.command /\ op.site = a.site /\ op.new = a.new
    BY <2>1, <1>1 DEF Same
  <2>3. a.command \in {"update", "enable", "disable", "delete"} /\ ~(direct /\ a.command \in {"enable", "disable"})
    <3>1. a.command = "delete" \/ a.step \in {"restore", "unswitch"}
      BY <1>6
    <3>2. ~(direct /\ a.command \in {"enable", "disable"})
      BY <1>2 DEF Shape, UndoSteps
    <3>3. QED BY <3>1, <3>2, <1>1, <1>2, StepFacts
  <2>4. op.step \in StepsOf[op.command]
    BY <2>1, <2>2, <2>3, <1>6 DEF StepsOf
  <2>5. op.undo \in PlansOf(op)
    BY <2>1, <1>6 DEF PlansOf
  <2>6. (a.command \in SiteCommands) = (a.site # None) /\ (a.command \in {"create", "update"}) = (a.new # None)
    BY <1>2 DEF Shape, UndoSteps
  <2>7. Shape(op)
    BY <2>1, <2>2, <2>3, <2>4, <2>5, <2>6, <1>1, <1>2, <1>6 DEF Shape
  <2>8. QED BY <2>1, <2>2, <2>7, <1>1, <1>2
<1>7. CASE b.undo = <<"rereload">> /\ a.step \in {"restore", "unswitch"}
  <2>1. op = Undo(b, <<"rereload">>, b.result)
    BY <1>3, <1>7
  <2>2. Undoing(op, b, "rereload", <<>>, b.result)
    BY <2>1, <1>2, PlanSteps, Zenon DEF UndoSteps
  <2>3. QED BY <2>2, <1>1, <1>6, <1>7
<1>8. CASE b.undo = <<"unswitch">> /\ a.step = "restore" /\ a.command = "delete" /\ ~direct
  <2>1. op = Undo(b, <<"unswitch">>, b.result)
    BY <1>3, <1>8
  <2>2. Undoing(op, b, "unswitch", <<>>, b.result)
    BY <2>1, <1>2, PlanSteps, Zenon DEF UndoSteps
  <2>3. b.undo \notin {<<>>, <<"rereload">>}
    BY <1>8
  <2>4. QED BY <2>2, <2>3, <1>1, <1>6, <1>8
<1>9. CASE b.undo = <<"unswitch", "rereload">> /\ a.step = "restore" /\ a.command = "delete" /\ ~direct
  <2>1. op = Undo(b, <<"unswitch", "rereload">>, b.result)
    BY <1>3, <1>9
  <2>2. Undoing(op, b, "unswitch", <<"rereload">>, b.result)
    BY <2>1, <1>2, PlanSteps, Zenon DEF UndoSteps
  <2>3. b.undo \notin {<<>>, <<"rereload">>}
    BY <1>9
  <2>4. QED BY <2>2, <2>3, <1>1, <1>6, <1>9
<1>10. QED BY <1>4, <1>5, <1>7, <1>8, <1>9

\* The record that a step of the undo goes on with: the command, or the command that
\* lost sight of its file or of its link.
LEMMA UndoLoses ==
    ASSUME NEW a \in Op, NEW b, b = a \/ b = Lose(a, "file") \/ b = Lose(a, "link")
    PROVE  /\ b \in Op /\ Same(b, a) /\ b.undo = a.undo /\ b.result = a.result
           /\ b.enabled = a.enabled /\ b.backup = a.backup /\ a.lost \subseteq b.lost
           /\ b = Lose(a, "file") => "file" \in b.lost
           /\ b = Lose(a, "link") => "link" \in b.lost
<1>1. Same(a, a)
  BY DEF Same
<1>2. ASSUME NEW x \in {"file", "link"}, NEW c, c = Lose(a, x)
      PROVE  /\ c \in Op /\ Same(c, a) /\ c.undo = a.undo /\ c.result = a.result
             /\ c.enabled = a.enabled /\ c.backup = a.backup /\ c.lost = a.lost \cup {x}
  <2>1. /\ Lose(a, x) \in Op /\ Same(Lose(a, x), a) /\ Lose(a, x).lost = a.lost \cup {x}
        /\ Lose(a, x).undo = a.undo /\ Lose(a, x).result = a.result
        /\ Lose(a, x).enabled = a.enabled /\ Lose(a, x).backup = a.backup
    BY Records
  <2>2. QED BY <2>1, <1>2
<1>3. CASE b = Lose(a, "file")
  BY <1>2, <1>3
<1>4. CASE b = Lose(a, "link")
  BY <1>2, <1>4
<1>5. CASE b = a /\ b # Lose(a, "file") /\ b # Lose(a, "link")
  BY <1>1, <1>5
<1>6. QED BY <1>3, <1>4, <1>5

\* create takes its file away again.
LEMMA UnwriteStep ==
    ASSUME SitesInv, NEW w \in Slots, Unwrite(w)
    PROVE  SitesInv'
<1>1. PICK a : a = ops[w] /\ a \in Op
  BY OpFacts
<1>2. /\ a.step = "unwrite" /\ Shape(a) /\ probes[w] = None /\ a.command = "create"
      /\ a.site # None /\ a.site \in Sites /\ a.step \in UndoSteps
  <2>1. a.step = "unwrite" /\ Shape(a) /\ probes[w] = None
    BY <1>1, OpFacts DEF Unwrite, At
  <2>2. QED BY <1>1, <2>1, StepFacts DEF UndoSteps
<1>3. a.alone => a.foundFile = None /\ (a.site \in links) = a.foundLink
  BY <1>1, <1>2, OpFacts DEF Known, FileKnown, LinkKnown
<1>4. UNCHANGED <<links, probes, direct, stale, served, up, scheduled, Server>>
  BY DEF Unwrite, Server
<1>5. ASSUME NEW b, b = a \/ b = Lose(a, "file"), NEW op, op = Undone(b), Move(w, op),
             OnSite(w, a.site), "file" \in b.lost \/ content'[a.site] = None
      PROVE  SitesInv'
  <2>1. /\ b \in Op /\ Same(b, a) /\ b.undo = a.undo /\ b.result = a.result
        /\ b.enabled = a.enabled /\ b.backup = a.backup
    BY <1>1, <1>5, UndoLoses
  <2>2. /\ op \in Op /\ Same(op, a) /\ op.lost = b.lost /\ op.result # "ok" /\ op.step = "idle"
    BY <2>1, <1>1, <1>2, <1>5, NextUndo
  <2>3. a.alone => Ended(op)'
    BY <2>2, <1>2, <1>3, <1>4, <1>5 DEF Ended, Same
  <2>4. probes'[w] = None
    BY <1>2, <1>4
  <2>5. op.alone = a.alone /\ op.site = a.site
    BY <2>2 DEF Same
  <2>6. QED BY <2>2, <2>3, <2>4, <2>5, <1>1, <1>2, <1>5, SiteEnd
<1>6. CASE content' = [content EXCEPT ![a.site] = None] /\ Move(w, Undone(a))
  <2>1. OnSite(w, a.site) /\ content'[a.site] = None
    BY <1>1, <1>2, <1>4, <1>6, WritesFile
  <2>2. QED BY <2>1, <1>5, <1>6
<1>7. CASE UNCHANGED content /\ Move(w, Undone(Lose(a, "file")))
  <2>1. OnSite(w, a.site)
    BY <1>1, <1>2, <1>4, <1>7, OpFacts DEF OnSite
  <2>2. PICK b : b = Lose(a, "file") /\ Move(w, Undone(b))
    BY <1>7
  <2>3. "file" \in b.lost
    BY <2>2, <1>1, UndoLoses
  <2>4. QED BY <2>1, <2>2, <2>3, <1>5
<1>8. QED BY <1>1, <1>6, <1>7 DEF Unwrite

\* restore.
LEMMA RestoreStep ==
    ASSUME SitesInv, NEW w \in Slots, Restore(w)
    PROVE  SitesInv'
<1>1. PICK a : a = ops[w] /\ a \in Op
  BY OpFacts
<1>2. /\ a.step = "restore" /\ Shape(a) /\ probes[w] = None /\ a.command \in {"update", "delete"}
      /\ a.site # None /\ a.site \in Sites /\ a.step \in UndoSteps
  <2>1. a.step = "restore" /\ Shape(a) /\ probes[w] = None
    BY <1>1, OpFacts DEF Restore, At
  <2>2. QED BY <1>1, <2>1, StepFacts DEF UndoSteps
<1>3. a.alone => Known(a, probes[w])
  BY <1>1, <1>2, OpFacts
<1>4. UNCHANGED <<links, probes, direct, stale, served, up, scheduled, Server>>
  BY DEF Restore, Server
<1>5. ASSUME NEW b, b = a \/ b = Lose(a, "file"), NEW op, op = Undone(b), Move(w, op),
             OnSite(w, a.site), "file" \in b.lost \/ content'[a.site] = a.backup
      PROVE  SitesInv'
  <2>1. /\ b \in Op /\ Same(b, a) /\ b.undo = a.undo /\ b.result = a.result
        /\ b.enabled = a.enabled /\ b.backup = a.backup /\ a.lost \subseteq b.lost
    BY <1>1, <1>5, UndoLoses
  <2>2. /\ op \in Op /\ Same(op, a) /\ op.lost = b.lost /\ op.enabled = a.enabled
        /\ op.step # "idle" => op.backup = a.backup
        /\ op.result # "ok" /\ Shape(op)
        /\ \/ op.step = "idle" /\ a.undo = <<>>
           \/ op.step = "rereload" /\ a.undo = <<"rereload">>
           \/ /\ op.step = "unswitch" /\ a.undo \notin {<<>>, <<"rereload">>}
              /\ a.command = "delete" /\ ~direct
    <3>1. ops[w].step \in UndoSteps
      BY <1>1, <1>2
    <3>2. /\ op \in Op /\ Same(op, a) /\ op.lost = b.lost /\ op.enabled = b.enabled
          /\ op.step # "idle" => op.backup = b.backup
          /\ op.result # "ok" /\ Shape(op)
          /\ \/ op.step = "idle" /\ b.undo = <<>>
             \/ op.step = "rereload" /\ b.undo = <<"rereload">>
             \/ /\ op.step = "unswitch" /\ b.undo \notin {<<>>, <<"rereload">>}
                /\ op.command = "delete" /\ ~direct
      BY <3>1, <2>1, <1>1, <1>5, NextUndo
    <3>3. op.command = a.command
      BY <3>2 DEF Same
    <3>4. QED BY <3>2, <3>3, <2>1
  <2>3. op.alone = a.alone /\ op.site = a.site /\ op.command = a.command /\ probes'[w] = None
    BY <2>2, <1>2, <1>4 DEF Same
  <2>4. a.alone /\ "file" \notin op.lost => content'[a.site] = a.foundFile
    BY <2>2, <1>2, <1>3, <1>5 DEF Known, FileKnown
  <2>5. ASSUME a.alone, a.undo \in {<<>>, <<"rereload">>}, "link" \notin op.lost
        PROVE  (a.site \in links) = a.foundLink
    <3>1. a.command = "update" => (a.site \in links) = a.foundLink
      BY <2>5, <1>3 DEF Known, LinkKnown
    <3>2. a.command = "delete" => /\ direct \/ ~a.enabled \/ "link" \in a.lost
                                  /\ a.site \notin links /\ a.site \notin stale
                                  /\ a.enabled = (direct \/ a.foundLink \/ a.site \in stale)
                                  /\ direct => ~a.foundLink
      BY <2>5, <1>2, <1>3 DEF Known, LinkKnown
    <3>3. a.foundLink \in BOOLEAN /\ a.enabled \in BOOLEAN /\ "link" \notin a.lost
      BY <1>1, <2>1, <2>2, <2>5 DEF Op
    <3>4. a.command = "delete" => ~a.foundLink
      BY <3>2, <3>3
    <3>5. QED BY <3>1, <3>2, <3>3, <3>4, <1>2
  <2>6. CASE op.step = "idle"
    <3>1. a.alone => Ended(op)'
      <4>1. a.undo \in {<<>>, <<"rereload">>}
        BY <2>2, <2>6
      <4>2. op.foundFile = a.foundFile /\ op.foundLink = a.foundLink
        BY <2>2 DEF Same
      <4>3. QED BY <4>1, <4>2, <2>2, <2>3, <2>4, <2>5, <1>4 DEF Ended
    <3>2. QED BY <3>1, <2>2, <2>3, <2>6, <1>1, <1>2, <1>5, SiteEnd
  <2>7. CASE op.step # "idle"
    <3>1. shaken' = shaken /\ op.step \in {"rereload", "unswitch"} /\ op.backup = a.backup
      BY <2>2, <2>7, <1>5 DEF Move
    <3>2. Shape(op)'
      BY <2>2, <1>4 DEF Shape, PlansOf
    <3>3. ASSUME a.alone PROVE Known(op, None)'
      <4>1. FileKnown(op)'
        BY <3>1, <3>3, <2>2, <2>3, <2>4, <1>2, <1>3 DEF Known, FileKnown, Same
      <4>2. LinkKnown(op)'
        <5>1. op.step = "rereload" /\ "link" \notin op.lost => (a.site \in links) = a.foundLink
          BY <3>3, <2>2, <2>5
        <5>2. op.step = "unswitch" => a.command = "delete" /\ a.enabled
          BY <3>3, <2>2, <1>2, <1>3 DEF Known, LinkKnown
        <5>3. QED BY <5>1, <5>2, <3>1, <3>3, <2>2, <2>3, <1>2, <1>3, <1>4 DEF Known, LinkKnown, Same
      <4>3. TestKnown(op, None)'
        BY <3>1, <3>3, <2>2, <1>3, <1>4 DEF Known, TestKnown, WasRead, Same
      <4>4. QED BY <4>1, <4>2, <4>3 DEF Known
    <3>4. QED BY <3>2, <3>3, <2>2, <2>3, <2>7, <1>1, <1>2, <1>5, SiteStep
  <2>8. QED BY <2>6, <2>7
<1>6. ASSUME NEW c \in Contents \cup {None}, content' = [content EXCEPT ![a.site] = c]
      PROVE  OnSite(w, a.site) /\ content'[a.site] = c
  BY <1>1, <1>2, <1>4, <1>6, WritesFile
<1>7. CASE content' = [content EXCEPT ![a.site] = a.backup] /\ Move(w, Undone(a))
  <2>1. a.backup \in Contents \cup {None}
    BY <1>1 DEF Op
  <2>2. QED BY <2>1, <1>5, <1>6, <1>7
<1>8. CASE (content' = [content EXCEPT ![a.site] = Empty] \/ UNCHANGED content) /\ Move(w, Undone(Lose(a, "file")))
  <2>1. OnSite(w, a.site)
    <3>1. Empty \in Contents \cup {None}
      BY DEF Contents
    <3>2. CASE content' = [content EXCEPT ![a.site] = Empty]
      BY <3>1, <3>2, <1>6
    <3>3. CASE UNCHANGED content
      BY <3>3, <1>1, <1>2, <1>4, OpFacts DEF OnSite
    <3>4. QED BY <3>2, <3>3, <1>8
  <2>2. PICK b : b = Lose(a, "file") /\ Move(w, Undone(b))
    BY <1>8
  <2>3. "file" \in b.lost
    BY <2>2, <1>1, UndoLoses
  <2>4. QED BY <2>1, <2>2, <2>3, <1>5
<1>9. QED BY <1>1, <1>7, <1>8 DEF Restore

\* The link is put back, or taken away again.
LEMMA UnswitchStep ==
    ASSUME SitesInv, NEW w \in Slots, Unswitch(w)
    PROVE  SitesInv'
<1>1. PICK a : a = ops[w] /\ a \in Op
  BY OpFacts
<1>2. /\ a.step = "unswitch" /\ Shape(a) /\ a.command \in {"enable", "disable", "delete"} /\ ~direct
      /\ a.site # None /\ a.site \in Sites /\ a.step \in UndoSteps
  <2>1. a.step = "unswitch" /\ Shape(a)
    BY <1>1, OpFacts DEF Unswitch, At
  <2>2. QED BY <1>1, <2>1, StepFacts DEF UndoSteps
<1>3. PICK on \in BOOLEAN : on = (a.command # "enable")
  OBVIOUS
<1>4. PICK r \in Runs(on => content[a.site] # None) :
         /\ links' = IF ~r.took THEN links ELSE IF on THEN Link(a.site) ELSE Unlink(a.site)
         /\ Move(w, Undone(IF r.ran = "ok" THEN a ELSE Lose(a, "link")))
  BY <1>1, <1>3 DEF Unswitch
<1>5. r.took \in BOOLEAN /\ (r.ran = "ok" => r.took)
  BY RunFacts
<1>6. /\ OnSite(w, a.site) /\ probes'[w] = None /\ UNCHANGED <<content, direct, stale, served>>
      /\ (a.site \in links') = (IF r.took THEN on ELSE a.site \in links)
  <2>1. UNCHANGED <<content, probes, Server>>
    BY DEF Unswitch
  <2>2. QED BY <1>1, <1>2, <1>4, <1>5, <2>1, ChangesLink
<1>7. a.alone => Known(a, probes[w])
  BY <1>1, <1>2, OpFacts
<1>8. PICK b : b = (IF r.ran = "ok" THEN a ELSE Lose(a, "link"))
  OBVIOUS
<1>9. PICK op : op = Undone(b) /\ Move(w, op)
  BY <1>4, <1>8
<1>10. /\ b \in Op /\ Same(b, a) /\ b.undo = a.undo /\ b.result = a.result /\ b.enabled = a.enabled
       /\ b.backup = a.backup /\ a.lost \subseteq b.lost /\ (r.ran # "ok" => "link" \in b.lost)
  BY <1>1, <1>8, UndoLoses
<1>11. /\ op \in Op /\ Same(op, a) /\ op.lost = b.lost /\ op.enabled = a.enabled
       /\ op.step # "idle" => op.backup = a.backup
       /\ op.result # "ok" /\ Shape(op) /\ op.step \in {"idle", "rereload"}
  <2>1. /\ op \in Op /\ Same(op, a) /\ op.lost = b.lost /\ op.enabled = b.enabled
        /\ op.step # "idle" => op.backup = b.backup
        /\ op.result # "ok" /\ Shape(op)
        /\ op.step = "idle" \/ op.step = "rereload" \/ (op.step = "unswitch" /\ a.step = "restore")
    BY <1>1, <1>2, <1>9, <1>10, NextUndo
  <2>2. QED BY <2>1, <1>2, <1>10
<1>12. op.alone = a.alone /\ op.site = a.site /\ op.command = a.command
       /\ op.foundFile = a.foundFile /\ op.foundLink = a.foundLink
  BY <1>11 DEF Same
<1>13. a.alone /\ "file" \notin op.lost => content'[a.site] = a.foundFile
  BY <1>2, <1>6, <1>7, <1>10, <1>11 DEF Known, FileKnown
<1>14. ASSUME a.alone, "link" \notin op.lost PROVE (a.site \in links') = a.foundLink
  <2>1. (a.site \in links') = (a.command # "enable")
    BY <1>3, <1>5, <1>6, <1>10, <1>11, <1>14
  <2>2. a.foundLink \in BOOLEAN
    BY <1>1 DEF Op
  <2>3. a.command = "enable" => ~a.foundLink
    BY <1>2, <1>7, <1>14 DEF Known, LinkKnown
  <2>4. a.command = "disable" => a.foundLink
    BY <1>2, <1>7, <1>14 DEF Known, LinkKnown
  <2>5. a.command = "delete" => a.foundLink
    BY <1>2, <1>7, <1>14, <2>2 DEF Known, LinkKnown
  <2>6. QED BY <2>1, <2>2, <2>3, <2>4, <2>5, <1>2
<1>15. CASE op.step = "idle"
  <2>1. a.alone => Ended(op)'
    BY <1>6, <1>11, <1>12, <1>13, <1>14 DEF Ended
  <2>2. QED BY <2>1, <1>1, <1>2, <1>6, <1>9, <1>11, <1>12, <1>15, SiteEnd
<1>16. CASE op.step = "rereload"
  <2>1. shaken' = shaken
    BY <1>9, <1>16 DEF Move
  <2>2. Shape(op)'
    BY <1>6, <1>11 DEF Shape, PlansOf
  <2>3. ASSUME a.alone PROVE Known(op, None)'
    <3>1. FileKnown(op)'
      BY <2>3, <1>2, <1>6, <1>7, <1>11, <1>12, <1>13, <1>16 DEF Known, FileKnown
    <3>2. LinkKnown(op)'
      BY <2>3, <1>2, <1>6, <1>7, <1>11, <1>12, <1>14, <1>16 DEF Known, LinkKnown
    <3>3. TestKnown(op, None)'
      BY <2>1, <2>3, <1>6, <1>7, <1>12, <1>16 DEF Known, TestKnown, WasRead
    <3>4. QED BY <3>1, <3>2, <3>3 DEF Known
  <2>4. QED BY <2>2, <2>3, <1>1, <1>2, <1>6, <1>9, <1>11, <1>12, <1>16, SiteStep
<1>17. QED BY <1>11, <1>15, <1>16

\* The second reload, whose result is not looked at.
LEMMA RereloadStep ==
    ASSUME SitesInv, NEW w \in Slots, Rereload(w)
    PROVE  SitesInv'
<1>1. PICK a : a = ops[w] /\ a \in Op
  BY OpFacts
<1>2. a.step = "rereload" /\ Shape(a) /\ probes[w] = None /\ a.step \in UndoSteps
  BY <1>1, OpFacts DEF Rereload, At, UndoSteps
<1>3. PICK r \in Runs(up /\ Accepted) : Reloading(r) /\ Move(w, Undone(a))
  BY <1>1 DEF Rereload
<1>4. r.took \in BOOLEAN
  BY RunFacts
<1>5. /\ UNCHANGED <<content, links, probes, direct, stale>> /\ served' \in [Sites -> Contents \cup {None}]
      /\ up' \in BOOLEAN /\ scheduled' \in BOOLEAN
  BY <1>3, <1>4, Loading, OpFacts DEF Rereload, Disk, Reloading
<1>6. PICK op : op = Undone(a) /\ Move(w, op)
  BY <1>3
<1>7. op \in Op /\ Same(op, a) /\ op.lost = a.lost /\ op.result # "ok" /\ op.step = "idle"
  <2>1. Same(a, a)
    BY DEF Same
  <2>2. QED BY <2>1, <1>1, <1>2, <1>6, NextUndo
<1>8. ASSUME a.alone, a.site # None PROVE Ended(op)'
  <2>1. Known(a, probes[w])
    BY <1>1, <1>8, OpFacts
  <2>2. "file" \notin a.lost => content[a.site] = a.foundFile
    BY <2>1, <1>2 DEF Known, FileKnown
  <2>3. "link" \notin a.lost => (a.site \in links) = a.foundLink
    BY <2>1, <1>2 DEF Known, LinkKnown
  <2>4. QED BY <2>2, <2>3, <1>5, <1>7 DEF Ended, Same
<1>9. op.alone = a.alone /\ op.site = a.site
  BY <1>7 DEF Same
<1>10. QED BY <1>1, <1>2, <1>5, <1>6, <1>7, <1>8, <1>9, EndShape, QuietStep

\* The restart of Apache that was scheduled: no command sees it.
LEMMA RestartStep ==
    ASSUME SitesInv, RestartFires
    PROVE  SitesInv'
<1>1. /\ UNCHANGED <<content, links, probes, direct, stale, ops, shaken>> /\ answer' = Idle
      /\ scheduled' = FALSE /\ up' \in BOOLEAN
  BY DEF RestartFires, Disk, Accepted
<1>2. served' \in [Sites -> Contents \cup {None}]
  <2>1. Loaded \in [Sites -> Contents \cup {None}]
    BY DEF Loaded, SitesInv, TypeOK
  <2>2. QED BY <2>1 DEF RestartFires, SitesInv, TypeOK
<1>3. TypeOK'
  BY <1>1, <1>2 DEF SitesInv, TypeOK
<1>4. \A w \in Slots : (ops[w].step = "idle" => ops[w] = Idle)' /\ Shape(ops[w])'
  BY <1>1 DEF SitesInv, Shape, PlansOf
<1>5. \A w \in Slots : ops[w].site # None /\ ops[w].alone => Known(ops[w], probes[w])'
  BY <1>1 DEF SitesInv, Known, FileKnown, LinkKnown, TestKnown, WasRead
<1>6. SettledSitesAccepted'
  BY <1>1 DEF SitesInv, SettledSitesAccepted, Included, Probed
<1>7. RefusedKeepsSite' /\ SuccessServed'
  BY <1>1, IdleIsOp DEF RefusedKeepsSite, SuccessServed, Answered
<1>8. (ops \in [Slots -> Op])' /\ (answer \in Op)'
      /\ \A v, w \in Slots : v # w /\ ops'[v].site = ops'[w].site /\ ops'[w].site # None => ~ops'[w].alone
  BY <1>1, IdleIsOp DEF SitesInv
<1>9. QED BY <1>1, <1>3, <1>4, <1>5, <1>6, <1>7, <1>8 DEF SitesInv

\* A client connects.  What its command finds is what it knows; the commands that it
\* meets on its site are no longer alone, and nor is it.
LEMMA ArriveStep ==
    ASSUME SitesInv, NEW w \in Slots, Arrive(w)
    PROVE  SitesInv'
<1>0. PICK c \in Commands, s \in Sites \cup {None}, n \in Good \cup Bad \cup {None} :
        LET met == {v \in Slots \ {w} : s # None /\ ops[v].site = s}
            op == [Idle EXCEPT !.command = c, !.site = s, !.new = n,
                     !.step = IF c \in SiteCommands THEN "start" ELSE "test",
                     !.alone = (met = {}),
                     !.foundFile = IF s = None THEN None ELSE content[s],
                     !.foundLink = s \in links]
        IN  /\ ops[w].step = "idle"
            /\ (c \in SiteCommands) = (s # None)
            /\ (c \in {"create", "update"}) = (n # None)
            /\ ops' = [v \in Slots |-> IF v = w THEN op
                                       ELSE IF v \in met THEN [ops[v] EXCEPT !.alone = FALSE]
                                       ELSE ops[v]]
            /\ answer' = Idle
            /\ shaken' = IF met = {} THEN shaken ELSE shaken \cup {s}
            /\ UNCHANGED <<Disk, Server>>
  BY Zenon DEF Arrive
<1>a. PICK met : met = {v \in Slots \ {w} : s # None /\ ops[v].site = s}
  OBVIOUS
<1>b. PICK op : op = [Idle EXCEPT !.command = c, !.site = s, !.new = n,
                        !.step = IF c \in SiteCommands THEN "start" ELSE "test",
                        !.alone = (met = {}),
                        !.foundFile = IF s = None THEN None ELSE content[s],
                        !.foundLink = s \in links]
  OBVIOUS
<1>1. /\ met = {v \in Slots \ {w} : s # None /\ ops[v].site = s}
      /\ ops[w].step = "idle"
      /\ (c \in SiteCommands) = (s # None)
      /\ (c \in {"create", "update"}) = (n # None)
      /\ ops' = [v \in Slots |-> IF v = w THEN op
                                 ELSE IF v \in met THEN [ops[v] EXCEPT !.alone = FALSE]
                                 ELSE ops[v]]
      /\ answer' = Idle
      /\ shaken' = IF met = {} THEN shaken ELSE shaken \cup {s}
      /\ UNCHANGED <<Disk, Server>>
  BY <1>0, <1>a, <1>b, Zenon
<1>2. UNCHANGED <<content, links, probes, direct, stale, served, up, scheduled>>
  BY <1>1 DEF Disk, Server
<1>3. ops[w] = Idle /\ probes[w] = None /\ ops \in [Slots -> Op]
  BY <1>1, OpFacts, IdleIsOp DEF SitesInv
<1>4. /\ op \in Op /\ op.command = c /\ op.site = s /\ op.new = n /\ op.alone = (met = {})
      /\ op.step = (IF c \in SiteCommands THEN "start" ELSE "test")
      /\ op.foundFile = (IF s = None THEN None ELSE content[s]) /\ op.foundLink = (s \in links)
  <2>1. PICK st \in Steps : st = IF c \in SiteCommands THEN "start" ELSE "test"
    BY DEF Steps
  <2>2. PICK ff \in Contents \cup {None} : ff = IF s = None THEN None ELSE content[s]
    BY OpFacts
  <2>a. (met = {}) \in BOOLEAN /\ (s \in links) \in BOOLEAN
    OBVIOUS
  <2>3. PICK al \in BOOLEAN : al = (met = {})
    BY <2>a, Zenon
  <2>4. PICK fl \in BOOLEAN : fl = (s \in links)
    BY <2>a, Zenon
  <2>5. op = [Idle EXCEPT !.command = c, !.site = s, !.new = n, !.step = st, !.alone = al,
                !.foundFile = ff, !.foundLink = fl]
    BY <1>b, <2>1, <2>2, <2>3, <2>4
  <2>6. /\ op \in Op /\ op.command = c /\ op.site = s /\ op.new = n /\ op.alone = al
        /\ op.step = st /\ op.foundFile = ff /\ op.foundLink = fl
    <3>1. <<>> \in Seq(UndoSteps) /\ "ok" \in Outcomes
      BY DEF Outcomes
    <3>2. op = [command |-> c, site |-> s, new |-> n, step |-> st, enabled |-> FALSE,
                backup |-> None, ran |-> "ok", undo |-> <<>>, result |-> "ok",
                alone |-> al, lost |-> {}, foundFile |-> ff, foundLink |-> fl]
      BY <2>5 DEF Idle
    <3>3. QED BY <3>1, <3>2 DEF Op
  <2>7. QED BY <2>1, <2>2, <2>3, <2>4, <2>6
<1>5. ASSUME NEW v \in Slots, v # w
      PROVE  /\ ops'[v] \in Op /\ ops'[v].site = ops[v].site /\ ops'[v].step = ops[v].step
             /\ ops'[v].alone => ops'[v] = ops[v] /\ (ops[v].site = s => s = None)
             /\ ops[v].step = "idle" => ops'[v] = ops[v]
             /\ Shape(ops[v])'
  <2>1. ops[v] \in Op /\ (ops[v].step = "idle" => ops[v] = Idle) /\ Shape(ops[v])
    BY OpFacts
  <2>2. CASE v \in met
    <3>1. PICK a, b : a = ops[v] /\ b = [a EXCEPT !.alone = FALSE]
      OBVIOUS
    <3>2. ops'[v] = b
      BY <1>1, <1>5, <2>2, <3>1
    <3>3. /\ b \in Op /\ b.alone = FALSE /\ b.site = a.site /\ b.step = a.step /\ b.command = a.command
          /\ b.new = a.new /\ b.undo = a.undo /\ b.result = a.result
      BY <2>1, <3>1 DEF Op
    <3>4. a.site # None /\ a.step # "idle"
      BY <1>1, <2>1, <2>2, <3>1, IdleIsOp
    <3>5. Shape(b)'
      BY <2>1, <3>1, <3>3, <1>2 DEF Shape, PlansOf
    <3>6. Shape(ops[v])'
      BY <3>2, <3>5 DEF Shape, PlansOf
    <3>7. QED BY <3>1, <3>2, <3>3, <3>4, <3>6
  <2>3. CASE v \notin met
    <3>1. ops'[v] = ops[v] /\ (ops[v].site = s => s = None)
      BY <1>1, <1>5, <2>3
    <3>2. Shape(ops[v])'
      BY <2>1, <3>1, <1>2 DEF Shape, PlansOf
    <3>3. QED BY <2>1, <3>1, <3>2
  <2>4. QED BY <2>2, <2>3
<1>6. ops'[w] = op
  BY <1>1
<1>7. Shape(ops[w])' /\ (ops'[w].step = "idle" => ops'[w] = Idle)
  <2>1. c \in {"create", "update", "enable", "disable", "delete", "reload", "restart"}
    BY DEF Commands, SiteCommands
  <2>2. op.step \in StepsOf[op.command]
    BY <2>1, <1>4 DEF StepsOf, SiteCommands
  <2>3. c \in {"enable", "disable"} => op.step = "start"
    BY <1>4 DEF SiteCommands
  <2>a. (c \in SiteCommands) = (s # None) /\ (c \in {"create", "update"}) = (n # None)
    BY <1>1
  <2>b. op.step \in {"start", "test"} /\ op.command = c /\ op.site = s /\ op.new = n
    BY <1>4
  <2>4. Shape(op)'
    BY <2>2, <2>3, <2>a, <2>b DEF Shape, UndoSteps
  <2>5. QED BY <2>4, <1>4, <1>6 DEF Shape, PlansOf
<1>8. ops' \in [Slots -> Op] /\ answer' \in Op
  <2>1. \A v \in Slots : ops'[v] \in Op
    BY <1>4, <1>5, <1>6
  <2>2. ops' = [v \in Slots |-> ops'[v]]
    BY <1>1
  <2>3. QED BY <2>1, <2>2, <1>1, IdleIsOp
<1>9. \A v \in Slots : (ops'[v].step = "idle" => ops'[v] = Idle) /\ Shape(ops[v])'
  <2>1. ASSUME NEW v \in Slots, v # w PROVE (ops'[v].step = "idle" => ops'[v] = Idle) /\ Shape(ops[v])'
    BY <2>1, <1>5, OpFacts
  <2>2. QED BY <2>1, <1>7
<1>10. TypeOK'
  <2>1. \A v \in Slots : /\ ops'[v].command \in Commands /\ ops'[v].site \in Sites \cup {None}
                         /\ ops'[v].step \in Steps
                         /\ ops'[v].result \in Outcomes /\ ops'[v].ran \in Outcomes
                         /\ ops'[v].backup \in Contents \cup {None}
                         /\ ops'[v].undo \in Seq(UndoSteps)
                         /\ ops'[v].lost \subseteq {"file", "link"}
    BY <1>8 DEF Op
  <2>2. \A v \in Slots : direct => ops'[v].step \notin {"probe", "unswitch"}
    BY <1>2, <1>9 DEF Shape
  <2>3. \A v \in Slots : probes[v] # None => ops'[v].step \in {"test", "judge"} /\ probes[v] = ops'[v].site
    BY <1>3, <1>5, OpFacts
  <2>4. shaken' \subseteq Sites
    <3>1. met # {} => s \in Sites
      BY <1>1
    <3>2. QED BY <3>1, <1>1 DEF SitesInv, TypeOK
  <2>5. \A v \in Slots : direct => links = {} /\ stale = {} /\ probes[v] = None
    BY OpFacts
  <2>6. QED BY <2>1, <2>2, <2>3, <2>4, <2>5, <1>2 DEF SitesInv, TypeOK
<1>11. \A u, v \in Slots : u # v /\ ops'[u].site = ops'[v].site /\ ops'[v].site # None => ~ops'[v].alone
  <2> SUFFICES ASSUME NEW u \in Slots, NEW v \in Slots, u # v, ops'[u].site = ops'[v].site, ops'[v].site # None,
                      ops'[v].alone
               PROVE  FALSE
    OBVIOUS
  <2>1. CASE v = w
    <3>1. u \in met
      BY <2>1, <1>1, <1>4, <1>5, <1>6
    <3>2. QED BY <3>1, <2>1, <1>4, <1>6
  <2>2. CASE v # w /\ u = w
    BY <2>2, <1>4, <1>5, <1>6
  <2>3. CASE v # w /\ u # w
    <3>1. ops[u].site = ops[v].site /\ ops[v].site # None /\ ops[v].alone
      BY <2>3, <1>5
    <3>2. QED BY <3>1 DEF SitesInv
  <2>4. QED BY <2>1, <2>2, <2>3
<1>12. \A t \in Sites : t # s => (t \in shaken' <=> t \in shaken)
  BY <1>1
<1>13. ASSUME NEW v \in Slots, ops'[v].site # None, ops'[v].alone PROVE Known(ops[v], probes[v])'
  <2>1. CASE v # w
    <3>1. PICK b : b = ops[v] /\ ops'[v] = b /\ b.site # s /\ b.site \in Sites
      BY <2>1, <1>5, <1>13 DEF Op
    <3>2. Known(b, probes[v])
      BY <3>1, <1>13, OpFacts
    <3>3. b.site \in shaken' <=> b.site \in shaken
      BY <3>1, <1>12
    <3>4. QED BY <3>1, <3>2, <3>3, <1>2 DEF Known, FileKnown, LinkKnown, TestKnown, WasRead
  <2>2. CASE v = w
    <3>1. s \in Sites /\ s # None /\ met = {} /\ op.step = "start" /\ shaken' = shaken
      BY <2>2, <1>1, <1>4, <1>6, <1>13
    <3>2. op.foundFile = content[s] /\ op.foundLink = (s \in links) /\ op.site = s
      BY <3>1, <1>4
    <3>3. \A u \in Slots : ops[u].site # s
      BY <3>1, <1>1, <1>3, IdleIsOp
    <3>4. s \notin shaken /\ s \in Included => content[s] \in Good \cup {Empty}
      BY <3>3 DEF SitesInv, SettledSitesAccepted
    <3>5. (IF direct THEN content[s] # None ELSE s \in links \/ s \in stale) => s \in Included
      BY <3>1 DEF Included
    <3>6. FileKnown(op)'
      BY <3>1, <3>2, <1>2 DEF FileKnown
    <3>7. LinkKnown(op)'
      BY <3>1, <3>2, <1>2, OpFacts DEF LinkKnown
    <3>8. TestKnown(op, None)'
      BY <3>1, <3>2, <3>4, <3>5, <1>2 DEF TestKnown, WasRead
    <3>9. QED BY <3>6, <3>7, <3>8, <2>2, <1>2, <1>3, <1>6 DEF Known, FileKnown, LinkKnown, TestKnown, WasRead
  <2>3. QED BY <2>1, <2>2
<1>14. SettledSitesAccepted'
  <2> SUFFICES ASSUME NEW t \in Included' \ shaken', \A v \in Slots : ops'[v].site # t
               PROVE  content'[t] \in Good \cup {Empty}
    BY DEF SettledSitesAccepted
  <2>1. t \in Included /\ t \notin shaken
    BY <1>1, <1>2 DEF Included, Probed
  <2>2. t \in Sites
    BY <2>1 DEF Included, Probed, SitesInv, TypeOK
  <2>3. \A v \in Slots : ops[v].site # t
    BY <2>2, <1>3, <1>5, IdleIsOp, ContentAssumption
  <2>4. QED BY <2>1, <2>3, <1>2 DEF SitesInv, SettledSitesAccepted
<1>15. RefusedKeepsSite' /\ SuccessServed'
  BY <1>1, IdleIsOp DEF RefusedKeepsSite, SuccessServed, Answered
<1>16. QED BY <1>8, <1>9, <1>10, <1>11, <1>13, <1>14, <1>15 DEF SitesInv

\* The daemon is stopped: every site that a command was at work on is shaken.
LEMMA StopStep ==
    ASSUME SitesInv, DaemonStop
    PROVE  SitesInv'
<1>1. PICK emptied \in SUBSET {ops[w].site : w \in {v \in Slots : At(v, "restore")}} :
         content' = [s \in Sites |-> IF s \in emptied THEN Empty ELSE content[s]]
  BY DEF DaemonStop
<1>2. /\ stale' = stale \cup Probed /\ probes' = [w \in Slots |-> None]
      /\ shaken' = shaken \cup ({ops[w].site : w \in {v \in Slots : Busy(v)}} \ {None})
      /\ ops' = [w \in Slots |-> Idle] /\ answer' = Idle
      /\ UNCHANGED <<direct, links, served, up, scheduled>>
  BY DEF DaemonStop
<1>3. \A w \in Slots : ops[w].site \in Sites \cup {None} /\ (ops[w].step = "idle" => ops[w].site = None)
  BY OpFacts, IdleIsOp DEF Op
<1>4. Probed \subseteq Sites /\ (\A w \in Slots : direct => Probed = {} /\ links = {} /\ stale = {})
  BY DEF Probed, SitesInv, TypeOK
<1>5. TypeOK'
  <2>1. content' \in [Sites -> Contents \cup {None}]
    BY <1>1 DEF SitesInv, TypeOK, Contents
  <2>2. shaken' \subseteq Sites
    BY <1>2, <1>3 DEF SitesInv, TypeOK
  <2>3. \A w \in Slots : ops'[w] = Idle /\ probes'[w] = None
    BY <1>2
  <2>4. Idle \in Op /\ Idle.step = "idle"
    BY IdleIsOp
  <2>5. \A w \in Slots : /\ ops'[w].command \in Commands /\ ops'[w].site \in Sites \cup {None}
                         /\ ops'[w].step \in Steps /\ ops'[w].step \notin {"probe", "unswitch"}
                         /\ ops'[w].result \in Outcomes /\ ops'[w].ran \in Outcomes
                         /\ ops'[w].backup \in Contents \cup {None}
                         /\ ops'[w].undo \in Seq(UndoSteps)
                         /\ ops'[w].lost \subseteq {"file", "link"}
    BY <2>3, <2>4 DEF Op
  <2>6. QED BY <2>1, <2>2, <2>3, <2>5, <1>2, <1>4 DEF SitesInv, TypeOK
<1>6. ops' \in [Slots -> Op] /\ answer' \in Op /\ \A w \in Slots : ops'[w] = Idle
  BY <1>2, IdleIsOp
<1>7. \A w \in Slots : Shape(ops[w])'
  <2>1. Shape(Idle)'
    BY IdleIsOp, EndShape
  <2>2. QED BY <2>1, <1>6 DEF Shape, PlansOf
<1>8. SettledSitesAccepted'
  <2> SUFFICES ASSUME NEW t \in Included' \ shaken' PROVE content'[t] \in Good \cup {Empty}
    BY DEF SettledSitesAccepted
  <2>1. t \in Sites
    <3>1. Probed' \subseteq Sites /\ links' \subseteq Sites /\ stale' \subseteq Sites
      BY <1>5 DEF Probed, TypeOK
    <3>2. QED BY <3>1 DEF Included
  <2>2. \A w \in Slots : ops[w].site # t
    BY <2>1, <1>2, <1>3, ContentAssumption DEF Busy
  <2>3. t \notin emptied
    BY <2>2, <1>1
  <2>4. content'[t] = content[t] /\ t \notin shaken
    BY <2>1, <2>3, <1>1, <1>2
  <2>5. t \in Included
    <3>1. Probed' = {}
      BY <1>2 DEF Probed
    <3>2. QED BY <3>1, <2>1, <2>4, <1>2 DEF Included
  <2>6. QED BY <2>2, <2>4, <2>5 DEF SitesInv, SettledSitesAccepted
<1>9. RefusedKeepsSite' /\ SuccessServed'
  BY <1>2, IdleIsOp DEF RefusedKeepsSite, SuccessServed, Answered
<1>10. QED BY <1>5, <1>6, <1>7, <1>8, <1>9, IdleIsOp DEF SitesInv

\* The first state.
LEMMA SitesStart == Init => SitesInv
<1> SUFFICES ASSUME Init PROVE SitesInv
  OBVIOUS
<1>1. \A w \in Slots : ops[w] = Idle /\ probes[w] = None
  BY DEF Init
<1>2. Idle \in Op /\ Idle.step = "idle" /\ Idle.site = None
  BY IdleIsOp
<1>3. Probed = {}
  BY <1>1 DEF Probed
<1>4. content \in [Sites -> Contents \cup {None}] /\ served \in [Sites -> Contents \cup {None}]
  BY DEF Init, Contents, Loaded
<1>5. \A w \in Slots : /\ ops[w].command \in Commands /\ ops[w].site \in Sites \cup {None}
                       /\ ops[w].step \in Steps /\ ops[w].step \notin {"probe", "unswitch"}
                       /\ ops[w].result \in Outcomes /\ ops[w].ran \in Outcomes
                       /\ ops[w].backup \in Contents \cup {None}
                       /\ ops[w].undo \in Seq(UndoSteps)
                       /\ ops[w].lost \subseteq {"file", "link"}
  BY <1>1, <1>2 DEF Op
<1>6. TypeOK
  BY <1>1, <1>4, <1>5 DEF Init, TypeOK
<1>7. \A w \in Slots : Shape(ops[w])
  BY <1>1, <1>2, EndShape
<1>8. SettledSitesAccepted
  BY DEF Init, SettledSitesAccepted, Accepted
<1>9. RefusedKeepsSite /\ SuccessServed
  BY <1>2 DEF Init, RefusedKeepsSite, SuccessServed, Answered
<1>10. ops \in [Slots -> Op] /\ answer \in Op
  BY <1>2 DEF Init
<1>11. QED BY <1>1, <1>2, <1>6, <1>7, <1>8, <1>9, <1>10 DEF SitesInv

\* No step leaves the invariant.
LEMMA SitesKept == SitesInv /\ [Next]_vars => SitesInv'
<1> SUFFICES ASSUME SitesInv, [Next]_vars PROVE SitesInv'
  OBVIOUS
<1>1. CASE UNCHANGED vars
  BY <1>1 DEF vars, SitesInv, TypeOK, Shape, PlansOf, Known, FileKnown, LinkKnown, TestKnown, WasRead,
              SettledSitesAccepted, Included, Probed, RefusedKeepsSite, SuccessServed, Answered
<1>2. CASE RestartFires \/ DaemonStop
  BY <1>2, RestartStep, StopStep
<1>3. ASSUME NEW w \in Slots, Arrive(w) \/ Work(w) PROVE SitesInv'
  BY <1>3, ArriveStep, RefuseStep, StartCreateStep, StartExistingStep, BackupStep, WriteStep, SwitchStep,
     CheckStep, RemoveStep, ProbeStep, TestStep, JudgeStep, ReloadStep, ScheduleStep, UnwriteStep,
     RestoreStep, UnswitchStep, RereloadStep DEF Work
<1>4. QED BY <1>1, <1>2, <1>3 DEF Next

\* The invariant of the site commands (mutations.go) holds however many connections
\* work on however many sites.
THEOREM SitesInvariance == Spec => []SitesInv
BY SitesStart, SitesKept, PTL DEF Spec

\* The site commands keep every variable of its type; a probe lasts from the validation
\* link to the verdict (mutations.go, validateDisabled).
THEOREM SitesTypeCorrect == Spec => []TypeOK
<1>1. SitesInv => TypeOK
  BY DEF SitesInv
<1>2. QED BY <1>1, SitesInvariance, PTL

\* A site at rest that Apache reads is one that Apache accepts: the commands test what
\* they write before they leave it (mutations.go, validateDisabled and configTest).
THEOREM RestingSitesAreAccepted == Spec => []SettledSitesAccepted
<1>1. SitesInv => SettledSitesAccepted
  BY DEF SitesInv
<1>2. QED BY <1>1, SitesInvariance, PTL

\* A refused command leaves its site as it found it (mutations.go, the restorations).
THEOREM RefusalsKeepTheSite == Spec => []RefusedKeepsSite
<1>1. SitesInv => RefusedKeepsSite
  BY DEF SitesInv
<1>2. QED BY <1>1, SitesInvariance, PTL

\* A success on an enabled site is already served (mutations.go, reloadCommand).
THEOREM SuccessesAreServed == Spec => []SuccessServed
<1>1. SitesInv => SuccessServed
  BY DEF SitesInv
<1>2. QED BY <1>1, SitesInvariance, PTL

-----------------------------------------------------------------------------
(* Both domains. *)

\* A behaviour in which one of the two domains moves is one of each: what is proved of a domain
\* holds where they are checked together.
THEOREM ConfigurationRefines == MCSpec => Spec /\ AdminSpec
<1>1. MCInit => Init /\ AdminInit
  BY DEF MCInit
<1>2. [MCNext]_<<vars, accessVars, focus, left>> => [Next]_vars /\ [AdminNext]_accessVars
  <2>1. ASSUME UNCHANGED <<vars, accessVars, focus, left>> PROVE UNCHANGED vars /\ UNCHANGED accessVars
    BY <2>1
  <2>2. ASSUME MCNext PROVE [Next]_vars /\ [AdminNext]_accessVars
    BY <2>2 DEF MCNext, Next
  <2>3. QED BY <2>1, <2>2
<1>3. QED BY <1>1, <1>2, PTL DEF MCSpec, Spec, AdminSpec

\* The state of both domains is well formed, and a connection that rests holds nothing.
THEOREM ConfigurationTypeCorrect == MCSpec => []ConfigurationTypeOK
<1>1. TypeOK /\ AdminTypeOK => ConfigurationTypeOK
  BY DEF ConfigurationTypeOK
<1>2. QED BY <1>1, ConfigurationRefines, SitesTypeCorrect, AdminTypeCorrect, PTL
=============================================================================
