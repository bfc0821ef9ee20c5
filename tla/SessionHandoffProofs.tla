------------------------ MODULE SessionHandoffProofs ------------------------
(***************************************************************************)
(* The session's index, for any faults and with or without a viewer: it    *)
(* never claims more than the runner has made durable, never goes back,    *)
(* and the last word of the main thread stays.                             *)
(***************************************************************************)
EXTENDS SessionHandoff, TLAPS

Partials == {"workflow_running", "workflow_finished", "verifying", "verified", "finalizing"}
Finals == {"finalizing", "finalized", "diagnosing", "diagnosed", "checksumming", "complete"}
Mirrored == (Partials \cup Finals) \ {"complete"}

(* The manifest is in one place, and a successful runner has sealed it.    *)
StageInv ==
  /\ stage["partial"] \in {"none"} \cup Partials
  /\ stage["final"] \in {"none"} \cup Finals
  /\ stage["partial"] = "none" \/ stage["final"] = "none"
  /\ runner = "off" => stage["partial"] = "none" /\ stage["final"] = "none"
  /\ runner = "ok" => stage["final"] = "complete"

(* The two threads take turns: the monitor writes only while the main      *)
(* thread waits or joins, and the last word comes after it.                *)
MainInv ==
  /\ main \in {"opening", "presenting", "delegating"} => runner = "off" /\ mon = "off"
  /\ main = "opening" => json = NoIndex
  /\ main \notin {"opening", "presenting", "delegating", "waiting", "gone"} =>
       runner \in {"ok", "failed"}
  /\ main \in {"previewing", "showing", "viewing"} => runner = "ok"
  /\ main \notin {"opening", "presenting", "delegating", "waiting", "joining"} => mon = "ended"
  /\ json.status \in Closed => main \in {"signing", "done", "gone"}

(* Before the first manifest the monitor's last stage is "preparing", and  *)
(* a monitor that found no working directory finds the published one then. *)
MonitorInv ==
  /\ last = "preparing" \/ stage["partial"] # "none" \/ stage["final"] # "none"
  /\ mon = "reading" => last = "preparing" \/ stage["final"] # "none"
  /\ mon \in {"writing", "paging"} =>
       /\ seen \in Mirrored
       /\ Rank[json.stage] <= Rank[seen] /\ Rank[seen] <= Rank[Retained]

IndexInv ==
  /\ json.status \notin Closed =>
       json.stage # "complete" /\ Rank[json.stage] <= Rank[Retained]
  /\ json.status = "finished" => runner = "ok" /\ stage["final"] = "complete"
  /\ json.receipt => recovery

IInv == TypeOK /\ StageInv /\ MainInv /\ MonitorInv /\ IndexInv

Told ==
  /\ Rank[json'.stage] >= Rank[json.stage]
  /\ json.status \in Closed => json' = json

-----------------------------------------------------------------------------
LEMMA StageList ==
  /\ Stages = {"none", "preparing", "preparing_preview"} \cup Partials \cup Finals
  /\ \A s \in Stages : Rank[s] \in 0..12
  /\ \A s \in Stages \ {"complete"} : Rank[s] <= Rank["preparing_preview"]
  /\ \A s \in Stages : Rank[s] <= Rank["complete"]
  /\ \A s \in Partials \cup Finals : Rank["preparing"] < Rank[s]
  /\ Rank["none"] < Rank["preparing"]
  BY DEF Stages, Rank, Partials, Finals

(* The manifest the session would find never falls behind.                 *)
LEMMA RetainedGrows ==
  ASSUME TypeOK, StageInv, runner = "running", Begin \/ Advance \/ Rename,
         UNCHANGED runner
  PROVE  /\ StageInv' /\ stage' \in [{"partial", "final"} -> Stages]
         /\ Rank[Retained'] >= Rank[Retained]
         /\ stage["final"] # "none" => stage'["final"] # "none"
         /\ stage["partial"] # "none" => stage'["partial"] # "none" \/ stage'["final"] # "none"
<1> USE DEF StageInv, TypeOK, Partials, Finals
<1>1. CASE Begin
  BY <1>1, StageList DEF Begin, Retained
<1>2. CASE Rename
  BY <1>2, StageList DEF Rename, Retained
<1>3. CASE Advance
  <2>1. PICK place \in {"partial", "final"}, k \in 1..9 :
          /\ stage[place] = Lifecycle[k]
          /\ place = "partial" <=> k < 5
          /\ stage' = [stage EXCEPT ![place] = Lifecycle[k + 1]]
    <3>1. 1..Len(Lifecycle) - 1 = 1..9
      BY DEF Lifecycle
    <3>2. QED BY <1>3, <3>1 DEF Advance
  <2>2. CASE place = "partial"
    <3>1. k \in {1, 2, 3, 4}
      BY <2>1, <2>2
    <3>2. /\ stage["partial"] \in Partials /\ Lifecycle[k + 1] \in Partials
          /\ Rank[Lifecycle[k + 1]] >= Rank[stage["partial"]]
      BY <2>1, <2>2, <3>1 DEF Lifecycle, Rank
    <3>3. /\ stage'["partial"] = Lifecycle[k + 1] /\ stage'["final"] = "none"
          /\ stage["final"] = "none"
      BY <2>1, <2>2, <3>2
    <3>4. Retained = stage["partial"] /\ Retained' = Lifecycle[k + 1]
      BY <3>2, <3>3 DEF Retained
    <3>5. stage' \in [{"partial", "final"} -> Stages]
      BY <2>1, <3>2, StageList
    <3>6. QED BY <3>2, <3>3, <3>4, <3>5
  <2>3. CASE place = "final"
    <3>1. k \in {5, 6, 7, 8, 9}
      BY <2>1, <2>3
    <3>2. /\ stage["final"] \in Finals \ {"complete"} /\ Lifecycle[k + 1] \in Finals
          /\ Rank[Lifecycle[k + 1]] >= Rank[stage["final"]]
      BY <2>1, <2>3, <3>1 DEF Lifecycle, Rank
    <3>3. /\ stage'["final"] = Lifecycle[k + 1] /\ stage'["partial"] = "none"
          /\ stage["partial"] = "none"
      BY <2>1, <2>3, <3>2
    <3>4. Retained = stage["final"] /\ Retained' = Lifecycle[k + 1]
      BY <3>2, <3>3 DEF Retained
    <3>5. stage' \in [{"partial", "final"} -> Stages]
      BY <2>1, <3>2, StageList
    <3>6. QED BY <3>2, <3>3, <3>4, <3>5
  <2>4. QED BY <2>1, <2>2, <2>3
<1>4. QED BY <1>1, <1>2, <1>3

LEMMA RetainedIsStage ==
  ASSUME IInv
  PROVE  /\ Retained \in {"preparing"} \cup Partials \cup Finals
         /\ stage["partial"] # "none" => Retained = stage["partial"]
         /\ stage["final"] # "none" => Retained = stage["final"]
         /\ Rank[Retained] \in 0..12 /\ Rank[json.stage] \in 0..12
  BY StageList DEF IInv, TypeOK, StageInv, Retained, Indexes

-----------------------------------------------------------------------------
LEMMA InvariantInit == Init => IInv
<1> SUFFICES ASSUME Init PROVE IInv
  OBVIOUS
<1>1. TypeOK
  BY StageList DEF Init, TypeOK, Indexes, NoIndex, MainLabels, Closed
<1>2. StageInv /\ MainInv /\ MonitorInv
  BY DEF Init, StageInv, MainInv, MonitorInv, NoIndex, Closed
<1>3. IndexInv
  BY StageList DEF Init, IndexInv, NoIndex, Closed, Retained
<1>4. QED BY <1>1, <1>2, <1>3 DEF IInv

LEMMA RunnerSteps ==
  ASSUME IInv, RunnerWorks \/ RunnerEnds
  PROVE  IInv' /\ Told
<1>1. UNCHANGED <<main, mon, seen, last, stop, json, html, recovery, missed>>
  BY DEF RunnerWorks, RunnerEnds, monitor, writer
<1>2. /\ StageInv' /\ stage' \in [{"partial", "final"} -> Stages]
      /\ Rank[Retained'] >= Rank[Retained]
      /\ stage["final"] # "none" => stage'["final"] # "none"
      /\ stage["partial"] # "none" => stage'["partial"] # "none" \/ stage'["final"] # "none"
  <2>1. CASE RunnerWorks
    BY <2>1, RetainedGrows DEF RunnerWorks, IInv
  <2>2. CASE RunnerEnds
    BY <2>2, RetainedIsStage DEF RunnerEnds, IInv, TypeOK, StageInv, Retained
  <2>3. QED BY <2>1, <2>2
<1>3. /\ runner = "running" /\ runner' \in {"running", "ok", "failed"}
      /\ runner' # "running" => stage' = stage
  BY DEF RunnerWorks, RunnerEnds
<1>4. TypeOK'
  BY <1>1, <1>2, <1>3 DEF IInv, TypeOK
<1>5. MainInv'
  BY <1>1, <1>3 DEF IInv, MainInv
<1>6. Rank[Retained'] \in 0..12
  <2>1. Retained' \in Stages
    BY <1>2, StageList DEF StageInv, Retained
  <2>2. QED BY <2>1, StageList
<1>7. MonitorInv'
  BY <1>1, <1>2, <1>6, RetainedIsStage, StageList DEF IInv, TypeOK, MonitorInv, Mirrored
<1>8. IndexInv'
  BY <1>1, <1>2, <1>3, <1>6, RetainedIsStage DEF IInv, IndexInv
<1>9. Told
  BY <1>1, RetainedIsStage DEF Told
<1>10. QED BY <1>2, <1>4, <1>5, <1>7, <1>8, <1>9 DEF IInv

(* While the monitor is at work the main thread leaves the index alone.    *)
LEMMA MonitorSteps ==
  ASSUME IInv, Monitor
  PROVE  IInv' /\ Told
<1>1. /\ mon \notin {"off", "ended"} /\ main \in {"waiting", "joining"}
      /\ json.status \notin Closed
      /\ UNCHANGED <<stage, runner, main, stop, recovery>>
      /\ UNCHANGED Retained
  BY DEF Monitor, ReadPartial, ReadFinal, MirrorIndex, MirrorPage, MonitorEnds, writer,
         IInv, TypeOK, MainInv, MainLabels, Retained
<1>2. mon' # "off"
  BY <1>1 DEF Monitor, ReadPartial, ReadFinal, MirrorIndex, MirrorPage, MonitorEnds, Reports,
         WriteIndex
<1>3. StageInv'
  BY <1>1 DEF IInv, StageInv
<1>4. json.stage # "complete" /\ Rank[json.stage] <= Rank[Retained]
  BY <1>1 DEF IInv, IndexInv
<1>5. ASSUME NEW s \in Stages, Reports(s), s = Retained \/ s = last,
             s = Retained => s # "preparing" \/ s = last,
             UNCHANGED <<json, html, missed>>
      PROVE  IInv' /\ Told
  <2>1. /\ mon' \in {"waiting", "writing"} /\ seen' \in Stages /\ last' \in {last, s}
        /\ mon' = "writing" => seen' = s /\ s # last /\ s # "complete"
        /\ last' # last => s = "complete" /\ s # last
    BY <1>5 DEF Reports, IInv, TypeOK
  <2>2. TypeOK' /\ MainInv'
    BY <1>1, <1>5, <2>1 DEF IInv, TypeOK, MainInv
  <2>3. mon' = "writing" => seen' = Retained /\ seen' \in Mirrored
    BY <1>5, <2>1, RetainedIsStage DEF Mirrored
  <2>4. last' # "preparing" => stage["partial"] # "none" \/ stage["final"] # "none"
    BY <1>5, <2>1 DEF IInv, MonitorInv, Retained
  <2>5. MonitorInv'
    BY <1>1, <1>4, <1>5, <2>1, <2>3, <2>4, RetainedIsStage DEF MonitorInv
  <2>6. IndexInv'
    BY <1>1, <1>4, <1>5 DEF IInv, IndexInv
  <2>7. Told
    BY <1>5, RetainedIsStage DEF Told
  <2>8. QED BY <1>3, <2>2, <2>5, <2>6, <2>7 DEF IInv
<1>6. CASE ReadPartial
  <2>1. CASE stage["partial"] # "none"
    <3>1. /\ stage["partial"] \in Stages /\ stage["partial"] = Retained
          /\ stage["partial"] # "preparing"
      BY <2>1, RetainedIsStage, StageList DEF IInv, StageInv, Partials
    <3>2. Reports(stage["partial"]) /\ UNCHANGED <<json, html, missed>>
      BY <1>6, <2>1 DEF ReadPartial, writer
    <3>3. QED BY <1>5, <3>1, <3>2
  <2>2. CASE stage["partial"] = "none"
    <3>1. mon' = "reading" /\ UNCHANGED <<seen, last, json, html, missed>>
      BY <1>6, <2>2 DEF ReadPartial, writer
    <3>2. TypeOK' /\ MainInv'
      BY <1>1, <3>1 DEF IInv, TypeOK, MainInv
    <3>3. MonitorInv' /\ IndexInv'
      BY <1>1, <2>2, <3>1 DEF IInv, MonitorInv, IndexInv
    <3>4. Told
      BY <3>1, RetainedIsStage DEF Told
    <3>5. QED BY <1>3, <3>2, <3>3, <3>4 DEF IInv
  <2>3. QED BY <2>1, <2>2
<1>7. CASE ReadFinal
  <2> DEFINE s == IF stage["final"] # "none" THEN stage["final"] ELSE "preparing"
  <2>1. Reports(s) /\ mon = "reading" /\ UNCHANGED <<json, html, missed>>
    BY <1>7 DEF ReadFinal, writer
  <2>2. s \in Stages /\ (s = Retained \/ s = last)
        /\ (s = Retained => s # "preparing" \/ s = last)
    BY <2>1, RetainedIsStage, StageList DEF IInv, StageInv, MonitorInv, Finals
  <2> HIDE DEF s
  <2>3. QED BY <1>5, <2>1, <2>2
<1>8. CASE MirrorIndex
  <2>1. /\ mon = "writing" /\ seen \in Mirrored /\ seen \in Stages
        /\ Rank[json.stage] <= Rank[seen] /\ Rank[seen] <= Rank[Retained]
        /\ UNCHANGED <<seen, html>>
    BY <1>8 DEF MirrorIndex, IInv, TypeOK, MonitorInv
  <2>2. \/ json' = Running(seen) /\ mon' = "paging" /\ missed' = FALSE /\ last' = last
        \/ json' = json /\ mon' = "waiting" /\ missed' = TRUE /\ last' = seen
    BY <1>8 DEF MirrorIndex, WriteIndex
  <2>3. Running(seen) \in Indexes /\ Running(seen).stage = seen
        /\ Running(seen).status = "running" /\ Running(seen).receipt = FALSE
    BY <2>1 DEF Running, Indexes
  <2>4. TypeOK'
    BY <1>1, <2>1, <2>2, <2>3 DEF IInv, TypeOK
  <2>5. MainInv'
    BY <1>1, <2>2, <2>3 DEF IInv, MainInv, Closed
  <2>6. Rank[seen] \in 0..12 /\ seen # "complete"
    BY <2>1, StageList DEF Mirrored
  <2>7. stage["partial"] # "none" \/ stage["final"] # "none"
    <3>1. Rank["preparing"] < Rank[seen]
      BY <2>1, StageList DEF Mirrored
    <3>2. Retained # "preparing"
      BY <2>1, <2>6, <3>1, StageList
    <3>3. QED BY <3>2 DEF Retained
  <2>8. MonitorInv'
    BY <1>1, <2>1, <2>2, <2>3, <2>6, <2>7, RetainedIsStage DEF IInv, MonitorInv
  <2>9. IndexInv'
    BY <1>1, <2>1, <2>2, <2>3, <2>6, RetainedIsStage DEF IInv, IndexInv, Closed
  <2>10. Told
    BY <1>1, <2>1, <2>2, <2>3, RetainedIsStage DEF Told
  <2>11. QED BY <1>3, <2>4, <2>5, <2>8, <2>9, <2>10 DEF IInv
<1>9. CASE MirrorPage
  <2>1. /\ mon = "paging" /\ mon' = "waiting" /\ last' = seen /\ html' \in {json, html}
        /\ UNCHANGED <<seen, json, missed>>
    BY <1>9 DEF MirrorPage, WritePage
  <2>2. TypeOK' /\ MainInv'
    BY <1>1, <2>1 DEF IInv, TypeOK, MainInv
  <2>3. stage["partial"] # "none" \/ stage["final"] # "none"
    <3>1. seen \in Mirrored /\ Rank[seen] <= Rank[Retained]
      BY <2>1 DEF IInv, MonitorInv
    <3>2. Rank["preparing"] < Rank[seen] /\ Rank[seen] \in 0..12 /\ Rank["preparing"] \in 0..12
      BY <3>1, StageList DEF Mirrored
    <3>3. Retained # "preparing"
      BY <3>1, <3>2
    <3>4. QED BY <3>3 DEF Retained
  <2>4. MonitorInv' /\ IndexInv'
    BY <1>1, <2>1, <2>3 DEF IInv, MonitorInv, IndexInv
  <2>5. Told
    BY <2>1, RetainedIsStage DEF Told
  <2>6. QED BY <1>3, <2>2, <2>4, <2>5 DEF IInv
<1>10. CASE MonitorEnds
  <2>1. mon' = "ended" /\ UNCHANGED <<seen, last, json, html, missed>>
    BY <1>10 DEF MonitorEnds, writer
  <2>2. TypeOK' /\ MainInv'
    BY <1>1, <2>1 DEF IInv, TypeOK, MainInv
  <2>3. MonitorInv' /\ IndexInv'
    BY <1>1, <2>1 DEF IInv, MonitorInv, IndexInv
  <2>4. Told
    BY <2>1, RetainedIsStage DEF Told
  <2>5. QED BY <1>3, <2>2, <2>3, <2>4 DEF IInv
<1>11. QED BY <1>6, <1>7, <1>8, <1>9, <1>10 DEF Monitor

(* Steps of the main thread that leave the index alone.                    *)
LEMMA MainSteps ==
  ASSUME IInv,
         \/ Present \/ Delegate \/ StopMonitor \/ JoinMonitor \/ WriteRecovery
         \/ ShowPreview \/ View \/ Sign \/ Interrupt
  PROVE  IInv' /\ Told
<1> USE DEF At, monitor, writer
<1>1. /\ UNCHANGED <<stage, seen, last, json, missed>> /\ UNCHANGED Retained
      /\ html' \in {html, json} /\ (recovery => recovery') /\ recovery' \in BOOLEAN
      /\ stop' \in BOOLEAN
  BY DEF Present, Delegate, StopMonitor, JoinMonitor, WriteRecovery, ShowPreview, View, Sign,
         Interrupt, WritePage, IInv, TypeOK, Retained
<1>2. /\ mon' \in {mon, "waiting", "ended"} /\ main' \in MainLabels
      /\ runner' = runner \/ (runner = "off" /\ runner' = "running")
  BY DEF Present, Delegate, StopMonitor, JoinMonitor, WriteRecovery, ShowPreview, View, Sign,
         Interrupt, Outcome, MainLabels, IInv, MainInv
<1>3. TypeOK'
  BY <1>1, <1>2 DEF IInv, TypeOK
<1>4. StageInv' /\ MonitorInv' /\ IndexInv'
  BY <1>1, <1>2 DEF IInv, StageInv, MonitorInv, IndexInv
<1>5. MainInv'
  BY <1>1 DEF Present, Delegate, StopMonitor, JoinMonitor, WriteRecovery, ShowPreview, View, Sign,
         Interrupt, Outcome, MainLabels, IInv, TypeOK, MainInv
<1>6. Told
  BY <1>1, RetainedIsStage DEF Told
<1>7. QED BY <1>3, <1>4, <1>5, <1>6 DEF IInv

(* The three words of the main thread.                                     *)
LEMMA WordSteps ==
  ASSUME IInv, Open \/ Preview \/ Close
  PROVE  IInv' /\ Told
<1> USE DEF monitor
<1>1. /\ UNCHANGED <<stage, runner, stop, mon, seen, last, html, recovery, missed>>
      /\ UNCHANGED Retained
  BY DEF Open, Preview, Close, Retained
<1>2. json.status \notin Closed
  BY DEF IInv, MainInv, Open, Preview, Close
<1>3. json.stage # "complete" /\ Rank[json.stage] <= Rank[Retained]
  BY <1>2 DEF IInv, IndexInv
<1>4. mon \in {"off", "ended"}
  BY DEF IInv, MainInv, Open, Preview, Close
<1>5. ASSUME NEW word \in Indexes, json' \in {json, word}, main' \in MainLabels, MainInv',
             Rank[word.stage] >= Rank[json.stage],
             word.status \notin Closed =>
               word.stage # "complete" /\ Rank[word.stage] <= Rank[Retained],
             word.status = "finished" => runner = "ok",
             word.receipt => recovery
      PROVE  IInv' /\ Told
  <2>1. TypeOK' /\ StageInv'
    BY <1>1, <1>5 DEF IInv, TypeOK, StageInv
  <2>2. MonitorInv'
    BY <1>1, <1>4 DEF IInv, MonitorInv
  <2>3. IndexInv'
    BY <1>1, <1>5 DEF IInv, StageInv, IndexInv
  <2>4. Told
    BY <1>2, <1>5, RetainedIsStage DEF Told
  <2>5. QED BY <1>5, <2>1, <2>2, <2>3, <2>4 DEF IInv
<1>6. CASE Open
  <2> DEFINE word == Running("preparing")
  <2>1. /\ main = "opening" /\ json = NoIndex /\ json' \in {json, word}
        /\ main' \in {"presenting", "delegating"}
    BY <1>6 DEF Open, WriteIndex, IInv, MainInv
  <2>2. /\ word \in Indexes /\ word.stage = "preparing" /\ word.status = "running"
        /\ word.receipt = FALSE
    BY StageList DEF Running, Indexes
  <2>3. json.stage = "none" /\ json.status = "none"
    BY <2>1 DEF NoIndex
  <2> HIDE DEF word
  <2>4. main' \in MainLabels /\ MainInv'
    BY <1>1, <2>1, <2>2, <2>3 DEF IInv, MainInv, MainLabels, Closed
  <2>5. Rank[word.stage] >= Rank[json.stage] /\ Rank[word.stage] <= Rank[Retained]
    BY <2>2, <2>3, RetainedIsStage, StageList
  <2>6. QED BY <1>5, <2>1, <2>2, <2>4, <2>5 DEF Closed
<1>7. CASE Preview
  <2> DEFINE word == Running("preparing_preview")
  <2>1. /\ main = "previewing" /\ json' \in {json, word} /\ main' \in {"showing", "viewing"}
        /\ runner = "ok" /\ mon = "ended"
    BY <1>7 DEF Preview, WriteIndex, IInv, MainInv
  <2>2. /\ word \in Indexes /\ word.stage = "preparing_preview" /\ word.status = "running"
        /\ word.receipt = FALSE
    BY StageList DEF Running, Indexes
  <2> HIDE DEF word
  <2>3. main' \in MainLabels /\ MainInv'
    BY <1>1, <1>2, <2>1, <2>2 DEF IInv, MainInv, MainLabels, Closed
  <2>4. Retained = "complete"
    BY <2>1 DEF IInv, StageInv, Retained
  <2>5. Rank[word.stage] >= Rank[json.stage] /\ Rank[word.stage] <= Rank[Retained]
    BY <1>3, <2>2, <2>4, StageList DEF IInv, TypeOK, Indexes
  <2>6. QED BY <1>5, <2>1, <2>2, <2>3, <2>5 DEF Closed
<1>8. CASE Close
  <2>1. /\ main = "closing" /\ json' \in {json, LastWord} /\ main' \in {"signing", "done"}
        /\ json' # json => main' = "signing"
        /\ mon = "ended" /\ runner \in {"ok", "failed"}
    BY <1>8 DEF Close, WriteIndex, IInv, MainInv
  <2>2. /\ LastWord \in Indexes
        /\ LastWord.status \in Closed
        /\ LastWord.status = "finished" => runner = "ok"
        /\ LastWord.receipt => recovery
        /\ LastWord.stage \in {"complete", Retained}
    <3>1. Retained \in Stages /\ "complete" \in Stages /\ recovery \in BOOLEAN
      BY RetainedIsStage, StageList DEF IInv, TypeOK, Finals
    <3>2. CASE runner = "ok"
      <4>1. LastWord = [status |-> "finished", stage |-> "complete", receipt |-> FALSE]
        BY <3>2 DEF LastWord
      <4>2. QED BY <3>1, <3>2, <4>1 DEF Indexes, Closed
    <3>3. CASE runner # "ok"
      <4>1. LastWord = [status |-> "action_required", stage |-> Retained, receipt |-> recovery]
        BY <3>3 DEF LastWord
      <4>2. QED BY <3>1, <4>1 DEF Indexes, Closed
    <3>4. QED BY <3>2, <3>3
  <2>3. main' \in MainLabels /\ MainInv'
    BY <1>1, <1>2, <2>1, <2>2 DEF IInv, MainInv, MainLabels, Closed
  <2>4. Rank[LastWord.stage] >= Rank[json.stage]
    BY <1>3, <2>2, RetainedIsStage, StageList DEF IInv, TypeOK, Indexes
  <2>5. QED BY <1>5, <2>1, <2>2, <2>3, <2>4
<1>9. QED BY <1>6, <1>7, <1>8

LEMMA InvariantStep == IInv /\ [Next]_vars => IInv' /\ [Told]_vars
<1> SUFFICES ASSUME IInv, [Next]_vars
             PROVE  IInv' /\ [Told]_vars
  OBVIOUS
<1>1. CASE Next
  BY <1>1, RunnerSteps, MonitorSteps, MainSteps, WordSteps DEF Next, Main
<1>2. CASE UNCHANGED vars
  BY <1>2 DEF vars, monitor, writer, IInv, TypeOK, StageInv, MainInv, MonitorInv, IndexInv,
              Retained
<1>3. QED BY <1>1, <1>2

-----------------------------------------------------------------------------
(* Both threads, the files and the runner keep their types.                *)
THEOREM HandoffTypes == Spec => []TypeOK
<1>1. IInv => TypeOK
  BY DEF IInv
<1>2. QED BY InvariantInit, InvariantStep, <1>1, PTL DEF Spec

(* _session_index_payload and _monitor_session_progress: whatever write    *)
(* fails, session.json claims no stage, success or receipt before it is on *)
(* disk.                                                                   *)
THEOREM NothingClaimedEarly == Spec => []IndexClaimsNothingEarly
<1>1. IInv => IndexClaimsNothingEarly
  BY DEF IInv, IndexInv, IndexClaimsNothingEarly, Closed
<1>2. QED BY InvariantInit, InvariantStep, <1>1, PTL DEF Spec

(* _observed_session_progress reads two places that are renamed into each  *)
(* other, without a lock, and two threads write the index: its stage never *)
(* goes back.                                                              *)
THEOREM ProgressGrows == Spec => ProgressNeverGoesBack
<1>1. [Told]_vars => [Rank[json'.stage] >= Rank[json.stage]]_vars
  BY DEF Told
<1>2. QED BY InvariantInit, InvariantStep, <1>1, PTL DEF Spec, ProgressNeverGoesBack

(* _run_session joins the monitor before it has the last word: nothing     *)
(* replaces a terminal index.                                              *)
THEOREM LastWordIsKept == Spec => LastWordStays
<1>1. [Told]_vars => [json.status \in Closed => json' = json]_vars
  BY DEF Told
<1>2. QED BY InvariantInit, InvariantStep, <1>1, PTL DEF Spec, LastWordStays
=============================================================================
