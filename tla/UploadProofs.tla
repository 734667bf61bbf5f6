----------------------------- MODULE UploadProofs -----------------------------
(* Theorems about Upload, for any texts, demos and number of handlers. *)
EXTENDS Upload, TLAPS

(* Whoever waits was started by the component on the page or one before it,  *)
(* and no component has two uploads out.                                     *)
Started ==
    /\ \A c \in Calls : call[c] # Idle => call[c].mount <= mount
    /\ \A c, d \in Waiting("upload") : call[c].mount = call[d].mount => c = d

(* A handler that is alone: an upload of the draft while nothing is going to *)
(* write it, or the demo that is highlighted.                                *)
AloneFits ==
    \A c \in alone :
        /\ call[c].op = "upload" => call[c].text = draft /\ Writers = {}
        /\ call[c].op = "demo" => call[c].slug = selectedDemoSlug /\ Writers = {c}

(* No summary is relied on while a demo is going to replace the draft. *)
DemoUnfits == Waiting("demo") # {} => summary = None \/ ~fits

IInv == /\ TypeOK
        /\ Started
        /\ AloneFits
        /\ DemoUnfits
        /\ LoadingIffUploading
        /\ UndisturbedSummaryFits
        /\ SettledDemoShown
------------------------------------------------------------------------------
LEMMA InitHolds == ASSUME Init PROVE IInv
  <1> USE UploadAssumption DEF Init
  <1>1. TypeOK
    <2>1. mount \in 1..MaxMounts OBVIOUS
    <2>2. call \in [Calls -> Waits] BY DEF Waits
    <2>3. draft \in Texts /\ selectedDemoSlug \in Demos \cup {None} BY DEF Texts
    <2> QED BY <2>1, <2>2, <2>3 DEF TypeOK
  <1>2. \A c \in Calls : call[c].op = "idle" BY DEF Idle
  <1>3. Waiting("upload") = {} /\ Waiting("demo") = {} BY <1>2 DEF Waiting
  <1>4. Started BY <1>3 DEF Started
  <1>5. AloneFits BY DEF AloneFits
  <1>6. LoadingIffUploading BY <1>3 DEF LoadingIffUploading
  <1> QED
    BY <1>1, <1>3, <1>4, <1>5, <1>6
    DEF IInv, DemoUnfits, UndisturbedSummaryFits, SettledDemoShown

(* What a handler's record says of it. *)
LEMMA WaitKinds ==
  ASSUME NEW w \in Waits
  PROVE  /\ w.op \in {"idle", "demo", "file", "upload"}
         /\ w = Idle <=> w.op = "idle"
         /\ w.op # "idle" => w.mount \in 1..MaxMounts
         /\ w.op = "demo" => w.slug \in Demos
         /\ w.op = "file" => w.text \in Texts
         /\ w.op = "upload" => w.text \in Docs
  BY DEF Waits, Idle

(* Steps that touch neither the handlers nor what the history variables      *)
(* speak of.                                                                 *)
LEMMA QuietSteps ==
  ASSUME IInv, ListDemos \/ DismissError \/ Leave \/ UNCHANGED vars
  PROVE  IInv'
  <1> USE DEF ListDemos, DismissError, Leave, vars, stateVars, pageVars
  <1>1. UNCHANGED <<stateVars, mount, loading, call, alone, fits, settled>> OBVIOUS
  <1>2. onPage' \in BOOLEAN /\ error' \in BOOLEAN /\ demos' \in BOOLEAN
    BY DEF IInv, TypeOK
  <1>3. TypeOK' BY <1>1, <1>2 DEF IInv, TypeOK
  <1>4. onPage' => onPage OBVIOUS
  <1>5. LoadingIffUploading' BY <1>1, <1>4 DEF IInv, LoadingIffUploading, Waiting
  <1> QED
    BY <1>1, <1>3, <1>5
    DEF IInv, Started, AloneFits, DemoUnfits, UndisturbedSummaryFits, SettledDemoShown,
        Waiting, Writers

(* A handler that writes the draft starts. *)
LEMMA WritersStart ==
  ASSUME IInv, NEW c \in Calls, NEW w \in Waits, w.op \in {"demo", "file"},
         w.mount = mount, StartWriter(c, w),
         UNCHANGED <<draft, mount, onPage, loading, demos, fits>>,
         error' \in BOOLEAN,
         \/ /\ w.op = "demo"
            /\ selectedDemoSlug' = w.slug /\ summary' = None /\ settled' = FALSE
         \/ w.op = "file" /\ UNCHANGED <<selectedDemoSlug, summary, settled>>
  PROVE  IInv'
  <1> USE DEF IInv, StartWriter
  <1>1. call \in [Calls -> Waits] /\ call' = [call EXCEPT ![c] = w] BY DEF TypeOK
  <1>2. TypeOK'
    <2>1. call' \in [Calls -> Waits] BY <1>1
    <2>2. alone' \subseteq Calls OBVIOUS
    <2>3. selectedDemoSlug' \in Demos \cup {None} /\ summary' \in Docs \cup {None}
          /\ settled' \in BOOLEAN
      BY WaitKinds DEF TypeOK
    <2> QED BY <2>1, <2>2, <2>3 DEF TypeOK
  <1>3. Waiting("upload")' = Waiting("upload")
    BY <1>1 DEF Waiting, Idle
  <1>4. \A d \in Waiting("upload") : call'[d] = call[d] BY <1>1 DEF Waiting, Idle
  <1>5. Started'
    <2>1. mount \in Nat BY DEF TypeOK
    <2>2. \A d \in Calls : call'[d] # Idle => call'[d].mount <= mount'
      BY <1>1, <2>1 DEF Started
    <2> QED BY <1>3, <1>4, <2>2 DEF Started
  <1>6. AloneFits'
    <2> SUFFICES ASSUME NEW d \in alone'
                 PROVE  /\ call'[d].op = "upload" => call'[d].text = draft' /\ Writers' = {}
                        /\ call'[d].op = "demo" => call'[d].slug = selectedDemoSlug'
                                                   /\ Writers' = {d}
      BY DEF AloneFits
    <2>1. d = c /\ Writers = {} OBVIOUS
    <2>2. call'[d] = w BY <1>1, <2>1
    <2>3. Writers' = {c} BY <1>1, <2>1 DEF Writers, Waiting
    <2> QED BY <2>1, <2>2, <2>3
  <1>7. DemoUnfits'
    <2>1. CASE w.op = "demo" BY <2>1 DEF DemoUnfits
    <2>2. CASE w.op = "file"
      <3>1. Waiting("demo")' = Waiting("demo") BY <1>1, <2>2 DEF Waiting, Idle
      <3> QED BY <2>2, <3>1 DEF DemoUnfits
    <2> QED BY <2>1, <2>2
  <1>8. LoadingIffUploading' BY <1>3, <1>4 DEF LoadingIffUploading
  <1>9. UndisturbedSummaryFits' /\ SettledDemoShown'
    BY DEF UndisturbedSummaryFits, SettledDemoShown
  <1> QED BY <1>2, <1>5, <1>6, <1>7, <1>8, <1>9

(* A handler ends: the others wait as before. *)
LEMMA Finished ==
  ASSUME IInv, NEW c \in Calls, Finish(c), UNCHANGED mount
  PROVE  /\ call' \in [Calls -> Waits] /\ call'[c] = Idle
         /\ \A d \in Calls \ {c} : call'[d] = call[d]
         /\ \A op \in {"demo", "file", "upload"} : Waiting(op)' = Waiting(op) \ {c}
         /\ Writers' = Writers \ {c}
         /\ Started'
  <1> USE DEF IInv, Finish
  <1>1. call \in [Calls -> Waits] /\ Idle \in Waits BY DEF TypeOK, Waits
  <1>2. call' \in [Calls -> Waits] /\ call'[c] = Idle /\ \A d \in Calls \ {c} : call'[d] = call[d]
    BY <1>1
  <1>3. \A op \in {"demo", "file", "upload"} : Waiting(op)' = Waiting(op) \ {c}
    BY <1>2 DEF Waiting, Idle
  <1>4. Writers' = Writers \ {c} BY <1>3 DEF Writers
  <1>5. \A d \in Waiting("upload")' : d \in Waiting("upload") /\ call'[d] = call[d]
    BY <1>2, <1>3 DEF Waiting
  <1>6. Started' BY <1>2, <1>5 DEF Started
  <1> QED BY <1>2, <1>3, <1>4, <1>6

(* A handler that is no upload ends: the flag is as true as before. *)
LEMMA FlagKept ==
  ASSUME IInv, NEW c \in Calls, Finish(c), call[c].op # "upload",
         UNCHANGED <<mount, onPage, loading>>
  PROVE  LoadingIffUploading'
  <1>1. Waiting("upload")' = Waiting("upload") BY Finished DEF Waiting
  <1>2. \A d \in Waiting("upload") : call'[d] = call[d] BY Finished DEF Waiting
  <1> QED BY <1>1, <1>2 DEF IInv, LoadingIffUploading

LEMMA EditStep == ASSUME IInv, NEW text \in Texts, Edit(text) PROVE IInv'
  <1> USE DEF IInv, Edit, UpdateDraft, Deselect, ClearResult
  <1>1. TypeOK' BY DEF TypeOK
  <1>2. \A op : Waiting(op)' = Waiting(op) BY DEF Waiting
  <1>3. Started' /\ LoadingIffUploading' BY <1>2 DEF Started, LoadingIffUploading
  <1>4. AloneFits' /\ DemoUnfits' BY DEF AloneFits, DemoUnfits
  <1> QED BY <1>1, <1>3, <1>4 DEF UndisturbedSummaryFits, SettledDemoShown

LEMMA DemoArrivesStep == ASSUME IInv, NEW c \in Calls, DemoArrives(c) PROVE IInv'
  <1> USE DEF IInv, DemoArrives
  <1>1. UNCHANGED <<selectedDemoSlug, summary, mount, onPage, loading, error, demos, alone, fits>>
    BY DEF pageVars
  <1>2. c \in Waiting("demo") /\ c \in Writers BY DEF Waiting, Writers
  <1>3. call[c].slug \in Demos BY WaitKinds DEF TypeOK
  <1>4. draft' \in Texts BY <1>3, UploadAssumption DEF Texts
  <1>5. TypeOK' BY <1>1, <1>4, Finished DEF TypeOK
  <1>6. Started' BY <1>1, Finished
  <1>7. AloneFits'
    <2>1. \A d \in alone : call[d].op # "upload" BY <1>2 DEF AloneFits
    <2>2. \A d \in alone : call[d].op = "demo" => d = c BY <1>2 DEF AloneFits
    <2>3. \A d \in alone : call'[d].op \notin {"upload", "demo"}
      BY <1>1, <2>1, <2>2, Finished DEF TypeOK, Idle
    <2> QED BY <1>1, <2>3 DEF AloneFits
  <1>8. summary = None \/ ~fits BY <1>2 DEF DemoUnfits
  <1>9. DemoUnfits' /\ UndisturbedSummaryFits'
    BY <1>1, <1>8 DEF DemoUnfits, UndisturbedSummaryFits
  <1>10. LoadingIffUploading' BY <1>1, FlagKept
  <1>11. SettledDemoShown' BY <1>1 DEF AloneFits, SettledDemoShown
  <1> QED BY <1>5, <1>6, <1>7, <1>9, <1>10, <1>11

LEMMA DemoFailsStep == ASSUME IInv, NEW c \in Calls, DemoFails(c) PROVE IInv'
  <1> USE DEF IInv, DemoFails
  <1>1. UNCHANGED <<draft, selectedDemoSlug, summary, mount, onPage, loading, demos, alone,
                    fits, settled>>
    BY DEF stateVars
  <1>2. error' \in BOOLEAN BY DEF ShowError, TypeOK
  <1>3. TypeOK' BY <1>1, <1>2, Finished DEF TypeOK
  <1>4. AloneFits'
    <2>1. \A d \in alone : call'[d].op \in {"upload", "demo"} =>
              d # c /\ call'[d] = call[d]
      BY <1>1, Finished DEF TypeOK, Idle
    <2> QED BY <1>1, <2>1, Finished DEF AloneFits
  <1>5. DemoUnfits' BY <1>1, Finished DEF DemoUnfits
  <1>6. LoadingIffUploading' /\ Started' BY <1>1, FlagKept, Finished
  <1> QED BY <1>1, <1>3, <1>4, <1>5, <1>6 DEF UndisturbedSummaryFits, SettledDemoShown

LEMMA FileReadStep == ASSUME IInv, NEW c \in Calls, FileRead(c) PROVE IInv'
  <1> USE DEF IInv, FileRead, UpdateDraft, Deselect, ClearResult
  <1>1. c \in Writers /\ c \notin Waiting("demo") BY DEF Waiting, Writers
  <1>2. call[c].text \in Texts BY WaitKinds DEF TypeOK
  <1>3. error' \in BOOLEAN BY DEF ShowError, TypeOK
  <1>4. TypeOK' BY <1>2, <1>3, Finished DEF TypeOK
  <1>5. AloneFits'
    <2>1. \A d \in alone : call'[d].op \in {"upload", "demo"} => d # c /\ call'[d] = call[d]
      BY Finished DEF TypeOK, Idle
    <2>2. \A d \in alone : call'[d].op \notin {"upload", "demo"}
      BY <1>1, <2>1 DEF AloneFits
    <2> QED BY <2>2 DEF AloneFits
  <1>6. LoadingIffUploading' /\ Started' BY FlagKept, Finished
  <1> QED
    BY <1>4, <1>5, <1>6 DEF DemoUnfits, UndisturbedSummaryFits, SettledDemoShown

LEMMA VisualizeStep == ASSUME IInv, NEW c \in Calls, Visualize(c) PROVE IInv'
  <1> USE DEF IInv, Visualize, stateVars
  <1>1. CASE ~Uploadable(draft)
    <2>1. UNCHANGED <<stateVars, mount, onPage, loading, demos, call, alone, fits, settled>>
          /\ error' = FALSE /\ onPage
      BY <1>1
    <2> HIDE DEF Visualize
    <2>2. TypeOK' BY <2>1 DEF TypeOK
    <2> QED
      BY <2>1, <2>2 DEF Started, AloneFits, DemoUnfits, LoadingIffUploading,
        UndisturbedSummaryFits, SettledDemoShown, Waiting, Writers
  <1>2. CASE Uploadable(draft)
    <2> DEFINE w == [op |-> "upload", text |-> draft, mount |-> mount]
    <2>1. call[c] = Idle /\ call \in [Calls -> Waits] /\ call' = [call EXCEPT ![c] = w]
      BY <1>2 DEF TypeOK
    <2>2. w \in Waits BY <1>2 DEF Uploadable, Waits, TypeOK, Texts
    <2>3. call' \in [Calls -> Waits] /\ call'[c] = w /\ \A d \in Calls \ {c} : call'[d] = call[d]
      BY <2>1, <2>2
    <2>4. Waiting("upload")' = Waiting("upload") \cup {c} /\ Waiting("demo")' = Waiting("demo")
          /\ Writers' = Writers
      BY <2>1, <2>3 DEF Waiting, Writers, Idle
    <2>5. alone' \subseteq Calls /\ loading' = TRUE /\ error' = FALSE BY <1>2 DEF TypeOK
    <2>6. TypeOK' BY <2>3, <2>5 DEF TypeOK
    <2>7. \A d \in Waiting("upload") : d # c /\ call[d].mount # mount
      BY <2>1 DEF LoadingIffUploading, Waiting, Idle
    <2>8. Started'
      <3>1. mount \in Nat BY DEF TypeOK
      <3>2. \A d \in Calls : call'[d] # Idle => call'[d].mount <= mount'
        BY <2>3, <3>1 DEF Started
      <3>3. \A d, e \in Waiting("upload")' : call'[d].mount = call'[e].mount => d = e
        BY <2>3, <2>4, <2>7 DEF Started, Waiting
      <3> QED BY <3>2, <3>3 DEF Started
    <2>9. AloneFits'
      <3>1. \A d \in alone' : d # c => d \in alone /\ call'[d] = call[d]
        BY <1>2, <2>3 DEF TypeOK
      <3>2. c \in alone' => Writers = {} BY <1>2
      <3> QED BY <2>3, <2>4, <3>1, <3>2 DEF AloneFits
    <2>10. LoadingIffUploading' BY <2>3, <2>4, <2>5 DEF LoadingIffUploading
    <2> QED
      BY <2>4, <2>6, <2>8, <2>9, <2>10
      DEF DemoUnfits, UndisturbedSummaryFits, SettledDemoShown
  <1> QED BY <1>1, <1>2

(* An upload ends, with a summary or without. *)
LEMMA UploadEnds ==
  ASSUME IInv, NEW c \in Calls, call[c].op = "upload", Finish(c), StopLoading(c),
         UNCHANGED <<draft, selectedDemoSlug, mount, onPage, demos, alone, settled>>,
         error' \in BOOLEAN, summary' \in Docs \cup {None}, fits' \in BOOLEAN,
         DemoUnfits', UndisturbedSummaryFits'
  PROVE  IInv'
  <1> USE DEF IInv
  <1>1. c \in Waiting("upload") BY DEF Waiting
  <1>2. loading' \in BOOLEAN BY DEF StopLoading, TypeOK
  <1>3. TypeOK' BY <1>2, Finished DEF TypeOK
  <1>4. AloneFits'
    <2>1. \A d \in alone : call'[d].op \in {"upload", "demo"} => d # c /\ call'[d] = call[d]
      BY Finished DEF TypeOK, Idle
    <2>2. c \notin Writers BY DEF Writers, Waiting
    <2>3. Writers' = Writers BY <2>2, Finished
    <2> QED BY <2>1, <2>3 DEF AloneFits
  <1>5. LoadingIffUploading'
    <2>1. CASE ~onPage BY <2>1 DEF LoadingIffUploading
    <2>2. CASE onPage /\ call[c].mount = mount
      <3>1. loading' = FALSE BY <2>2 DEF StopLoading, Mounted
      <3>2. \A d \in Waiting("upload") : d # c => call[d].mount # mount
        BY <1>1, <2>2 DEF Started
      <3>3. \A d \in Waiting("upload")' : d \in Waiting("upload") /\ d # c /\ call'[d] = call[d]
        BY Finished DEF Waiting
      <3> QED BY <3>1, <3>2, <3>3 DEF LoadingIffUploading
    <2>3. CASE onPage /\ call[c].mount # mount
      <3>1. loading' = loading BY <2>3 DEF StopLoading, Mounted, TypeOK
      <3>2. Waiting("upload")' = Waiting("upload") \ {c} BY Finished
      <3>3. \A d \in Waiting("upload")' : call'[d] = call[d] BY <3>2, Finished DEF Waiting
      <3> QED BY <2>3, <3>1, <3>2, <3>3 DEF LoadingIffUploading
    <2> QED BY <2>1, <2>2, <2>3
  <1>6. Started' BY Finished
  <1>7. SettledDemoShown' BY DEF SettledDemoShown
  <1> QED BY <1>3, <1>4, <1>5, <1>6, <1>7

LEMMA AcceptedStep == ASSUME IInv, NEW c \in Calls, Accepted(c) PROVE IInv'
  <1> USE DEF IInv, Accepted
  <1>1. summary' \in Docs BY WaitKinds DEF TypeOK
  <1>2. c \in alone => Writers = {} /\ call[c].text = draft BY DEF AloneFits
  <1>3. Waiting("demo")' \subseteq Waiting("demo") BY Finished
  <1>4. DemoUnfits' BY <1>2, <1>3 DEF DemoUnfits, Writers
  <1>5. UndisturbedSummaryFits' BY <1>2 DEF UndisturbedSummaryFits
  <1>6. error' \in BOOLEAN /\ fits' \in BOOLEAN BY DEF TypeOK
  <1> QED BY <1>1, <1>4, <1>5, <1>6, UploadEnds

LEMMA NotAcceptedStep == ASSUME IInv, NEW c \in Calls, NotAccepted(c) PROVE IInv'
  <1> USE DEF IInv, NotAccepted, stateVars
  <1>1. error' \in BOOLEAN BY DEF ShowError, TypeOK
  <1>2. summary' \in Docs \cup {None} /\ fits' \in BOOLEAN BY DEF TypeOK
  <1>3. Waiting("demo")' \subseteq Waiting("demo") BY Finished
  <1>4. DemoUnfits' BY <1>3 DEF DemoUnfits
  <1>5. UndisturbedSummaryFits' BY DEF UndisturbedSummaryFits
  <1> QED BY <1>1, <1>2, <1>4, <1>5, UploadEnds

(* A new component has no upload out: whoever waits is of one before it. *)
LEMMA EnterStep == ASSUME IInv, Enter PROVE IInv'
  <1> USE DEF IInv, Enter, stateVars
  <1>1. mount \in Nat /\ mount' = mount + 1 /\ mount' \in 1..MaxMounts
    BY UploadAssumption DEF TypeOK
  <1>2. TypeOK' BY <1>1 DEF TypeOK
  <1>3. \A c \in Calls : call[c] # Idle => call[c].mount \in Nat /\ call[c].mount <= mount
    BY WaitKinds DEF TypeOK, Started
  <1>4. \A op : Waiting(op)' = Waiting(op) BY DEF Waiting
  <1>5. Started' BY <1>1, <1>3, <1>4 DEF Started
  <1>6. \A c \in Waiting("upload") : call[c].mount # mount' BY <1>1, <1>3 DEF Waiting, Idle
  <1>7. LoadingIffUploading' BY <1>4, <1>6 DEF LoadingIffUploading
  <1>8. AloneFits' /\ DemoUnfits' BY DEF AloneFits, DemoUnfits, Writers, Waiting
  <1> QED BY <1>2, <1>5, <1>7, <1>8 DEF UndisturbedSummaryFits, SettledDemoShown

LEMMA Inductive == ASSUME IInv, [Next]_vars PROVE IInv'
  <1>1. CASE ListDemos \/ DismissError \/ Leave \/ UNCHANGED vars BY <1>1, QuietSteps
  <1>2. CASE Enter BY <1>2, EnterStep
  <1>3. ASSUME NEW text \in Texts, Edit(text) PROVE IInv' BY <1>3, EditStep
  <1>4. ASSUME NEW c \in Calls, NEW slug \in Demos, LoadDemo(slug, c) PROVE IInv'
    <2>1. LET w == [op |-> "demo", slug |-> slug, mount |-> mount]
          IN  w \in Waits /\ w.op = "demo" /\ w.mount = mount /\ w.slug = slug
      BY DEF Waits, IInv, TypeOK
    <2> QED BY <1>4, <2>1, WritersStart DEF LoadDemo, ClearResult
  <1>5. ASSUME NEW c \in Calls, NEW text \in Texts, PickFile(text, c) PROVE IInv'
    <2>1. LET w == [op |-> "file", text |-> text, mount |-> mount]
          IN  w \in Waits /\ w.op = "file" /\ w.mount = mount
      BY DEF Waits, IInv, TypeOK
    <2>2. error' \in BOOLEAN BY <1>5 DEF PickFile, pageVars, IInv, TypeOK
    <2> QED BY <1>5, <2>1, <2>2, WritersStart DEF PickFile, stateVars, pageVars
  <1>6. ASSUME NEW c \in Calls,
               DemoArrives(c) \/ DemoFails(c) \/ FileRead(c)
                  \/ Visualize(c) \/ Accepted(c) \/ NotAccepted(c)
        PROVE  IInv'
    BY <1>6, DemoArrivesStep, DemoFailsStep, FileReadStep, VisualizeStep, AcceptedStep,
       NotAcceptedStep
  <1> QED BY <1>1, <1>2, <1>3, <1>4, <1>5, <1>6 DEF Next
------------------------------------------------------------------------------
LEMMA Invariance == Spec => []IInv
  <1> QED BY InitHolds, Inductive, PTL DEF Spec

(* The page's state is well typed, for any texts, demos and handlers. *)
THEOREM TypeCorrect == Spec => []TypeOK
  <1>1. IInv => TypeOK BY DEF IInv
  <1> QED BY <1>1, Invariance, PTL

(* visualize's `finally' and the signal of the component it was called on:   *)
(* however often the page is left and entered, its button is disabled        *)
(* exactly while an upload of its own is out.                                *)
THEOREM ButtonComesBack == Spec => []LoadingIffUploading
  <1>1. IInv => LoadingIffUploading BY DEF IInv
  <1> QED BY <1>1, Invariance, PTL

(* The summary next to the draft is of the draft, unless a handler that      *)
(* writes the draft, or an edit, came between the upload and its answer.     *)
THEOREM SummaryOfDraft == Spec => []UndisturbedSummaryFits
  <1>1. IInv => UndisturbedSummaryFits BY DEF IInv
  <1> QED BY <1>1, Invariance, PTL

(* The highlighted demo is the draft, once it was loaded undisturbed. *)
THEOREM DemoOfDraft == Spec => []SettledDemoShown
  <1>1. IInv => SettledDemoShown BY DEF IInv
  <1> QED BY <1>1, Invariance, PTL
==============================================================================
