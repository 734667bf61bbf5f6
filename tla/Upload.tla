-------------------------------- MODULE Upload --------------------------------
(***************************************************************************)
(* upload.component.ts with upload-state.service.ts: the landing page.     *)
(*                                                                         *)
(* The draft, the selected demo and the summary are the service's and      *)
(* outlive the component; loading, error and the demo list are the         *)
(* component's.  Demos, files and uploads are awaited while the page goes  *)
(* on, and a handler that waited goes on after its component is gone.      *)
(* A text is known by what is left when it is trimmed, a summary by the    *)
(* document it is of.                                                      *)
(***************************************************************************)
EXTENDS Integers, FiniteSets

CONSTANTS
    Docs,       \* texts with something in them
    Blank,      \* a text without
    Demos,      \* slugs
    DemoText,   \* the document of each demo
    None,       \* no demo, no summary
    Calls,      \* bound of the model: handlers that wait at once
    MaxMounts   \* bound of the model: times the page is entered

ASSUME UploadAssumption ==
    /\ Blank \notin Docs
    /\ None \notin Docs \cup Demos
    /\ DemoText \in [Demos -> Docs]
    /\ MaxMounts \in Nat \ {0}

VARIABLES
    draft,
    selectedDemoSlug,
    summary,
    mount,      \* which component this is: how often the page was entered
    onPage,
    loading,
    error,      \* a message is shown
    demos,      \* the list of demos has arrived
    call,       \* the handlers that wait
    alone,      \* history: those nothing has changed the draft beside
    fits,       \* history: the summary came from such an upload
    settled     \* history: the selected demo was loaded so, or none was

stateVars == <<draft, selectedDemoSlug, summary>>
pageVars == <<mount, onPage, loading, error, demos>>
vars == <<stateVars, pageVars, call, alone, fits, settled>>

Texts == Docs \cup {Blank}

Idle == [op |-> "idle"]

Waiting(op) == {c \in Calls : call[c].op = op}

(* Those that will write the draft when they go on. *)
Writers == Waiting("demo") \cup Waiting("file")

(* The component of this handler is the one on the page. *)
Mounted(c) == onPage /\ call[c].mount = mount
------------------------------------------------------------------------------
(* Slips the runs must notice, each a variant of a definition below. *)
KeepResult == UNCHANGED summary
KeepSelection == UNCHANGED selectedDemoSlug
StopWhoeverAsked(c) == loading' = FALSE
------------------------------------------------------------------------------
ClearResult == summary' = None

Deselect == selectedDemoSlug' = None

(* `if (!text) return'. *)
Uploadable(text) == text # Blank

(* visualize's `finally', on the component that called it. *)
StopLoading(c) == loading' = (loading /\ ~Mounted(c))

(* An error shown by the component of c, which may be gone. *)
ShowError(c, shown) == error' = IF Mounted(c) THEN shown ELSE error

UpdateDraft(text) ==
    /\ draft' = text
    /\ Deselect
    /\ ClearResult

Finish(c) == call' = [call EXCEPT ![c] = Idle]

(* A handler that will write the draft starts: every other one that waits   *)
(* is no longer alone, nor is this one if another writer waits.             *)
StartWriter(c, waiting) ==
    /\ call[c] = Idle
    /\ call' = [call EXCEPT ![c] = waiting]
    /\ alone' = IF Writers = {} THEN {c} ELSE {}

Init == /\ draft = Blank
        /\ selectedDemoSlug = None
        /\ summary = None
        /\ mount = 1
        /\ onPage = TRUE
        /\ loading = FALSE
        /\ error = FALSE
        /\ demos = FALSE
        /\ call = [c \in Calls |-> Idle]
        /\ alone = {}
        /\ fits = TRUE
        /\ settled = TRUE

(* The constructor's listDemos has an answer. *)
ListDemos ==
    /\ onPage /\ ~demos
    /\ demos' = TRUE
    /\ UNCHANGED <<stateVars, mount, onPage, loading, error, call, alone, fits, settled>>

(* Manual input, of white space only as well: the text is then the same. *)
Edit(text) ==
    /\ onPage
    /\ UpdateDraft(text)
    /\ error' = FALSE
    /\ alone' = {}
    /\ UNCHANGED <<mount, onPage, loading, demos, call, fits, settled>>

(* loadDemo, up to its await. *)
LoadDemo(slug, c) ==
    /\ onPage /\ demos
    /\ StartWriter(c, [op |-> "demo", slug |-> slug, mount |-> mount])
    /\ selectedDemoSlug' = slug
    /\ ClearResult
    /\ error' = FALSE
    /\ settled' = FALSE
    /\ UNCHANGED <<draft, mount, onPage, loading, demos, fits>>

(* loadDemo, from its await: the demo comes, ... *)
DemoArrives(c) ==
    /\ call[c].op = "demo"
    /\ draft' = DemoText[call[c].slug]
    /\ Finish(c)
    /\ settled' = (c \in alone)
    /\ UNCHANGED <<selectedDemoSlug, summary, pageVars, alone, fits>>

(* ... the server answers without data, which nothing shows, or is not       *)
(* reached.                                                                  *)
DemoFails(c) ==
    /\ call[c].op = "demo"
    /\ \E unreached \in BOOLEAN : ShowError(c, error \/ unreached)
    /\ Finish(c)
    /\ UNCHANGED <<stateVars, mount, onPage, loading, demos, alone, fits, settled>>

(* onFileSelected, up to its await ... *)
PickFile(text, c) ==
    /\ onPage
    /\ StartWriter(c, [op |-> "file", text |-> text, mount |-> mount])
    /\ UNCHANGED <<stateVars, pageVars, fits, settled>>

(* ... and from it. *)
FileRead(c) ==
    /\ call[c].op = "file"
    /\ UpdateDraft(call[c].text)
    /\ ShowError(c, FALSE)
    /\ Finish(c)
    /\ UNCHANGED <<mount, onPage, loading, demos, alone, fits, settled>>

(* visualize, up to its await. *)
Visualize(c) ==
    /\ onPage /\ ~loading
    /\ error' = FALSE
    /\ IF Uploadable(draft)
       THEN /\ call[c] = Idle
            /\ call' = [call EXCEPT ![c] = [op |-> "upload", text |-> draft, mount |-> mount]]
            /\ alone' = IF Writers = {} THEN alone \cup {c} ELSE alone \ {c}
            /\ loading' = TRUE
       ELSE UNCHANGED <<call, alone, loading>>
    /\ UNCHANGED <<stateVars, mount, onPage, demos, fits, settled>>

(* visualize, from its await: the document is accepted, ... *)
Accepted(c) ==
    /\ call[c].op = "upload"
    /\ summary' = call[c].text
    /\ fits' = (c \in alone)
    /\ StopLoading(c)
    /\ Finish(c)
    /\ UNCHANGED <<draft, selectedDemoSlug, mount, onPage, error, demos, alone, settled>>

(* ... or rejected, or the server is not reached. *)
NotAccepted(c) ==
    /\ call[c].op = "upload"
    /\ ShowError(c, TRUE)
    /\ StopLoading(c)
    /\ Finish(c)
    /\ UNCHANGED <<stateVars, mount, onPage, demos, alone, fits, settled>>

DismissError ==
    /\ onPage /\ error
    /\ error' = FALSE
    /\ UNCHANGED <<stateVars, mount, onPage, loading, demos, call, alone, fits, settled>>

(* To another page, and back to a new component. *)
Leave ==
    /\ onPage
    /\ mount < MaxMounts
    /\ onPage' = FALSE
    /\ UNCHANGED <<stateVars, mount, loading, error, demos, call, alone, fits, settled>>

Enter ==
    /\ ~onPage
    /\ onPage' = TRUE
    /\ mount' = mount + 1
    /\ loading' = FALSE /\ error' = FALSE /\ demos' = FALSE
    /\ UNCHANGED <<stateVars, call, alone, fits, settled>>

Next == \/ ListDemos \/ DismissError \/ Leave \/ Enter
        \/ \E text \in Texts : Edit(text)
        \/ \E c \in Calls :
              \/ \E slug \in Demos : LoadDemo(slug, c)
              \/ \E text \in Texts : PickFile(text, c)
              \/ DemoArrives(c) \/ DemoFails(c) \/ FileRead(c)
              \/ Visualize(c) \/ Accepted(c) \/ NotAccepted(c)

Spec == Init /\ [][Next]_vars
------------------------------------------------------------------------------
Waits == {Idle} \cup [op : {"demo"}, slug : Demos, mount : 1..MaxMounts]
                \cup [op : {"file"}, text : Texts, mount : 1..MaxMounts]
                \cup [op : {"upload"}, text : Docs, mount : 1..MaxMounts]

TypeOK == /\ draft \in Texts
          /\ selectedDemoSlug \in Demos \cup {None}
          /\ summary \in Docs \cup {None}
          /\ mount \in 1..MaxMounts /\ (onPage \/ mount < MaxMounts)
          /\ call \in [Calls -> Waits]
          /\ alone \subseteq Calls
          /\ onPage \in BOOLEAN /\ loading \in BOOLEAN /\ error \in BOOLEAN
          /\ demos \in BOOLEAN /\ fits \in BOOLEAN /\ settled \in BOOLEAN

(* The Visualize button of the component on the page is disabled exactly     *)
(* while an upload this component started is out: handlers of a component    *)
(* before it do not take the flag down, and none leaves it up.               *)
LoadingIffUploading ==
    onPage => (loading <=> \E c \in Waiting("upload") : call[c].mount = mount)

(* "Update the draft ..., invalidating the last result": the summary shown  *)
(* is of the draft beside it, however edits, demos, files and uploads follow *)
(* each other, unless the draft was written, or going to be, during the      *)
(* upload it came from.                                                      *)
UndisturbedSummaryFits == fits /\ summary # None => summary = draft

(* The demo that is highlighted is the one in the editor, unless it is       *)
(* awaited, could not be loaded, or overlapped with another change of the    *)
(* draft.                                                                    *)
SettledDemoShown ==
    settled /\ selectedDemoSlug # None => draft = DemoText[selectedDemoSlug]
==============================================================================
