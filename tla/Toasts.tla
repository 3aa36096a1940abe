------------------------------ MODULE Toasts ------------------------------
(* The messages that slide in at the page's lower edge, newest lowest, and *)
(* go after three seconds or a click: ToastManager and CommonToast of      *)
(* common_toast.js, the same file in simulator and dispatcher.             *)
(*                                                                         *)
(* A toast's id is made of the millisecond it is made in, so that two made *)
(* at once share it and getElementById finds the element of the first.     *)
(* The order of a toast's own timers is kept: slid in after 10 ms, hidden  *)
(* after 3 s, removed 400 ms after being hidden.                           *)
EXTENDS Naturals, Sequences, SequencesExt, FiniteSetsExt

CONSTANT MaxToasts \* bound: how many toasts are shown

ASSUME ToastsAssumption == MaxToasts \in Nat

VARIABLES
  activeToasts, \* the toasts, oldest first, each with its element of the page
  toastsMade    \* how many there have been

toasts == <<activeToasts, toastsMade>>

(* y is where the element is, counted in toasts from the lower edge, and   *)
(* offset where the toast believes it is; x says whether it is in view.    *)
(* disturbed: another toast was made before its sliding in was over, or    *)
(* has the same id (history).                                              *)
Toast == [id : 1..MaxToasts, phase : {"sliding", "staying", "leaving"},
          x : {"right", "in", "left"}, y : 0..MaxToasts, offset : 0..MaxToasts,
          disturbed : BOOLEAN]

ToastsTypeOK ==
  /\ activeToasts \in Seq(Toast) /\ toastsMade \in 0..MaxToasts
  /\ Len(activeToasts) <= toastsMade

ToastsInit == activeToasts = <<>> /\ toastsMade = 0

-----------------------------------------------------------------------------
(* getElementById: the first element of the page with the id. *)
ElementOf(page, id) == Min({i \in DOMAIN page : page[i].id = id})

(* Mutant: the oldest is the lowest. *)
RankUpwards(listed, i) == Cardinality({j \in listed : j < i})

(* A toast's place: above the newer ones of the list. *)
Rank(listed, i) == Cardinality({j \in listed : j > i})

(* updatePositions, when of the elements on the page those with a number   *)
(* in listed are on the list.  Of several toasts with one id the oldest    *)
(* has the last word.                                                      *)
Arranged(page, listed) ==
  [i \in DOMAIN page |->
     LET sharers == {j \in listed : page[j].id = page[i].id}
         placed  == [page[i] EXCEPT !.offset = IF i \in listed THEN Rank(listed, i) ELSE @]
     IN IF sharers # {} /\ ElementOf(page, page[i].id) = i
          THEN [placed EXCEPT !.x = "in", !.y = Rank(listed, Min(sharers))]
          ELSE placed]

New(id) == [id |-> id, phase |-> "sliding", x |-> "right", y |-> 0, offset |-> 0,
            disturbed |-> \E i \in DOMAIN activeToasts : activeToasts[i].id = id]

(* showToast: a new element, and all find their places.  Two made in the   *)
(* same millisecond get the same id.                                       *)
ShowToast ==
  /\ toastsMade < MaxToasts /\ toastsMade' = toastsMade + 1
  /\ \E id \in {toastsMade + 1} \cup
               {activeToasts[i].id : i \in {j \in DOMAIN activeToasts :
                  j = Len(activeToasts) /\ activeToasts[j].phase = "sliding"}} :
       LET others == [i \in DOMAIN activeToasts |->
                        [activeToasts[i] EXCEPT !.disturbed = @ \/ activeToasts[i].phase = "sliding"]]
           list == Append(others, New(id))
       IN activeToasts' = Arranged(list, DOMAIN list)

(* The timer of create: into view, at the lower edge. *)
SlideIn(i) ==
  /\ i \in DOMAIN activeToasts /\ activeToasts[i].phase = "sliding"
  /\ \A j \in 1..(i - 1) : activeToasts[j].phase # "sliding"
  /\ activeToasts' = [activeToasts EXCEPT ![i].phase = "staying", ![i].x = "in", ![i].y = 0]
  /\ UNCHANGED toastsMade

(* Mutant: the removal is left to somebody else. *)
LeavingOnly(t) == [t EXCEPT !.x = "left", !.y = t.offset]

Leaving(t) == [t EXCEPT !.x = "left", !.y = t.offset, !.phase = "leaving"]

(* hideAndRemove, by the timer of three seconds or a click on the cross,   *)
(* also of a toast that is leaving.                                        *)
HideAndRemove(i) ==
  /\ i \in DOMAIN activeToasts /\ activeToasts[i].phase # "sliding"
  /\ activeToasts' = [activeToasts EXCEPT ![i] = Leaving(activeToasts[i])]
  /\ UNCHANGED toastsMade

(* The timer of hideAndRemove: off the list, the others find their places, *)
(* and only then is the element taken off the page.                        *)
RemoveToast(i) ==
  /\ i \in DOMAIN activeToasts /\ activeToasts[i].phase = "leaving"
  /\ activeToasts' = RemoveAt(Arranged(activeToasts, DOMAIN activeToasts \ {i}), i)
  /\ UNCHANGED toastsMade

Timer == \E i \in DOMAIN activeToasts : SlideIn(i) \/ RemoveToast(i)
TimeOut == \E i \in DOMAIN activeToasts :
             activeToasts[i].phase = "staying" /\ HideAndRemove(i)

ToastsNext ==
  \/ ShowToast
  \/ \E i \in DOMAIN activeToasts : SlideIn(i) \/ HideAndRemove(i) \/ RemoveToast(i)

(* The browser runs the timers. *)
ToastsFairness == WF_toasts(Timer) /\ WF_toasts(TimeOut)

ToastsSpec == ToastsInit /\ [][ToastsNext]_toasts /\ ToastsFairness

-----------------------------------------------------------------------------
(* Two toasts are drawn over each other only if one of them was disturbed: *)
(* while updatePositions keeps them apart, the timer of create sets a      *)
(* toast down at the edge although a newer one is there by then, and a     *)
(* shared id sends the second's position to the first.                     *)
NoOverlap ==
  \A i, j \in DOMAIN activeToasts :
    i # j /\ activeToasts[i].y = activeToasts[j].y =>
      activeToasts[i].disturbed \/ activeToasts[j].disturbed

(* Every toast goes in the end, from the page and from the list. *)
AllGone == <>[](activeToasts = <<>>)
=============================================================================
