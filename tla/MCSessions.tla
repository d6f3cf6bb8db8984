----------------------------- MODULE MCSessions -----------------------------
(* Phones, with a keychain each, or tabs of one browser, which share its cookies. *)
EXTENDS Sessions

Own == {[a \in Apps |-> a]}
SharedCookies == {[a \in Apps |-> s] : s \in Stores}
OwnOrShared == Own \cup SharedCookies
=============================================================================
