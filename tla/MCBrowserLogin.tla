--------------------------- MODULE MCBrowserLogin ---------------------------
(* Instances of BrowserLogin for TLC. *)
EXTENDS BrowserLogin, TLC

Form == [alias |-> "UPDATE_PASSWORD", kind |-> "form"]
Profile == [alias |-> "UPDATE_PROFILE", kind |-> "form"]
SelfClearing == [alias |-> "VERIFY_PROFILE", kind |-> "selfClears"]
Unverified == [alias |-> "VERIFY_EMAIL", kind |-> "verifyEmail"]

NoProviders == <<>>
OneForm == <<Form>>
FourActions == <<Profile, Unverified, Form, SelfClearing>>

PlainAndConsent == {{}, {"consent"}}
PlainAndLogin == {{}, {"login"}}
EveryPrompt == {{}, {"none"}, {"login"}, {"consent"}, {"create"}, {"none", "create"}}

\* Users are interchangeable: no action or property names one.
UserSymmetry == Permutations(Users)

=============================================================================
