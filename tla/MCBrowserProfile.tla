-------------------------- MODULE MCBrowserProfile --------------------------
(* Instances of BrowserProfile for TLC.                                    *)
EXTENDS BrowserProfile

CONSTANT r1

MCSettings(on, scope, strict) == [on |-> on, scope |-> scope, strict |-> strict]

\* Both profiles, and one of them switched off.
MCConfigs == {MCSettings(TRUE, "global", FALSE), MCSettings(TRUE, "conversation", FALSE),
              MCSettings(FALSE, "global", FALSE)}

\* With a stricter policy of one of them.
MCStrictConfigs == MCConfigs \cup {MCSettings(TRUE, "global", TRUE)}
=============================================================================
