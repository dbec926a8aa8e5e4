--------------------------- MODULE MCSettingsSave ---------------------------
EXTENDS SettingsSave
CONSTANTS page, panel
\* The process dies, a save times out or fails, another window writes; the
\* onboarding's write and a crash never come together.
Disturbed == {{"crash", "timeout"}, {"crash", "fail"}, {"timeout", "toggle"}, {"onboard", "timeout"}}
Undisturbed == {{}}
=============================================================================
