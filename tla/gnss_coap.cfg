\* Fixes, requests and answers, with a token of three values.
SPECIFICATION FairSpec
CONSTANT TokenMod = 3
PROPERTIES InvalidOnlyIfLate OnlyLatestAccepted LastFixSent
