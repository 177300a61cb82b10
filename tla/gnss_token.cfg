\* Is a response with the token that was sent always recognised?
SPECIFICATION Spec
CONSTANT TokenMod = 3
CONSTRAINT OnlyWhileReceiving
PROPERTY SentTokenAccepted
