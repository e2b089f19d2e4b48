SPECIFICATION Spec
CONSTANTS
    Null = Null
    Classes = {"audio", "video", "text", "threshold", "extension", "status", "stats", "quality"}
    MaxAsked = 2
INVARIANT ExchangeFaithful
\* MaxAsked objects end the exchange
CHECK_DEADLOCK FALSE
