------------------------------ MODULE MCEvents ------------------------------
EXTENDS Events

CONSTANT t1

Says(listener, body, subject, details) ==
    [listener |-> listener, body |-> body,
     subject |-> subject, details |-> details]

\* An alert and an audit event that can be stored, one of each that cannot.
MCPublished ==
    {Says("alerts", "good", t1, Null), Says("alerts", "good", Null, Null),
     Says("audit", "good", Null, t1), Says("audit", "junk", t1, t1)}

=============================================================================
