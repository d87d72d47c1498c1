------------------------------ MODULE MCAdminCalls ------------------------------
(* One process that may call every method, and one that drops, creates and     *)
(* queries what the first one works on.                                        *)
EXTENDS AdminCalls

CONSTANTS p1, p2

TwoProcs == {p1, p2}

EveryMethod == DOMAIN Requests

BothCalls ==
    [p \in TwoProcs |->
        IF p = p1
        THEN <<{"query_roles", "create_user", "register_udf"}, EveryMethod>>
        ELSE <<{"drop_user", "create_role", "drop_udf"}>>]

\* A privilege toPrivilege knows, and one of a later cluster that it does not.
SomePrivileges == {"read", "masking-admin"}

HashableOrNot == {"int", "float"}

\* An expression that toExpression has a case for, and one that it has none for inside it.
SomeFilters == {<<"Not">>, <<"Not", "NumFloor">>}

NoneOrAll == {{}, Objects}
================================================================================
