----------------------------- MODULE MCPolicies ------------------------------
EXTENDS Policies
MCTypes == {"UPLOAD"}
MCHours == 0..12
Terms(bytes, threshold, w) ==
    [bytes |-> [t \in MCTypes |-> bytes], threshold |-> [t \in MCTypes |-> threshold], window |-> w]
Nothing == Terms(0, NoThreshold, NoWindow)
Row(policy, own, plan, active, bytes) ==
    [policy |-> policy, own |-> own, plan |-> plan, active |-> active, granted |-> bytes]
Windows3 ==
    {Window("DAY", 0, 0, 1, 0), Window("DAY", 0, 0, 0, 1), Window("WEEK", 0, 0, 0, 0),
     Window("MONTH", 0, 0, 0, -1), Window("YEAR", 0, 0, 0, 0), Window("ROLLING", 3, 0, 0, 0),
     Window("LIFETIME", 0, 0, 0, 0)}
\* Limits of a plan; limits of the user's own over a plan's; and rows in which something
\* is missing: a window, a limit, an active plan; and a month that begins late.
MCRows ==
    {Row("HARD_LIMITS", Nothing, Terms(3, NoThreshold, w), TRUE, 0) : w \in Windows3}
    \cup {Row("THRESHOLD", Nothing, Terms(3, 2, w), TRUE, 0) : w \in Windows3}
    \cup {Row("HARD_LIMITS", Terms(2, NoThreshold, Window("DAY", 0, 0, 1, 1)),
              Terms(3, NoThreshold, Window("WEEK", 0, 0, 0, 0)), TRUE, 0),
          Row("THRESHOLD", Terms(2, NoThreshold, NoWindow), Terms(3, 1, Window("WEEK", 0, 0, 0, 0)), TRUE, 0),
          Row("THRESHOLD", Terms(2, 3, Window("DAY", 0, 0, 0, 0)), Nothing, TRUE, 0),
          Row("HARD_LIMITS", Terms(2, NoThreshold, NoWindow), Nothing, TRUE, 0),
          Row("HARD_LIMITS", Nothing, Nothing, TRUE, 0),
          Row("HARD_LIMITS", Nothing, Terms(3, NoThreshold, Window("DAY", 0, 0, 0, 0)), FALSE, 0),
          Row("HARD_LIMITS", Nothing, Terms(3, NoThreshold, Window("MONTH", 0, 0, 1, 0)), TRUE, 0),
          Row("ALLOWANCE", Nothing, Nothing, TRUE, 2),
          Row("UNLIMITED", Nothing, Nothing, TRUE, 0)}
==============================================================================
