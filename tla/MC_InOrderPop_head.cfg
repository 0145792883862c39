\* The same messages: is *head_msdu ever left pointing at a freed buffer?
CONSTANT MaxCount = 3
SPECIFICATION Spec
INVARIANT HeadNeverFreed
CHECK_DEADLOCK FALSE
