\* An installation, the wizard, and removals in any order.
SPECIFICATION Spec
INVARIANT DataKept
