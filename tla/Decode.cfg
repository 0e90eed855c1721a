SPECIFICATION Spec
CONSTANT Reports <- MCReports
INVARIANTS TypeOK FilterCoversDecode ReadingsCohere StatusStable
