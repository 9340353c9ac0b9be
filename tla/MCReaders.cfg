SPECIFICATION Spec
INVARIANTS LookupCurrent ScanCurrent FeedExact PreImagesExact
CHECK_DEADLOCK FALSE
